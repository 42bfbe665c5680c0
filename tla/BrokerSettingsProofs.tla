-------------------------- MODULE BrokerSettingsProofs --------------------------
(***************************************************************************)
(* For all specs: controlled shutdown cannot be overridden, at rest what a *)
(* pod template points at is in the ConfigMap of its role group, and after *)
(* one edit a broker's authorization is that of the spec.                  *)
(***************************************************************************)
EXTENDS BrokerSettings, TLAPS

-----------------------------------------------------------------------------
(* Types *)

LEMMA TypeStep ==
    ASSUME TypeOK, [Next]_vars
    PROVE  TypeOK'
<1> USE SettingsBoundsAssumption DEF TypeOK
<1>1. CASE UserEdits
  BY <1>1 DEF UserEdits, run
<1>2. CASE StartRun
  BY <1>2 DEF StartRun
<1>3. CASE EndRun
  BY <1>3 DEF EndRun
<1>4. CASE RunFails
  <2>1. running' = FALSE /\ due' = TRUE /\ todo' = {} /\ half' = {}
    BY <1>4 DEF RunFails, Abort
  <2>2. UNCHANGED <<spec, snap, configMaps, templates, pods, edits>> /\ faults' \in 0 .. MaxFaults
    BY <1>4 DEF RunFails
  <2> QED
    BY <2>1, <2>2
<1>5. ASSUME NEW g \in RoleGroups, ApplyConfigMap(g) PROVE TypeOK'
  <2>1. ConfigMap(snap, g) \in ConfigMaps
    BY DEF ConfigMaps
  <2> QED
    BY <1>5, <2>1 DEF ApplyConfigMap
<1>6. ASSUME NEW g \in RoleGroups, ApplyStatefulSet(g) PROVE TypeOK'
  <2>1. Template(snap, g) \in Templates
    BY DEF Templates
  <2> QED
    BY <1>6, <2>1 DEF ApplyStatefulSet
<1>7. ASSUME NEW g \in RoleGroups, BuildFails(g) PROVE TypeOK'
  BY <1>7 DEF BuildFails, Abort
<1>8. ASSUME NEW g \in RoleGroups, CreatePod(g) PROVE TypeOK'
  BY <1>8 DEF CreatePod, NewPod, run
<1>9. ASSUME NEW g \in RoleGroups, ReplacePod(g) PROVE TypeOK'
  BY <1>9 DEF ReplacePod, run
<1>10. ASSUME NEW g \in RoleGroups, StartBroker(g) PROVE TypeOK'
  <2>1. PICK p \in pods[g], c \in configMaps[g] :
            pods' = [pods EXCEPT ![g] = {[p EXCEPT !.server = {c.server}]}]
    BY <1>10 DEF StartBroker
  <2>2. c.server \in Properties
    BY DEF ConfigMaps, ConfigMap, Properties
  <2>3. [p EXCEPT !.server = {c.server}] \in [template : Templates, server : SUBSET Properties]
    BY <2>2
  <2> QED
    BY <1>10, <2>1, <2>3 DEF StartBroker, run
<1>11. ASSUME NEW g \in RoleGroups, BrokerDies(g) PROVE TypeOK'
  <2>1. PICK p \in pods[g] : pods' = [pods EXCEPT ![g] = {NewPod(p.template)}]
    BY <1>11 DEF BrokerDies
  <2> QED
    BY <1>11, <2>1 DEF BrokerDies, NewPod, run
<1>12. CASE UNCHANGED vars
  BY <1>12 DEF vars
<1> QED
  BY <1>1, <1>2, <1>3, <1>4, <1>5, <1>6, <1>7, <1>8, <1>9, <1>10, <1>11, <1>12 DEF Next

LEMMA SettingsInit ==
    ASSUME Init
    PROVE  TypeOK
<1>1. pods \in [RoleGroups -> SUBSET [template : Templates, server : SUBSET Properties]]
  BY DEF Init
<1>2. configMaps \in [RoleGroups -> SUBSET ConfigMaps] /\ templates \in [RoleGroups -> SUBSET Templates]
  BY DEF Init
<1>3. edits \in 0 .. MaxEdits /\ faults \in 0 .. MaxFaults
  BY SettingsBoundsAssumption DEF Init
<1>4. /\ spec \in Specs /\ snap \in Specs /\ due \in BOOLEAN /\ running \in BOOLEAN
      /\ todo = {} /\ half = {}
  BY DEF Init
<1> QED
  BY <1>1, <1>2, <1>3, <1>4 DEF TypeOK

\* Every variable has its type, and nothing of a run is left when it ends.
THEOREM SettingsTypeCorrect == Spec => []TypeOK
<1>1. Init => TypeOK
  BY SettingsInit
<1>2. TypeOK /\ [Next]_vars => TypeOK'
  BY TypeStep
<1> QED
  BY <1>1, <1>2, PTL DEF Spec

-----------------------------------------------------------------------------
(* Controlled shutdown *)

\* What is said first counts: nothing in the overrides makes up for it.
LEMMA PropertiesControlled == \A s \in Properties : s["controlled.shutdown.enable"] = "true"
<1>1. ASSUME NEW rest PROVE Or(GracefulShutdown, rest)["controlled.shutdown.enable"] = "true"
  BY DEF Or, GracefulShutdown, Just
<1> QED
  BY <1>1 DEF Properties, ServerProperties

\* No override turns controlled shutdown off in a broker that runs.
THEOREM ShutdownAlwaysControlled == Spec => []ShutdownIsControlled
<1>1. TypeOK => ShutdownIsControlled
  BY PropertiesControlled DEF TypeOK, ShutdownIsControlled
<1> QED
  BY <1>1, SettingsTypeCorrect, PTL

-----------------------------------------------------------------------------
(* The two objects of a role group *)

\* Role group g has both objects as the run's spec wants them.
Written(g) == configMaps[g] = {ConfigMap(snap, g)} /\ templates[g] = {Template(snap, g)}

\* A run has written the role groups it has left behind, and unless something has happened
\* since it began, its spec is the user's and a run that is over has written them all.
RunInv ==
    /\ TypeOK
    /\ running => \A g \in RoleGroups \ (todo \cup half) : Written(g)
    /\ running => \A g \in half : configMaps[g] = {ConfigMap(snap, g)}
    /\ \A g, h \in half : g = h
    /\ ~due => snap = spec /\ (~running => \A g \in RoleGroups : Written(g))

LEMMA RunStep ==
    ASSUME RunInv, [Next]_vars
    PROVE  RunInv'
<1> TypeOK'
  BY TypeStep DEF RunInv
<1> USE DEF RunInv, Written, TypeOK
<1>1. CASE UserEdits
  BY <1>1 DEF UserEdits, run
<1>2. CASE StartRun
  BY <1>2 DEF StartRun
<1>3. CASE EndRun
  BY <1>3 DEF EndRun
<1>4. CASE RunFails
  BY <1>4 DEF RunFails, Abort
<1>5. ASSUME NEW g \in RoleGroups, ApplyConfigMap(g) PROVE RunInv'
  BY <1>5 DEF ApplyConfigMap
<1>6. ASSUME NEW g \in RoleGroups, ApplyStatefulSet(g) PROVE RunInv'
  <2>1. /\ running /\ g \in half /\ half' = {}
        /\ templates' = [templates EXCEPT ![g] = {Template(snap, g)}]
        /\ UNCHANGED <<spec, due, running, snap, todo, configMaps>>
    BY <1>6 DEF ApplyStatefulSet
  <2>2. configMaps'[g] = {ConfigMap(snap, g)} /\ templates'[g] = {Template(snap, g)}
    BY <2>1
  <2>3. \A h \in RoleGroups \ (todo \cup half) : configMaps'[h] = {ConfigMap(snap, h)}
                                              /\ templates'[h] = {Template(snap, h)}
    BY <2>1
  <2>4. half = {g}
    BY <2>1
  <2> QED
    BY <2>1, <2>2, <2>3, <2>4
<1>7. ASSUME NEW g \in RoleGroups, BuildFails(g) PROVE RunInv'
  BY <1>7 DEF BuildFails, Abort
<1>8. ASSUME NEW g \in RoleGroups, CreatePod(g) PROVE RunInv'
  BY <1>8 DEF CreatePod, run
<1>9. ASSUME NEW g \in RoleGroups, ReplacePod(g) PROVE RunInv'
  BY <1>9 DEF ReplacePod, run
<1>10. ASSUME NEW g \in RoleGroups, StartBroker(g) PROVE RunInv'
  BY <1>10 DEF StartBroker, run
<1>11. ASSUME NEW g \in RoleGroups, BrokerDies(g) PROVE RunInv'
  BY <1>11 DEF BrokerDies, run
<1>12. CASE UNCHANGED vars
  BY <1>12 DEF vars
<1> QED
  BY <1>1, <1>2, <1>3, <1>4, <1>5, <1>6, <1>7, <1>8, <1>9, <1>10, <1>11, <1>12 DEF Next

\* The pod overrides leave alone what is looked at, and the values of the settings are
\* those they can have; "role group" is not the name of a ConfigMap of the user.
MountsLeftAlone ==
    \A s \in Specs, g \in RoleGroups :
        /\ DOMAIN Overrides(s, g, "podOverrides") \cap {"logConfig", "enableVectorAgent"} = {}
        /\ MergedConfig(s, g).logging # "role group"
        /\ MergedConfig(s, g).enableVectorAgent \in BOOLEAN

\* Both objects of a spec agree on the files.
LEMMA MountsAgree ==
    ASSUME MountsLeftAlone, NEW s \in Specs, NEW g \in RoleGroups
    PROVE  /\ Template(s, g).logConfig = "role group" <=> "log4j.properties" \in ConfigMap(s, g).files
           /\ Template(s, g).enableVectorAgent <=> "vector.yaml" \in ConfigMap(s, g).files
<1> DEFINE config == MergedConfig(s, g)
           over == Overrides(s, g, "podOverrides")
<1>1. /\ "logConfig" \notin DOMAIN over /\ "enableVectorAgent" \notin DOMAIN over
      /\ config.logging # "role group" /\ config.enableVectorAgent \in BOOLEAN
  BY DEF MountsLeftAlone
<1> HIDE DEF over
<1>2. Template(s, g).logConfig = LogConfigVolume(s, g)
  BY <1>1 DEF Template, Or, over
<1>3. Template(s, g).enableVectorAgent = config.enableVectorAgent
  BY <1>1 DEF Template, Or, over, Taken, InTemplate
<1>4. ConfigMap(s, g).files = Files(s, g)
  BY DEF ConfigMap
<1>5. LogConfigVolume(s, g) = "role group" <=> "log4j.properties" \in Files(s, g)
  BY <1>1 DEF LogConfigVolume, Files
<1>6. config.enableVectorAgent <=> "vector.yaml" \in Files(s, g)
  BY <1>1 DEF Files
<1> QED
  BY <1>2, <1>3, <1>4, <1>5, <1>6

\* A run leaves behind what its spec wants, for all specs.
THEOREM SettingsInvariance == Spec => []RunInv
<1>1. Init => RunInv
  BY SettingsInit DEF Init, RunInv
<1>2. RunInv /\ [Next]_vars => RunInv'
  BY RunStep
<1> QED
  BY <1>1, <1>2, PTL DEF Spec

\* At rest the ConfigMap of a role group has just the files its pod template points at.
THEOREM MountsAlwaysResolve ==
    ASSUME MountsLeftAlone
    PROVE  Spec => []MountsResolve
<1>1. RunInv => MountsResolve
  <2> SUFFICES ASSUME RunInv, AtRest, NEW g \in RoleGroups
               PROVE  \A t \in templates[g] : \E c \in configMaps[g] :
                          /\ t.logConfig = "role group" <=> "log4j.properties" \in c.files
                          /\ t.enableVectorAgent <=> "vector.yaml" \in c.files
    BY DEF MountsResolve
  <2>1. snap \in Specs /\ configMaps[g] = {ConfigMap(snap, g)} /\ templates[g] = {Template(snap, g)}
    BY DEF RunInv, TypeOK, AtRest, Written
  <2> QED
    BY <2>1, MountsAgree
<1> QED
  BY <1>1, SettingsInvariance, PTL

-----------------------------------------------------------------------------
(* Authorization by OPA *)

\* Nothing in the overrides touches the two halves of what makes a broker ask OPA.
OpaLeftAlone ==
    \A s \in Specs, g \in RoleGroups :
        /\ "opaUrl" \notin DOMAIN Overrides(s, g, "podOverrides")
        /\ "authorizer.class.name" \notin DOMAIN Overrides(s, g, "configOverrides")

HasClass(server) == "authorizer.class.name" \in DOMAIN server

\* Every object, pod and broker of role group g has what a spec with or without opa gives it.
AllSay(g, opa) ==
    /\ \A c \in configMaps[g] : HasClass(c.server) <=> opa
    /\ \A t \in templates[g] : t.opaUrl <=> opa
    /\ \A p \in pods[g] : /\ p.template.opaUrl <=> opa
                          /\ \A s \in p.server : HasClass(s) <=> opa

\* Where a template, of the StatefulSet or of its pod, has come to agree with the user, the
\* ConfigMap agreed before it, and so does what a broker reads in a pod that agrees.
FollowsConfigMap(g) ==
    /\ \A t \in templates[g] :
           (t.opaUrl <=> spec.opa) => \A c \in configMaps[g] : HasClass(c.server) <=> spec.opa
    /\ \A p \in pods[g] :
           (p.template.opaUrl <=> spec.opa) =>
               /\ \A c \in configMaps[g] : HasClass(c.server) <=> spec.opa
               /\ \A s \in p.server : HasClass(s) <=> spec.opa

\* Before the operator has seen an edit of opa, everything is as before it; from then on it
\* spreads from the ConfigMap to the template, to the pod, to the broker.  A second edit
\* could find a pod of the old template beside a ConfigMap of the new one.
OpaInv ==
    edits <= 1 =>
        /\ edits = 0 => snap = spec
        /\ \A g \in RoleGroups :
               /\ edits = 0 \/ snap.opa # spec.opa => AllSay(g, snap.opa)
               /\ FollowsConfigMap(g)

\* What a spec says of opa is what its objects say, in both of them.
LEMMA ObjectsSay ==
    ASSUME OpaLeftAlone, NEW s \in Specs, NEW g \in RoleGroups
    PROVE  /\ Template(s, g).opaUrl = s.opa
           /\ HasClass(ConfigMap(s, g).server) <=> s.opa
<1> DEFINE pod == Overrides(s, g, "podOverrides")
           config == Overrides(s, g, "configOverrides")
<1>1. "opaUrl" \notin DOMAIN pod /\ "authorizer.class.name" \notin DOMAIN config
  BY DEF OpaLeftAlone
<1> HIDE DEF pod, config
<1>2. Template(s, g).opaUrl = s.opa
  BY <1>1 DEF Template, Or, pod
<1>3. "authorizer.class.name" \in DOMAIN ComputedProperties(s) <=> s.opa
  BY SettingsSpecsAssumption DEF ComputedProperties, Or, Just
<1>4. DOMAIN ServerProperties(s, g) =
          {"controlled.shutdown.enable"} \cup DOMAIN config \cup DOMAIN ComputedProperties(s)
  BY DEF ServerProperties, Or, GracefulShutdown, Just, config
<1> QED
  BY <1>1, <1>2, <1>3, <1>4 DEF HasClass, ConfigMap

\* Only the user edits.
LEMMA EditsStep == [Next]_vars => UserEdits \/ edits' = edits
<1>1. StartRun \/ EndRun \/ RunFails \/ UNCHANGED vars => edits' = edits
  BY DEF StartRun, EndRun, RunFails, vars
<1>2. \A g \in RoleGroups : ApplyConfigMap(g) \/ ApplyStatefulSet(g) \/ BuildFails(g) => edits' = edits
  BY DEF ApplyConfigMap, ApplyStatefulSet, BuildFails
<1>3. \A g \in RoleGroups : CreatePod(g) \/ ReplacePod(g) \/ StartBroker(g) \/ BrokerDies(g) => edits' = edits
  BY DEF CreatePod, ReplacePod, StartBroker, BrokerDies
<1> QED
  BY <1>1, <1>2, <1>3 DEF Next

LEMMA OpaStep ==
    ASSUME OpaLeftAlone, RunInv, OpaInv, [Next]_vars
    PROVE  OpaInv'
<1> SUFFICES ASSUME edits' <= 1 PROVE OpaInv'
  BY DEF OpaInv
<1> DEFINE Goal(g) == /\ edits' = 0 \/ snap'.opa # spec'.opa => AllSay(g, snap.opa)'
                      /\ FollowsConfigMap(g)'
<1>1. /\ spec \in Specs /\ snap \in Specs /\ edits \in Nat
      /\ \A s \in Specs : s.opa \in BOOLEAN
  BY SettingsBoundsAssumption, SettingsSpecsAssumption DEF RunInv, TypeOK
<1>2. UserEdits => edits = 0
  BY <1>1 DEF UserEdits
<1>3. /\ edits = 0 => snap = spec
      /\ \A g \in RoleGroups : /\ edits = 0 \/ snap.opa # spec.opa => AllSay(g, snap.opa)
                               /\ FollowsConfigMap(g)
  BY <1>1, <1>2, EditsStep DEF OpaInv
<1>4. edits' = 0 => edits = 0 /\ ~UserEdits
  BY <1>1, <1>2, EditsStep DEF UserEdits
<1>5. CASE UserEdits
  <2>1. UNCHANGED <<snap, configMaps, templates, pods>> /\ edits' = 1 /\ spec' \in Specs
    BY <1>1, <1>2, <1>5 DEF UserEdits, run
  <2>2. ASSUME NEW g \in RoleGroups PROVE Goal(g)
    <3>1. AllSay(g, snap.opa)
      BY <1>2, <1>3, <1>5
    <3>2. AllSay(g, snap.opa)'
      BY <2>1, <3>1 DEF AllSay
    <3>3. FollowsConfigMap(g)'
      BY <1>1, <2>1, <3>1 DEF AllSay, FollowsConfigMap
    <3> QED
      BY <3>2, <3>3
  <2> QED
    BY <2>1, <2>2 DEF OpaInv
<1>6. ASSUME UNCHANGED <<spec, edits, configMaps, templates, pods>>, snap' = snap
      PROVE  OpaInv'
  BY <1>3, <1>6 DEF AllSay, FollowsConfigMap, OpaInv
<1>7. CASE StartRun
  <2>1. UNCHANGED <<spec, edits, configMaps, templates, pods>> /\ snap' = spec
    BY <1>7 DEF StartRun
  <2> QED
    BY <1>3, <2>1 DEF AllSay, FollowsConfigMap, OpaInv
<1>8. ASSUME NEW g \in RoleGroups, ApplyConfigMap(g) PROVE OpaInv'
  <2>1. /\ UNCHANGED <<spec, snap, edits, templates, pods>>
        /\ configMaps' = [configMaps EXCEPT ![g] = {ConfigMap(snap, g)}]
    BY <1>8 DEF ApplyConfigMap
  <2>2. \A c \in configMaps'[g] : HasClass(c.server) <=> snap.opa
    BY <1>1, <2>1, ObjectsSay DEF RunInv, TypeOK
  <2>3. \A h \in RoleGroups \ {g} : configMaps'[h] = configMaps[h]
    BY <2>1 DEF RunInv, TypeOK
  <2>4. ASSUME NEW h \in RoleGroups, h # g PROVE Goal(h)
    BY <1>3, <2>1, <2>3, <2>4 DEF AllSay, FollowsConfigMap
  <2>5. edits' = 0 \/ snap'.opa # spec'.opa => AllSay(g, snap.opa)'
    BY <1>3, <2>1, <2>2 DEF AllSay
  <2>6. FollowsConfigMap(g)'
    <3>1. CASE snap.opa = spec.opa
      BY <1>3, <2>1, <2>2, <3>1 DEF FollowsConfigMap
    <3>2. CASE snap.opa # spec.opa
      BY <1>1, <1>3, <2>1, <3>2 DEF FollowsConfigMap, AllSay
    <3> QED
      BY <3>1, <3>2
  <2> QED
    BY <1>3, <2>1, <2>4, <2>5, <2>6 DEF OpaInv
<1>9. ASSUME NEW g \in RoleGroups, ApplyStatefulSet(g) PROVE OpaInv'
  <2>1. /\ UNCHANGED <<spec, snap, edits, configMaps, pods>>
        /\ templates' = [templates EXCEPT ![g] = {Template(snap, g)}]
    BY <1>9 DEF ApplyStatefulSet
  <2>2. \A t \in templates'[g] : t.opaUrl = snap.opa
    BY <1>1, <2>1, ObjectsSay DEF RunInv, TypeOK
  <2>3. \A h \in RoleGroups \ {g} : templates'[h] = templates[h]
    BY <2>1 DEF RunInv, TypeOK
  <2>4. \A c \in configMaps[g] : HasClass(c.server) <=> snap.opa
    BY <1>1, <1>9, ObjectsSay DEF ApplyStatefulSet, RunInv, TypeOK
  <2>5. ASSUME NEW h \in RoleGroups, h # g PROVE Goal(h)
    BY <1>3, <2>1, <2>3, <2>5 DEF AllSay, FollowsConfigMap
  <2>6. edits' = 0 \/ snap'.opa # spec'.opa => AllSay(g, snap.opa)'
    BY <1>3, <2>1, <2>2 DEF AllSay
  <2>7. FollowsConfigMap(g)'
    BY <1>1, <1>3, <2>1, <2>2, <2>4 DEF FollowsConfigMap
  <2> QED
    BY <1>3, <2>1, <2>5, <2>6, <2>7 DEF OpaInv
<1>10. ASSUME NEW g \in RoleGroups, CreatePod(g) PROVE OpaInv'
  <2>1. PICK t \in templates[g] : pods' = [pods EXCEPT ![g] = {NewPod(t)}]
    BY <1>10 DEF CreatePod
  <2>2. UNCHANGED <<spec, snap, edits, configMaps, templates>>
    BY <1>10 DEF CreatePod, run
  <2>3. \A p \in pods'[g] : p.template = t /\ p.server = {}
    BY <2>1 DEF RunInv, TypeOK, NewPod
  <2>4. \A h \in RoleGroups \ {g} : pods'[h] = pods[h]
    BY <2>1 DEF RunInv, TypeOK
  <2> QED
    BY <1>3, <2>2, <2>3, <2>4 DEF AllSay, FollowsConfigMap, OpaInv
<1>11. ASSUME NEW g \in RoleGroups, ReplacePod(g) PROVE OpaInv'
  <2>1. /\ UNCHANGED <<spec, snap, edits, configMaps, templates>>
        /\ \A h \in RoleGroups : pods'[h] \subseteq pods[h]
    BY <1>11 DEF ReplacePod, run, RunInv, TypeOK
  <2> QED
    BY <1>3, <2>1 DEF AllSay, FollowsConfigMap, OpaInv
<1>12. ASSUME NEW g \in RoleGroups, StartBroker(g) PROVE OpaInv'
  <2>1. PICK p \in pods[g], c \in configMaps[g] :
            pods' = [pods EXCEPT ![g] = {[p EXCEPT !.server = {c.server}]}]
    BY <1>12 DEF StartBroker
  <2>2. UNCHANGED <<spec, snap, edits, configMaps, templates>>
    BY <1>12 DEF StartBroker, run
  <2>3. \A q \in pods'[g] : q.template = p.template /\ q.server = {c.server}
    BY <2>1 DEF RunInv, TypeOK
  <2>4. \A h \in RoleGroups \ {g} : pods'[h] = pods[h]
    BY <2>1 DEF RunInv, TypeOK
  <2> QED
    BY <1>3, <2>2, <2>3, <2>4 DEF AllSay, FollowsConfigMap, OpaInv
<1>13. ASSUME NEW g \in RoleGroups, BrokerDies(g) PROVE OpaInv'
  <2>1. PICK p \in pods[g] : pods' = [pods EXCEPT ![g] = {NewPod(p.template)}]
    BY <1>13 DEF BrokerDies
  <2>2. UNCHANGED <<spec, snap, edits, configMaps, templates>>
    BY <1>13 DEF BrokerDies, run
  <2>3. \A q \in pods'[g] : q.template = p.template /\ q.server = {}
    BY <2>1 DEF RunInv, TypeOK, NewPod
  <2>4. \A h \in RoleGroups \ {g} : pods'[h] = pods[h]
    BY <2>1 DEF RunInv, TypeOK
  <2> QED
    BY <1>3, <2>2, <2>3, <2>4 DEF AllSay, FollowsConfigMap, OpaInv
<1>14. CASE EndRun \/ RunFails \/ UNCHANGED vars \/ \E g \in RoleGroups : BuildFails(g)
  BY <1>6, <1>14 DEF EndRun, RunFails, BuildFails, Abort, vars, OpaInv
<1> QED
  BY <1>5, <1>7, <1>8, <1>9, <1>10, <1>11, <1>12, <1>13, <1>14 DEF Next

\* As long as the user has edited the spec at most once, a broker at rest is authorized as
\* the spec says, for any specs whose overrides leave authorization alone.
THEOREM AuthorizationSettles ==
    ASSUME OpaLeftAlone
    PROVE  Spec => [](edits <= 1 => SettledAuthorizes)
<1>1. Init => OpaInv
  BY DEF Init, OpaInv, AllSay, FollowsConfigMap
<1>2. RunInv /\ OpaInv /\ [Next]_vars => OpaInv'
  BY OpaStep
<1>3. RunInv /\ OpaInv /\ edits <= 1 => SettledAuthorizes
  <2> SUFFICES ASSUME RunInv, OpaInv, edits <= 1, AtRest, NEW g \in RoleGroups, NEW p \in Current(g)
               PROVE  /\ AsksOpa(p) <=> spec.opa
                      /\ ~spec.opa => \A s \in p.server : ~HasClass(s)
    BY DEF SettledAuthorizes, HasClass
  <2>1. spec \in Specs /\ spec.opa \in BOOLEAN /\ templates[g] = {Template(spec, g)}
    BY SettingsSpecsAssumption DEF RunInv, TypeOK, AtRest, Written
  <2>2. p \in pods[g] /\ p.template.opaUrl = spec.opa /\ p.server # {}
    BY <2>1, ObjectsSay DEF Current
  <2>3. \A s \in p.server : HasClass(s) <=> spec.opa
    BY <2>2 DEF OpaInv, FollowsConfigMap
  <2> QED
    BY <2>1, <2>2, <2>3 DEF AsksOpa, HasClass
<1> QED
  BY <1>1, <1>2, <1>3, SettingsInvariance, PTL DEF Spec
=============================================================================
