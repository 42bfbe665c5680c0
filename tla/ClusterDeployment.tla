--------------------------- MODULE ClusterDeployment ---------------------------
(***************************************************************************)
(* What the control loop promises, without saying how: objects are brought *)
(* from one plan to another by deployments, one at a time, each of which   *)
(* may be abandoned anywhere.  A deployment applies what its plan wants,   *)
(* each object after those it needs; only then it prunes what the plan     *)
(* does not want; only then it reports.                                    *)
(*                                                                         *)
(* Objects may also vanish by other hands.  A frozen plan is only read.    *)
(***************************************************************************)

CONSTANTS
    Objects,    \* the objects there can be
    Contents,   \* what an object can contain
    Absent,     \* the value of an object that does not exist
    Plans,      \* what can be deployed
    NoPlan,     \* the target between two deployments
    Wanted,     \* [Plans -> SUBSET Objects]
    Forms,      \* [Plans -> [Objects -> SUBSET Contents]]: the contents a plan gives an object
    Needs,      \* [Objects -> SUBSET Objects]: what has to be there before an object
    Frozen,     \* plans that are read and compared, never written
    Tamperable, \* objects that others may delete
    Reports,    \* [Plans -> set of reports]: what a complete deployment may say
    NoReport    \* the report before the first

ASSUME WantedType == Wanted \in [Plans -> SUBSET Objects]
ASSUME NeedsType == Needs \in [Objects -> SUBSET Objects]
ASSUME NoPlanType == NoPlan \notin Plans
ASSUME FormsType ==
    \A p \in Plans : \A o \in Objects : Forms[p][o] \subseteq Contents /\ Absent \notin Forms[p][o]

VARIABLES
    target,     \* the plan under deployment
    done,       \* what this deployment has applied
    objects,    \* the objects as they are
    report      \* the last report

vars == <<target, done, objects, report>>

There(o) == objects[o] # Absent

\* Everything the plan wants has been applied.
Applied == target # NoPlan /\ Wanted[target] \subseteq done

Begin(p) ==
    /\ target = NoPlan
    /\ target' = p /\ done' = {}
    /\ UNCHANGED <<objects, report>>

\* Mutant: objects are applied in any order.
ApplyRegardless(o) ==
    /\ target # NoPlan /\ target \notin Frozen
    /\ o \in Wanted[target]
    /\ done' = done \cup {o}
    /\ \E v \in Forms[target][o] : objects' = [objects EXCEPT ![o] = v]
    /\ UNCHANGED <<target, report>>

\* Mutant: an object that is there is left as it is.
ApplyIfAbsent(o) ==
    /\ target # NoPlan
    /\ o \in Wanted[target]
    /\ Needs[o] \cap Wanted[target] \subseteq done
    /\ done' = done \cup {o}
    /\ IF There(o)
       THEN UNCHANGED objects
       ELSE \E v \in Forms[target][o] : objects' = [objects EXCEPT ![o] = v]
    /\ UNCHANGED <<target, report>>

Apply(o) ==
    /\ target # NoPlan
    /\ o \in Wanted[target]
    /\ Needs[o] \cap Wanted[target] \subseteq done
    /\ done' = done \cup {o}
    /\ IF target \in Frozen
       THEN There(o) /\ UNCHANGED objects
       ELSE \E v \in Forms[target][o] : objects' = [objects EXCEPT ![o] = v]
    /\ UNCHANGED <<target, report>>

Prune(o) ==
    /\ Applied /\ target \notin Frozen
    /\ o \notin Wanted[target] /\ There(o)
    /\ objects' = [objects EXCEPT ![o] = Absent]
    /\ UNCHANGED <<target, done, report>>

Pruned == \A o \in Objects \ Wanted[target] : ~There(o)

\* A report may be sent more than once: its answer can be lost.
Report ==
    /\ Applied /\ (target \in Frozen \/ Pruned)
    /\ report' \in Reports[target]
    /\ target' = NoPlan /\ done' = {}
    /\ UNCHANGED objects

Abandon ==
    /\ target # NoPlan
    /\ target' = NoPlan /\ done' = {}
    /\ UNCHANGED <<objects, report>>

Tamper(o) ==
    /\ o \in Tamperable /\ There(o)
    /\ objects' = [objects EXCEPT ![o] = Absent]
    /\ UNCHANGED <<target, done, report>>

Init ==
    /\ target = NoPlan /\ done = {}
    /\ objects = [o \in Objects |-> Absent]
    /\ report = NoReport

Next ==
    \/ \E p \in Plans : Begin(p)
    \/ \E o \in Objects : Apply(o) \/ Prune(o) \/ Tamper(o)
    \/ Report \/ Abandon

Spec == Init /\ [][Next]_vars

-----------------------------------------------------------------------------
(* What follows from the promise *)

TypeOK ==
    /\ target \in Plans \cup {NoPlan}
    /\ done \subseteq Objects
    /\ objects \in [Objects -> Contents \cup {Absent}]
    /\ target = NoPlan => done = {}

\* What a deployment has applied is there, in a form of its plan, unless somebody
\* deleted it: earlier deployments and their plans leave no trace in it.
DoneIsThere ==
    target # NoPlan =>
        /\ done \subseteq Wanted[target]
        /\ \A o \in done :
            \/ o \in Tamperable /\ ~There(o)
            \/ There(o) /\ (target \in Frozen \/ objects[o] \in Forms[target][o])

\* What every plan wants and nobody tampers with.
Core == {o \in Objects \ Tamperable : \A p \in Plans : o \in Wanted[p]}

\* Whatever was abandoned half-way, an object is never there without those of the
\* objects it needs that all plans want.
NeedsMet == \A o \in Objects : There(o) => \A n \in Needs[o] \cap Core : There(n)
=============================================================================
