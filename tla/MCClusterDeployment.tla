-------------------------- MODULE MCClusterDeployment --------------------------
(***************************************************************************)
(* A small instance of ClusterDeployment: an identity that everything      *)
(* runs under, two groups of a configuration and a workload, and plans     *)
(* that differ in the groups, in the contents and in being frozen.         *)
(***************************************************************************)
EXTENDS ClusterDeployment

MCPlans == [groups : {{1}, {1, 2}}, version : {"old", "new"}, frozen : BOOLEAN]
Kinds == {"config", "workload"}
MCObjects == {<<"identity", 0>>} \cup (Kinds \X {1, 2})
MCContents == {"old", "new"}
MCWanted == [p \in MCPlans |-> {<<"identity", 0>>} \cup (Kinds \X p.groups)]
MCForms == [p \in MCPlans |-> [o \in MCObjects |-> IF o[1] = "identity" THEN {"old"} ELSE {p.version}]]
MCNeeds == [o \in MCObjects |-> IF o[1] = "workload" THEN {<<"identity", 0>>, <<"config", o[2]>>} ELSE {}]
MCFrozen == {p \in MCPlans : p.frozen}
MCTamperable == {<<"config", 1>>, <<"workload", 2>>}
MCReports == [p \in MCPlans |-> {p.version}]
=============================================================================
