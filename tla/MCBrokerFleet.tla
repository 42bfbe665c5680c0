------------------------------ MODULE MCBrokerFleet ------------------------------
(* Small values for the constants of BrokerFleet. *)
EXTENDS BrokerFleet

MCRoleGroups == {"a", "b"}
MCTemplates == {"old", "new", "broken"}
MCBroken == {"broken"}

DefaultBudget == [enabled |-> TRUE, max |-> {}]

\* A fleet of a and b replicas with the same template.
Fleet(t, a, b, budget) ==
    [template |-> [g \in MCRoleGroups |-> t],
     replicas |-> [g \in MCRoleGroups |-> IF g = "a" THEN a ELSE b],
     pdb      |-> budget]

\* A fleet with the default budget, an upgrade that also drops a broker, and a broken
\* template under a budget of zero
FleetSpecs == {Fleet("old", 2, 2, DefaultBudget), Fleet("new", 2, 1, DefaultBudget),
               Fleet("broken", 2, 2, [enabled |-> TRUE, max |-> {0}])}

\* An upgrade with the default budget and nothing else
UpgradeSpecs == {Fleet("old", 2, 2, DefaultBudget), Fleet("new", 2, 2, DefaultBudget)}
=============================================================================
