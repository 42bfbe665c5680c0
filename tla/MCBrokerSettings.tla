--------------------------- MODULE MCBrokerSettings ---------------------------
(***************************************************************************)
(* Small specs for BrokerSettings: role-level and group-level settings     *)
(* that agree, disagree or say nothing.                                    *)
(***************************************************************************)
EXTENDS BrokerSettings

None == <<>>
Silent == [l \in Level |-> None]

MCSpec(opa, aggregator, role, default) ==
    [opa |-> opa, vectorAggregator |-> aggregator, role |-> role,
     groups |-> [g \in RoleGroups |-> IF g = "default" THEN default ELSE Silent]]

\* What a level may say
Custom == [Silent EXCEPT !.config = [logging |-> "my-logging"]]
Automatic == [Silent EXCEPT !.config = [logging |-> "automatic", enableVectorAgent |-> TRUE]]
Quick == [Silent EXCEPT !.config = [gracefulShutdownTimeout |-> "1m"],
                        !.configOverrides = Just("controlled.shutdown.enable", "false")]
Spread == [Silent EXCEPT !.podOverrides = [affinity |-> "anywhere"]]
Heap == [Silent EXCEPT !.envOverrides = Or(Just("KAFKA_HEAP_OPTS", 4096), Just("MY_VAR", "group"))]
Var == [Silent EXCEPT !.envOverrides = Just("MY_VAR", "role")]

\* opa comes and goes, and nothing else
OpaSpecs == {MCSpec(opa, FALSE, Silent, Silent) : opa \in BOOLEAN}

\* Two levels that differ, with and without what the agent needs
LevelSpecs ==
    {MCSpec(opa, aggregator, role, default) :
        opa \in BOOLEAN, aggregator \in BOOLEAN,
        role \in {Silent, Custom, Quick}, default \in {Silent, Automatic, Quick, Spread}}

HeapSpecs == {MCSpec(FALSE, FALSE, Var, default) : default \in {Silent, Heap}}
=============================================================================
