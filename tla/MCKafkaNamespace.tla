---------------------------- MODULE MCKafkaNamespace ----------------------------
(* Small values for the constants of KafkaNamespace. *)
EXTENDS KafkaNamespace

MCParts == {"a", "b", "x"} \cup Suffixes
OneGroup == {<<"x">>}

\* A role group comes and goes
OnOff == {{}, OneGroup}
SingleSpec == {OneGroup}

\* One kind of each way to be named, watched and protected
MCKinds == {"ServiceAccount", "ConfigMap", "PodDisruptionBudget"}
TwoKinds == {"ServiceAccount", "ConfigMap"}

\* One name begins with the other; and one ends like an object of the other.
Neighbours == {<<"a">>, <<"a", "b">>}
Namesakes == {<<"a">>, <<"a", "nodeport">>}
=============================================================================
