---------------------------- MODULE MCKafkaReconcile ----------------------------
(***************************************************************************)
(* Small instances of KafkaReconcile for TLC: the specs a user moves       *)
(* between and the objects an outsider may delete.                         *)
(***************************************************************************)
EXTENDS KafkaReconcile

CONSTANTS default, secondary    \* role groups

MCSecretClasses == {"tls"}
KerberosTls == [classes  |-> {[provider |-> "Kerberos", clientCert |-> {}]},
                internal |-> "tls",
                server   |-> {"tls"}]
ServerTls == [KerberosTls EXCEPT !.classes = {}]
KerberosOnly == [KerberosTls EXCEPT !.server = {}]

MCClaims == {"small", "large"}
Base == [form |-> "ok", groups |-> {default}, unbuildable |-> {}, security |-> ServerTls,
         claims |-> [g \in RoleGroups |-> "small"],
         operation |-> "run", pdb |-> TRUE]
Kerberized == [Base EXCEPT !.security = KerberosTls]
Stopped == [Base EXCEPT !.operation = "stop"]
Suspended == [Base EXCEPT !.operation = "pause"]
Emptied == [Base EXCEPT !.groups = {}, !.pdb = FALSE]
Undecodable == [Base EXCEPT !.form = "undecodable"]
Insecure == [Base EXCEPT !.security = KerberosOnly]

StoppedResized == [Stopped EXCEPT !.claims[default] = "large"]

Scaled == [Base EXCEPT !.groups = {default, secondary}, !.pdb = FALSE]
ScaledSuspended == [Scaled EXCEPT !.operation = "pause"]
Broken == [Scaled EXCEPT !.unbuildable = {secondary}]
ScaledResized == [Scaled EXCEPT !.claims[default] = "large"]

\* Every kind of spec, two role groups
AllSpecs == {Base, Kerberized, Stopped, Undecodable, Insecure, Scaled, ScaledSuspended, Broken,
             ScaledResized}
NoObjects == {}

\* One role group that comes and goes, changes its security, is paused, and is stopped
\* with other volume claims; PodDisruptionBudgets are not watched, so that nothing brings
\* back one that an outsider deletes.
LiveSpecs == {Emptied, Kerberized, Suspended, StoppedResized}
LiveObjects == {Of("Listener", default), Of("StatefulSet", default),
                Single("Discovery"), Single("DiscoveryNodePort")}
=============================================================================
