---------------------------- MODULE MCBrokerRollout ----------------------------
(***************************************************************************)
(* Small instances of BrokerRollout for TLC: the configurations between    *)
(* which a user moves.                                                     *)
(***************************************************************************)
EXTENDS BrokerRollout

MCSecretClasses == {"tls", "clients"}

Class(provider, clientCert) == [provider |-> provider, clientCert |-> clientCert]
Tls(internal, server) == {[internal |-> internal, server |-> server]}
With(authentication, tls) == [authentication |-> authentication, tls |-> tls]

ClientCertificates == <<Class("Tls", {"clients"})>>
AnyCertificate == <<Class("Tls", {})>>
KerberosClass == <<Class("Kerberos", {})>>

Default == With(<<>>, {DefaultKafkaTls})
Unencrypted == With(<<>>, Tls("", {}))
InternalOnly == With(<<>>, {})
ServerOnly == With(<<>>, Tls("", {"tls"}))
MutualTls == With(ClientCertificates, {DefaultKafkaTls})
MutualTlsNoServer == With(ClientCertificates, Tls("tls", {}))
MutualTlsNoInternal == With(ClientCertificates, Tls("", {}))
Kerberized == With(KerberosClass, {DefaultKafkaTls})

\* The corners: accepted, and the broker does not come up
NoServerKeystore == With(AnyCertificate, Tls("tls", {}))
KerberosNoInternal == With(KerberosClass, Tls("", {"tls"}))

\* Refused by the operator
KerberosNoTls == With(KerberosClass, Tls("tls", {}))
TwoClasses == With(ClientCertificates \o KerberosClass, {DefaultKafkaTls})
StaticClass == With(<<Class("Static", {})>>, {DefaultKafkaTls})

AllConfigurations ==
    {Default, Unencrypted, InternalOnly, ServerOnly, MutualTls, MutualTlsNoServer,
     MutualTlsNoInternal, Kerberized, NoServerKeystore, KerberosNoInternal, KerberosNoTls,
     TwoClasses, StaticClass}

KerberosConfigurations == {Default, Kerberized}
=============================================================================
