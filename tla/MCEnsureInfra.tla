--------------------------- MODULE MCEnsureInfra ---------------------------
(* The order of Provider.EnsureInfra, and Secrets with none, some and all of *)
(* the keys of each kind.                                                  *)
EXTENDS EnsureInfra

AllChecks == <<"network", "basePool", "domainPool">>

SomeSecrets ==
    {{}, {"ca.crt", "tls.key"}, secretKeys("tls"), secretKeys("ssh"),
     secretKeys("tls") \cup secretKeys("ssh"),
     secretKeys("tls") \cup {"known_hosts"}}
=============================================================================
