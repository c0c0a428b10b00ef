---------------------------- MODULE Credentials ----------------------------
(***************************************************************************)
(* The libvirt credentials of a LibvirtCluster: which Secret they come     *)
(* from, what CredentialsLoader.Load makes of its keys, and which files    *)
(* connectionURI writes for the transport of the cluster's URI.            *)
(*                                                                         *)
(* A Secret stands as the set of its keys that are not empty, credentials  *)
(* as the set of the kinds they hold: {} is the nil pointer, a plain       *)
(* connection.                                                             *)
(***************************************************************************)

CONSTANTS
    NoSecret    \* the Secret does not exist

Kinds == {"tls", "ssh"}

secretKeys(kind) ==
    CASE kind = "tls" -> {"ca.crt", "tls.crt", "tls.key"}
      [] kind = "ssh" -> {"ssh-privatekey", "known_hosts"}

\* Where Load looks: spec.credentialsRef, the manager's default Secret, or
\* nowhere, when the default has no name.
Sources == {"ref", "default", "off"}

hasAnyKey(data, keys) == data \cap keys # {}

\* No error.
requireKeys(data, keys) == keys \subseteq data

\* Mutant of credentialsFromSecretFails: a partial set is taken for none.
credentialsFromSecretNeverFails(data) == FALSE

credentialsFromSecretFails(data) ==
    \E k \in Kinds : /\ hasAnyKey(data, secretKeys(k))
                     /\ ~requireKeys(data, secretKeys(k))

credentialsFromSecret(data) == {k \in Kinds : hasAnyKey(data, secretKeys(k))}

\* loadRef: the Secret must exist and hold credentials.
loadRefFails(secret) ==
    secret # NoSecret => \/ credentialsFromSecretFails(secret)
                         \/ credentialsFromSecret(secret) = {}

LoadFails(source, secret) ==
    \/ source = "ref" /\ loadRefFails(secret)
    \/ source = "default" /\ secret # NoSecret /\ credentialsFromSecretFails(secret)

\* Nil for a default Secret that does not exist, or has none of the keys.
LoadedCredentials(source, secret) ==
    IF source = "off" \/ secret = NoSecret THEN {} ELSE credentialsFromSecret(secret)

-----------------------------------------------------------------------------
\* The part of the URI's scheme after "+"; "other" stands for every scheme
\* that takes no credentials, and for a URI that does not parse.
Transports == {"tls", "libssh", "libssh2", "other"}

\* The kind of credentials that a transport needs.
neededKind(transport) ==
    CASE transport = "tls"                   -> "tls"
      [] transport \in {"libssh", "libssh2"} -> "ssh"
      [] transport = "other"                 -> "none"

\* connectionURI returns an error before it has written a file.
connectionURIFails(creds, transport) == neededKind(transport) \notin creds

\* What writeCredentialFiles writes.
files(kind) ==
    CASE kind = "tls" -> {"cacert.pem", "clientcert.pem", "clientkey.pem"}
      [] kind = "ssh" -> {"id_key", "known_hosts"}
=============================================================================
