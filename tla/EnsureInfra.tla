---------------------------- MODULE EnsureInfra ----------------------------
(***************************************************************************)
(* Provider.EnsureInfra as the LibvirtCluster reconciler calls it, after   *)
(* Credentials.Load, over and over: it writes the credentials to files for *)
(* as long as it connects, and for the network, the base pool and the      *)
(* domain pool in turn it looks the resource up, then looks it up again    *)
(* and asks whether it is active.  The Secret and the host may change      *)
(* between any two calls.                                                  *)
(*                                                                         *)
(* changed and wasActive are history variables: they are what the result   *)
(* is judged by, and no step of the code reads them.  os.RemoveAll, whose  *)
(* error the code drops, is taken to succeed.                              *)
(***************************************************************************)
EXTENDS Naturals, Sequences, Credentials

CONSTANTS
    Checks,     \* the network and pools that are looked up, in order
    SecretData, \* what the Secret may hold
    NoDir,      \* the temporary directory does not exist
    Pending     \* no result yet

VARIABLES
    secret,     \* the Secret that Load reads
    infra,      \* the state of each network and pool on the host
    spec,       \* of the LibvirtCluster: source of credentials, transport
    pc,         \* the next call
    creds,      \* the credentials in the InfraConfig
    dir,        \* the files in the temporary directory
    check,      \* the element of Checks that EnsureInfra is at
    exists,     \* what its first lookup found
    result,     \* the reason that the reconciler gets, "True" for none
    changed,    \* the host or the Secret changed, or a call failed
    wasActive   \* the resources that were active at some time in this call

conn    == <<creds, dir>>
local   == <<check, exists, result>>
world   == <<secret, infra, spec>>
history == <<changed, wasActive>>
vars    == <<world, pc, conn, local, history>>

Resources == {Checks[i] : i \in DOMAIN Checks}
InfraStates == {"missing", "inactive", "active"}
Results == {"CredentialsUnavailable", "InfrastructureProvisioningFailed",
            "InfrastructureMissing", "InfrastructureInactive", "True"}
Specs == [source: Sources, transport: Transports]
Steps == {"idle", "Load", "connect", "connectionURI", "openConnection",
          "lookup", "isActive"}

ASSUME EnsureInfraAssumption ==
    /\ Checks \in Seq(STRING) /\ Checks # <<>>
    /\ NoSecret \notin SecretData
    /\ \A d \in SUBSET (files("tls") \cup files("ssh")) : d # NoDir
    /\ Pending \notin Results

Active(i) == {r \in Resources : i[r] = "active"}

-----------------------------------------------------------------------------
Return(r) ==
    /\ pc' = "idle"
    /\ result' = r
    /\ creds' = {}
    /\ UNCHANGED <<check, exists, world, history>>

\* A call fails for another reason than the state of the Secret and the host.
Broken(r) ==
    /\ pc' = "idle"
    /\ result' = r
    /\ creds' = {}
    /\ changed' = TRUE
    /\ UNCHANGED <<check, exists, world, wasActive>>

\* Mutant of Start: the checks are counted from 0.
StartAtZero ==
    /\ pc = "idle"
    /\ pc' = "Load"
    /\ spec' \in Specs
    /\ check' = 0
    /\ exists' = FALSE
    /\ result' = Pending
    /\ changed' = FALSE
    /\ wasActive' = Active(infra)
    /\ UNCHANGED <<secret, infra, conn>>

\* reconcileNormal calls Load, then EnsureInfra, for the spec it has read.
Start ==
    /\ pc = "idle"
    /\ pc' = "Load"
    /\ spec' \in Specs
    /\ check' = 1
    /\ exists' = FALSE
    /\ result' = Pending
    /\ changed' = FALSE
    /\ wasActive' = Active(infra)
    /\ UNCHANGED <<secret, infra, conn>>

\* The Secret may also be there and not be readable.
Load ==
    /\ pc = "Load"
    /\ \/ /\ ~LoadFails(spec.source, secret)
          /\ creds' = LoadedCredentials(spec.source, secret)
          /\ pc' = "connect"
          /\ UNCHANGED <<world, local, history>>
       \/ LoadFails(spec.source, secret) /\ Return("CredentialsUnavailable")
       \/ spec.source # "off" /\ Broken("CredentialsUnavailable")
    /\ UNCHANGED dir

\* Without credentials the URI is used as it is; otherwise MkdirTemp.
connect ==
    /\ pc = "connect"
    /\ \/ /\ creds = {}
          /\ pc' = "openConnection"
          /\ UNCHANGED <<dir, creds, world, local, history>>
       \/ /\ creds # {}
          /\ dir' = {}
          /\ pc' = "connectionURI"
          /\ UNCHANGED <<creds, world, local, history>>
       \/ /\ creds # {}
          /\ Broken("InfrastructureProvisioningFailed")
          /\ UNCHANGED dir

\* Mutant of connectionURI: the directory is removed on success only.
connectionURILeavesDir ==
    /\ pc = "connectionURI"
    /\ \/ /\ connectionURIFails(creds, spec.transport)
          /\ Return("InfrastructureProvisioningFailed")
          /\ UNCHANGED dir
       \/ /\ ~connectionURIFails(creds, spec.transport)
          /\ dir' = files(neededKind(spec.transport))
          /\ pc' = "openConnection"
          /\ UNCHANGED <<creds, world, local, history>>

\* The files are written one after the other; the deferred RemoveAll takes
\* away whatever there is when one cannot be written.
connectionURI ==
    /\ pc = "connectionURI"
    /\ \/ /\ connectionURIFails(creds, spec.transport)
          /\ Return("InfrastructureProvisioningFailed")
          /\ dir' = NoDir
       \/ /\ ~connectionURIFails(creds, spec.transport)
          /\ \E f \in files(neededKind(spec.transport)) \ dir :
                dir' = dir \cup {f}
          /\ pc' = IF dir' = files(neededKind(spec.transport))
                   THEN "openConnection" ELSE "connectionURI"
          /\ UNCHANGED <<creds, world, local, history>>
       \/ /\ ~connectionURIFails(creds, spec.transport)
          /\ Broken("InfrastructureProvisioningFailed")
          /\ dir' = NoDir

\* libvirt reads the files while it connects; connect returns after that.
openConnection ==
    /\ pc = "openConnection"
    /\ \/ /\ pc' = "lookup"
          /\ creds' = {}
          /\ UNCHANGED <<world, local, history>>
       \/ Broken("InfrastructureProvisioningFailed")
    /\ dir' = NoDir

\* networkExists and storagePoolExists: not found is no error.
lookup ==
    /\ pc = "lookup"
    /\ \/ /\ exists' = (infra[Checks[check]] # "missing")
          /\ pc' = "isActive"
          /\ UNCHANGED <<creds, world, check, result, history>>
       \/ Broken("InfrastructureProvisioningFailed")
    /\ UNCHANGED dir

\* Mutant of infraCheckError: whether the resource is active is not asked.
infraCheckErrorExistsOnly(found, active) ==
    IF ~found THEN "InfrastructureMissing" ELSE "True"

\* infraCheckError and getInfraError.
infraCheckError(found, active) ==
    IF ~found THEN "InfrastructureMissing"
    ELSE IF ~active THEN "InfrastructureInactive"
    ELSE "True"

\* isNetworkActive and isStoragePoolActive look the resource up once more,
\* and here not found is an error like any other.
isActive ==
    /\ pc = "isActive"
    /\ LET state == infra[Checks[check]]
           err   == infraCheckError(exists, state = "active")
       IN  \/ state = "missing" /\ Return("InfrastructureProvisioningFailed")
           \/ Broken("InfrastructureProvisioningFailed")
           \/ state # "missing" /\ err # "True" /\ Return(err)
           \/ /\ state # "missing" /\ err = "True"
              /\ check = Len(Checks)
              /\ Return("True")
           \/ /\ state # "missing" /\ err = "True"
              /\ check < Len(Checks)
              /\ check' = check + 1
              /\ exists' = FALSE
              /\ pc' = "lookup"
              /\ UNCHANGED <<creds, world, result, history>>
    /\ UNCHANGED dir

\* The host's administrator defines, starts, stops or removes a resource.
HostChanges ==
    /\ \E r \in Resources : \E s \in InfraStates \ {infra[r]} :
          infra' = [infra EXCEPT ![r] = s]
    /\ changed' = TRUE
    /\ wasActive' = wasActive \cup Active(infra')
    /\ UNCHANGED <<secret, spec, pc, conn, local>>

\* The Secret is created, changed or deleted.
SecretChanges ==
    /\ secret' \in (SecretData \cup {NoSecret}) \ {secret}
    /\ changed' = TRUE
    /\ UNCHANGED <<infra, spec, pc, conn, local, wasActive>>

Init ==
    /\ secret \in SecretData \cup {NoSecret}
    /\ infra \in [Resources -> InfraStates] /\ spec \in Specs
    /\ pc = "idle" /\ creds = {} /\ dir = NoDir /\ check = 1 /\ exists = FALSE /\ result = Pending
    /\ changed = FALSE /\ wasActive = {}

Next == Start \/ Load \/ connect \/ connectionURI \/ openConnection
          \/ lookup \/ isActive \/ HostChanges \/ SecretChanges

Spec == Init /\ [][Next]_vars

-----------------------------------------------------------------------------
(* Properties.                                                             *)

\* Every variable has its type.
TypeOK ==
    /\ secret \in SecretData \cup {NoSecret}
    /\ infra \in [Resources -> InfraStates] /\ spec \in Specs
    /\ pc \in Steps /\ creds \subseteq Kinds
    /\ dir = NoDir \/ dir \subseteq files("tls") \cup files("ssh")
    /\ check \in DOMAIN Checks /\ exists \in BOOLEAN
    /\ result \in Results \cup {Pending}
    /\ changed \in BOOLEAN /\ wasActive \subseteq Resources

\* EnsureInfra: success means that each network and pool was active at some
\* time during this very call, however the host changed meanwhile.
SuccessIsVerified == result = "True" => wasActive = Resources

\* The first resource, in the order of the checks, that is not active.
FirstBad(i) == CHOOSE k \in DOMAIN Checks :
                 /\ i[Checks[k]] # "active"
                 /\ \A j \in 1..(k - 1) : i[Checks[j]] = "active"

\* docs/host-setup.md: a Secret with some of the TLS or of the SSH keys, or a
\* missing credentialsRef Secret, cannot be used; nor can an empty one.
Unusable(source, data) ==
    IF data = NoSecret THEN source = "ref"
    ELSE /\ source # "off"
         /\ \/ \E k \in Kinds : data \cap secretKeys(k) \notin {{}, secretKeys(k)}
            \/ source = "ref" /\ data \cap (secretKeys("tls") \cup secretKeys("ssh")) = {}

\* Credentials that are there are not for this URI.
Mismatched(s, data) ==
    /\ s.source # "off" /\ data # NoSecret
    /\ \E k \in Kinds : secretKeys(k) \subseteq data
    /\ ~(s.transport = "tls" /\ secretKeys("tls") \subseteq data)
    /\ ~(s.transport \in {"libssh", "libssh2"} /\ secretKeys("ssh") \subseteq data)

\* What the documented reasons say of a host and a Secret that do not change.
Reference(s, data, i) ==
    IF Unusable(s.source, data) THEN "CredentialsUnavailable"
    ELSE IF Mismatched(s, data) THEN "InfrastructureProvisioningFailed"
    ELSE IF Active(i) = Resources THEN "True"
    ELSE IF i[Checks[FirstBad(i)]] = "inactive" THEN "InfrastructureInactive"
    ELSE "InfrastructureMissing"

Undisturbed == result # Pending /\ ~changed

\* Load, connectionURI, EnsureInfra and getInfraError: on a host and with a
\* Secret that hold still, the result is the reference's, or blames a missing
\* resource without its reason: ensureNetwork and its likes look it up again
\* before they classify the first answer, and that error has no reason.
ReasonIsRight ==
    Undisturbed =>
      LET right == Reference(spec, secret, infra)
      IN  \/ result = right
          \/ /\ right = "InfrastructureMissing"
             /\ result = "InfrastructureProvisioningFailed"

\* connect: libvirt finds exactly the files of its transport when it connects,
\* and none of them outlives connect, whichever step of it fails.
FilesOnlyToConnect ==
    /\ dir # NoDir => pc \in {"connectionURI", "openConnection"}
    /\ pc = "openConnection" =>
         dir = IF creds = {} THEN NoDir ELSE files(neededKind(spec.transport))
=============================================================================
