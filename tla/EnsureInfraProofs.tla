------------------------- MODULE EnsureInfraProofs -------------------------
(***************************************************************************)
(* Proofs about module EnsureInfra, for every sequence of checks and every *)
(* contents of the Secret.                                                 *)
(*                                                                         *)
(* The properties are not inductive: they say nothing until the call       *)
(* returns.  The invariant says what each step already knows: how far the  *)
(* checks have come, what the credentials are, and, as long as nothing     *)
(* changed, what this means for the result.                                *)
(***************************************************************************)
EXTENDS EnsureInfra, TLAPS

\* The checks before the current one have seen their resource active, and
\* what is active now has been active in this call.
Progress ==
    /\ pc # "idle" => /\ Active(infra) \subseteq wasActive
                      /\ result = Pending
    /\ pc \in {"lookup", "isActive"} =>
         \A k \in 1..(check - 1) : Checks[k] \in wasActive
    /\ pc \in Steps \ {"idle", "lookup", "isActive"} => check = 1

\* What the steps know of the Secret and the host, when nothing changed.
Knowledge ==
    ~changed =>
      /\ pc \in {"connect", "connectionURI", "openConnection"} =>
           /\ ~LoadFails(spec.source, secret)
           /\ creds = LoadedCredentials(spec.source, secret)
      /\ pc \in {"openConnection", "lookup", "isActive"} =>
           /\ ~Unusable(spec.source, secret)
           /\ ~Mismatched(spec, secret)
      /\ pc \in {"lookup", "isActive"} =>
           \A k \in 1..(check - 1) : infra[Checks[k]] = "active"
      /\ pc = "isActive" => exists = (infra[Checks[check]] # "missing")

\* How far connect is with the files.
Files ==
    /\ FilesOnlyToConnect
    /\ pc = "connectionURI" => /\ creds # {} /\ dir # NoDir
                               /\ connectionURIFails(creds, spec.transport)
                                    \/ dir \subseteq files(neededKind(spec.transport))
    /\ (pc = "openConnection" /\ creds # {}) => neededKind(spec.transport) \in creds

IInv == TypeOK /\ Progress /\ Files /\ Knowledge /\ SuccessIsVerified /\ ReasonIsRight

\* What the code assumes of the order of the checks.
LEMMA ChecksFacts ==
  /\ Len(Checks) \in Nat \ {0}
  /\ DOMAIN Checks = 1..Len(Checks)
  /\ 1 \in DOMAIN Checks
  /\ \A k \in DOMAIN Checks : Checks[k] \in Resources
  /\ Resources = {Checks[k] : k \in 1..Len(Checks)}
  <1>1. Len(Checks) \in Nat \ {0} /\ DOMAIN Checks = 1..Len(Checks)
    BY EnsureInfraAssumption
  <1> QED
    BY <1>1 DEF Resources

\* The keys of a kind are not empty, so that having all of them is having one.
LEMMA KeyFacts == \A k \in Kinds : \E key : key \in secretKeys(k)
  BY DEF Kinds, secretKeys

\* Load fails exactly when the documentation says that a Secret is unusable.
LEMMA LoadFailsWhenUnusable ==
  ASSUME NEW source \in Sources, NEW data
  PROVE  LoadFails(source, data) <=> Unusable(source, data)
  <1>1. ASSUME NEW k \in Kinds, data # NoSecret
        PROVE  (hasAnyKey(data, secretKeys(k)) /\ ~requireKeys(data, secretKeys(k)))
                 <=> data \cap secretKeys(k) \notin {{}, secretKeys(k)}
    <2>1. requireKeys(data, secretKeys(k)) <=> data \cap secretKeys(k) = secretKeys(k)
      BY DEF requireKeys
    <2> QED
      BY <2>1 DEF hasAnyKey
  <1>2. ASSUME data # NoSecret
        PROVE  credentialsFromSecret(data) = {}
                 <=> data \cap (secretKeys("tls") \cup secretKeys("ssh")) = {}
    BY DEF credentialsFromSecret, hasAnyKey, Kinds
  <1> QED
    BY <1>1, <1>2
    DEF LoadFails, loadRefFails, Unusable, Sources, credentialsFromSecretFails

\* The credentials of a loaded Secret are of the two kinds.
LEMMA CredentialKinds ==
  ASSUME NEW source, NEW data
  PROVE  LoadedCredentials(source, data) \subseteq Kinds
  BY DEF LoadedCredentials, credentialsFromSecret

\* The credentials that Load returns fit the URI unless the reference says that
\* they are for another one.
LEMMA UnfitWhenMismatched ==
  ASSUME NEW s \in Specs, NEW data, ~LoadFails(s.source, data)
  PROVE  LET c == LoadedCredentials(s.source, data)
         IN  (c # {} /\ connectionURIFails(c, s.transport)) <=> Mismatched(s, data)
  <1> DEFINE c == LoadedCredentials(s.source, data)
  <1>0. s.source \in Sources /\ s.transport \in Transports
    BY DEF Specs
  <1>1. CASE s.source = "off" \/ data = NoSecret
    BY <1>1 DEF LoadedCredentials, Mismatched
  <1>2. CASE s.source # "off" /\ data # NoSecret
    <2>1. ~credentialsFromSecretFails(data)
      BY <1>0, <1>2 DEF LoadFails, loadRefFails, Sources
    <2>2. \A k \in Kinds : k \in c <=> secretKeys(k) \subseteq data
      <3> SUFFICES ASSUME NEW k \in Kinds
                   PROVE  k \in c <=> secretKeys(k) \subseteq data
        OBVIOUS
      <3>1. k \in c <=> hasAnyKey(data, secretKeys(k))
        BY <1>2 DEF LoadedCredentials, credentialsFromSecret
      <3>2. hasAnyKey(data, secretKeys(k)) => secretKeys(k) \subseteq data
        BY <2>1 DEF credentialsFromSecretFails, requireKeys
      <3>3. secretKeys(k) \subseteq data => hasAnyKey(data, secretKeys(k))
        BY KeyFacts DEF hasAnyKey
      <3> QED
        BY <3>1, <3>2, <3>3
    <2>3. c \subseteq Kinds
      BY CredentialKinds
    <2> HIDE DEF c
    <2>4. (c # {}) <=> \E k \in Kinds : secretKeys(k) \subseteq data
      BY <2>2, <2>3
    <2>5. connectionURIFails(c, s.transport) <=>
            /\ ~(s.transport = "tls" /\ secretKeys("tls") \subseteq data)
            /\ ~(s.transport \in {"libssh", "libssh2"} /\ secretKeys("ssh") \subseteq data)
      <3>1. /\ "tls" \in c <=> secretKeys("tls") \subseteq data
            /\ "ssh" \in c <=> secretKeys("ssh") \subseteq data
            /\ "none" \notin c
        BY <2>2, <2>3 DEF Kinds
      <3> QED
        BY <1>0, <3>1 DEF connectionURIFails, neededKind, Transports
    <2> QED
      BY <1>2, <2>4, <2>5, Zenon DEF Mismatched, c
  <1> QED
    BY <1>1, <1>2

\* The first resource that is not active.
LEMMA FirstBadIs ==
  ASSUME NEW i, NEW k \in DOMAIN Checks, i[Checks[k]] # "active",
         \A j \in 1..(k - 1) : i[Checks[j]] = "active"
  PROVE  FirstBad(i) = k /\ Active(i) # Resources
  <1>1. \A n \in DOMAIN Checks :
          (/\ i[Checks[n]] # "active"
           /\ \A j \in 1..(n - 1) : i[Checks[j]] = "active") => n = k
    BY ChecksFacts
  <1>2. FirstBad(i) = k
    BY <1>1 DEF FirstBad
  <1>3. Active(i) # Resources
    BY ChecksFacts DEF Active
  <1> QED
    BY <1>2, <1>3

\* The files of a transport are among all files, and there are some.
LEMMA FileFacts ==
  ASSUME NEW transport \in Transports, NEW c \in SUBSET Kinds,
         ~connectionURIFails(c, transport)
  PROVE  /\ files(neededKind(transport)) \subseteq files("tls") \cup files("ssh")
         /\ neededKind(transport) \in c
  BY DEF connectionURIFails, neededKind, Kinds, Transports
-----------------------------------------------------------------------------
-----------------------------------------------------------------------------
(* Each step preserves the invariant.                                      *)

\* A return is judged right away.
LEMMA ReturnInv ==
  ASSUME TypeOK, NEW r \in Results, pc' = "idle", result' = r, creds' = {},
         dir' = NoDir, UNCHANGED <<check, exists, world, wasActive>>,
         changed' \in BOOLEAN,
         r = "True" => wasActive = Resources,
         changed' \/ r = Reference(spec, secret, infra)
           \/ (Reference(spec, secret, infra) = "InfrastructureMissing"
                /\ r = "InfrastructureProvisioningFailed")
  PROVE  IInv'
  <1>1. TypeOK'
    BY DEF TypeOK, world, Steps
  <1>2. Progress' /\ Files' /\ Knowledge'
    BY DEF Progress, Files, Knowledge, FilesOnlyToConnect, Steps
  <1>3. SuccessIsVerified'
    BY DEF SuccessIsVerified
  <1>4. ReasonIsRight'
    <2>1. UNCHANGED <<spec, secret, infra>>
      BY DEF world
    <2>2. Reference(spec, secret, infra)' = Reference(spec, secret, infra)
      BY <2>1 DEF Reference, Unusable, Mismatched, Active, FirstBad
    <2> QED
      BY <2>1, <2>2 DEF ReasonIsRight, Undisturbed
  <1> QED
    BY <1>1, <1>2, <1>3, <1>4 DEF IInv

\* A call that fails by itself may return anything but success.
LEMMA BrokenInv ==
  ASSUME IInv, NEW r \in Results \ {"True"}, Broken(r), dir' = NoDir
  PROVE  IInv'
  BY ReturnInv DEF IInv, Broken

\* A return that is the reference's.
LEMMA RightReturn ==
  ASSUME IInv, NEW r \in Results, Return(r), dir' = NoDir,
         r = "True" => wasActive = Resources,
         changed \/ r = Reference(spec, secret, infra)
           \/ (Reference(spec, secret, infra) = "InfrastructureMissing"
                /\ r = "InfrastructureProvisioningFailed")
  PROVE  IInv'
  <1>1. changed' = changed /\ wasActive' = wasActive
    BY DEF Return, history
  <1> QED
    BY <1>1, ReturnInv DEF IInv, TypeOK, Return

\* A step within the call has no result to judge.
LEMMA NoResult ==
  ASSUME result' = Pending
  PROVE  SuccessIsVerified' /\ ReasonIsRight'
  BY EnsureInfraAssumption
  DEF SuccessIsVerified, ReasonIsRight, Undisturbed, Results

\* reconcileNormal starts over.
LEMMA StartInv ==
  ASSUME IInv, Start
  PROVE  IInv'
  <1>1. /\ pc' = "Load" /\ result' = Pending /\ check' = 1 /\ exists' = FALSE
        /\ spec' \in Specs /\ wasActive' = Active(infra)
        /\ UNCHANGED <<secret, infra, creds, dir>> /\ changed' = FALSE
    BY DEF Start, conn
  <1>2. TypeOK'
    BY <1>1, ChecksFacts, Zenon DEF IInv, TypeOK, Steps, Active
  <1>3. Progress' /\ Knowledge'
    BY <1>1 DEF Progress, Knowledge, Active, Steps
  <1>4. Files'
    BY <1>1 DEF IInv, Files, FilesOnlyToConnect, Start
  <1> QED
    BY <1>1, <1>2, <1>3, <1>4, NoResult DEF IInv

\* Load fails when the reference blames the credentials, and only then.
LEMMA LoadInv ==
  ASSUME IInv, Load
  PROVE  IInv'
  <1>0. pc = "Load" /\ dir = NoDir /\ dir' = dir /\ spec \in Specs
    BY DEF IInv, TypeOK, Load, Files, FilesOnlyToConnect
  <1>1. CASE /\ ~LoadFails(spec.source, secret)
             /\ creds' = LoadedCredentials(spec.source, secret)
             /\ pc' = "connect"
             /\ UNCHANGED <<world, local, history>>
    <2>1. UNCHANGED <<secret, infra, spec, check, exists, result, changed, wasActive>>
      BY <1>1 DEF world, local, history
    <2>2. TypeOK'
      BY <1>0, <1>1, <2>1, CredentialKinds DEF IInv, TypeOK, Steps
    <2>3. Progress'
      BY <1>0, <1>1, <2>1 DEF IInv, Progress, Active, Steps
    <2>4. Files'
      BY <1>0, <1>1 DEF Files, FilesOnlyToConnect
    <2>5. Knowledge'
      BY <1>1, <2>1 DEF Knowledge
    <2>6. result' = Pending
      BY <1>0, <2>1 DEF IInv, Progress
    <2> QED
      BY <2>2, <2>3, <2>4, <2>5, <2>6, NoResult DEF IInv
  <1>2. CASE LoadFails(spec.source, secret) /\ Return("CredentialsUnavailable")
    <2>1. Reference(spec, secret, infra) = "CredentialsUnavailable"
      BY <1>0, <1>2, LoadFailsWhenUnusable DEF Reference, Specs
    <2> QED
      BY <1>0, <1>2, <2>1, RightReturn DEF Results
  <1>3. CASE Broken("CredentialsUnavailable")
    BY <1>0, <1>3, BrokenInv DEF Results
  <1> QED
    BY <1>1, <1>2, <1>3 DEF Load

\* connect makes the directory when there are credentials.
LEMMA ConnectInv ==
  ASSUME IInv, connect
  PROVE  IInv'
  <1>0. /\ pc = "connect" /\ dir = NoDir /\ result = Pending /\ check = 1
        /\ spec \in Specs
    BY DEF IInv, TypeOK, connect, Files, FilesOnlyToConnect, Progress, Steps
  <1>1. CASE /\ UNCHANGED <<creds, world, local, history>>
             /\ \/ creds = {} /\ pc' = "openConnection" /\ dir' = dir
                \/ creds # {} /\ pc' = "connectionURI" /\ dir' = {}
    <2>1. UNCHANGED <<secret, infra, spec, check, exists, result, changed, wasActive, creds>>
      BY <1>1 DEF world, local, history
    <2>2. TypeOK'
      BY <1>1, <2>1 DEF IInv, TypeOK, Steps
    <2>3. Progress'
      BY <1>0, <1>1, <2>1 DEF IInv, Progress, Active, Steps
    <2>4. Files'
      BY <1>0, <1>1, <2>1, EnsureInfraAssumption DEF Files, FilesOnlyToConnect
    <2>5. Knowledge'
      <3>1. ~changed => /\ ~LoadFails(spec.source, secret)
                        /\ creds = LoadedCredentials(spec.source, secret)
        BY <1>0 DEF IInv, Knowledge
      <3>2. (~changed /\ creds = {}) => /\ ~Unusable(spec.source, secret)
                                       /\ ~Mismatched(spec, secret)
        BY <1>0, <3>1, LoadFailsWhenUnusable, UnfitWhenMismatched DEF Specs
      <3> QED
        BY <1>1, <2>1, <3>1, <3>2 DEF Knowledge
    <2> QED
      BY <1>0, <2>1, <2>2, <2>3, <2>4, <2>5, NoResult DEF IInv
  <1>2. CASE Broken("InfrastructureProvisioningFailed") /\ UNCHANGED dir
    BY <1>0, <1>2, BrokenInv DEF Results
  <1> QED
    BY <1>0, <1>1, <1>2 DEF connect

\* connectionURI fails when the reference says that the credentials are for
\* another URI, and only then; it writes the files of the transport.
LEMMA ConnectionURIInv ==
  ASSUME IInv, connectionURI
  PROVE  IInv'
  <1> DEFINE needed == files(neededKind(spec.transport))
             fails  == connectionURIFails(creds, spec.transport)
  <1>0. /\ pc = "connectionURI" /\ result = Pending /\ check = 1 /\ creds # {}
        /\ spec \in Specs /\ spec.transport \in Transports /\ creds \in SUBSET Kinds
        /\ dir # NoDir /\ (fails \/ dir \subseteq needed)
    BY DEF IInv, TypeOK, connectionURI, Files, Progress, Steps, Specs
  <1>1. ~changed => /\ ~LoadFails(spec.source, secret)
                    /\ creds = LoadedCredentials(spec.source, secret)
    BY <1>0 DEF IInv, Knowledge
  <1>2. ~changed => /\ ~Unusable(spec.source, secret)
                    /\ fails <=> Mismatched(spec, secret)
    BY <1>0, <1>1, LoadFailsWhenUnusable, UnfitWhenMismatched DEF Specs
  <1>3. CASE fails /\ Return("InfrastructureProvisioningFailed") /\ dir' = NoDir
    <2>1. ~changed => Reference(spec, secret, infra) = "InfrastructureProvisioningFailed"
      BY <1>2, <1>3 DEF Reference
    <2> QED
      BY <1>3, <2>1, RightReturn DEF Results
  <1>4. CASE /\ ~fails
             /\ \E f \in needed \ dir : dir' = dir \cup {f}
             /\ pc' = IF dir' = needed THEN "openConnection" ELSE "connectionURI"
             /\ UNCHANGED <<creds, world, local, history>>
    <2>1. UNCHANGED <<secret, infra, spec, check, exists, result, changed, wasActive, creds>>
      BY <1>4 DEF world, local, history
    <2>2. /\ dir' \subseteq needed /\ needed \subseteq files("tls") \cup files("ssh")
          /\ neededKind(spec.transport) \in creds
      BY <1>0, <1>4, FileFacts
    <2>3. dir' # NoDir
      BY <2>2, EnsureInfraAssumption
    <2>4. pc' \in {"openConnection", "connectionURI"}
          /\ (pc' = "openConnection" => dir' = needed)
      BY <1>4
    <2> HIDE DEF needed, fails
    <2>5. TypeOK'
      BY <2>1, <2>2, <2>4 DEF IInv, TypeOK, Steps
    <2>6. Progress'
      BY <1>0, <2>1, <2>4 DEF IInv, Progress, Active, Steps
    <2>7. Files'
      BY <1>0, <2>1, <2>2, <2>3, <2>4 DEF Files, FilesOnlyToConnect, needed
    <2>8. Knowledge'
      BY <1>1, <1>2, <1>4, <2>1, <2>4 DEF Knowledge
    <2> QED
      BY <1>0, <2>1, <2>5, <2>6, <2>7, <2>8, NoResult DEF IInv
  <1>5. CASE Broken("InfrastructureProvisioningFailed") /\ dir' = NoDir
    BY <1>5, BrokenInv DEF Results
  <1> QED
    BY <1>3, <1>4, <1>5 DEF connectionURI

\* connect ends with the files removed and, if nothing changed, with
\* credentials that are usable and fit.
LEMMA OpenConnectionInv ==
  ASSUME IInv, openConnection
  PROVE  IInv'
  <1>0. pc = "openConnection" /\ result = Pending /\ check = 1 /\ dir' = NoDir
    BY DEF IInv, openConnection, Progress, Steps
  <1>1. CASE /\ pc' = "lookup" /\ creds' = {}
             /\ UNCHANGED <<world, local, history>>
    <2>1. UNCHANGED <<secret, infra, spec, check, exists, result, changed, wasActive>>
      BY <1>1 DEF world, local, history
    <2>2. 1..(check - 1) = {}
      BY <1>0
    <2>3. TypeOK'
      BY <1>0, <1>1, <2>1 DEF IInv, TypeOK, Steps
    <2>4. Progress'
      BY <1>0, <1>1, <2>1, <2>2 DEF IInv, Progress, Active, Steps
    <2>5. Files'
      BY <1>0, <1>1 DEF Files, FilesOnlyToConnect
    <2>6. Knowledge'
      BY <1>0, <1>1, <2>1, <2>2 DEF IInv, Knowledge
    <2> QED
      BY <1>0, <2>1, <2>3, <2>4, <2>5, <2>6, NoResult DEF IInv
  <1>2. CASE Broken("InfrastructureProvisioningFailed")
    BY <1>0, <1>2, BrokenInv DEF Results
  <1> QED
    BY <1>1, <1>2 DEF openConnection

\* networkExists and storagePoolExists.
LEMMA LookupInv ==
  ASSUME IInv, lookup
  PROVE  IInv'
  <1>0. pc = "lookup" /\ result = Pending /\ dir' = dir /\ dir = NoDir
    BY DEF IInv, lookup, Progress, Files, FilesOnlyToConnect
  <1>1. CASE /\ exists' = (infra[Checks[check]] # "missing")
             /\ pc' = "isActive"
             /\ UNCHANGED <<creds, world, check, result, history>>
    <2>1. UNCHANGED <<secret, infra, spec, check, result, changed, wasActive, creds>>
      BY <1>1 DEF world, history
    <2>2. TypeOK'
      BY <1>0, <1>1, <2>1 DEF IInv, TypeOK, Steps
    <2>3. Progress'
      BY <1>0, <1>1, <2>1 DEF IInv, Progress, Active, Steps
    <2>4. Files'
      BY <1>0, <1>1 DEF Files, FilesOnlyToConnect
    <2>5. Knowledge'
      BY <1>0, <1>1, <2>1 DEF IInv, Knowledge
    <2> QED
      BY <1>0, <2>1, <2>2, <2>3, <2>4, <2>5, NoResult DEF IInv
  <1>2. CASE Broken("InfrastructureProvisioningFailed")
    BY <1>0, <1>2, BrokenInv DEF Results
  <1> QED
    BY <1>1, <1>2 DEF lookup

\* isNetworkActive and isStoragePoolActive: the call returns at the first
\* resource that is not active, or after the last one.
LEMMA IsActiveInv ==
  ASSUME IInv, isActive
  PROVE  IInv'
  <1> DEFINE r == Checks[check]
             err == infraCheckError(exists, infra[r] = "active")
             ref == Reference(spec, secret, infra)
  <1>0. /\ pc = "isActive" /\ result = Pending /\ dir' = dir /\ dir = NoDir
        /\ check \in 1..Len(Checks) /\ Len(Checks) \in Nat /\ check \in DOMAIN Checks
        /\ r \in Resources /\ infra[r] \in InfraStates /\ exists \in BOOLEAN
    BY ChecksFacts DEF IInv, TypeOK, isActive, Progress, Files, FilesOnlyToConnect
  <1>1. infra[r] = "active" => \A k \in 1..check : Checks[k] \in wasActive
    BY <1>0 DEF IInv, Progress, Active
  <1>2. ~changed => /\ ~Unusable(spec.source, secret) /\ ~Mismatched(spec, secret)
                    /\ \A k \in 1..(check - 1) : infra[Checks[k]] = "active"
                    /\ exists = (infra[r] # "missing")
    BY <1>0 DEF IInv, Knowledge
  <1>3. (~changed /\ infra[r] # "active") =>
          ref = IF infra[r] = "inactive" THEN "InfrastructureInactive"
                                         ELSE "InfrastructureMissing"
    BY <1>0, <1>2, FirstBadIs DEF Reference
  <1>4. CASE infra[r] = "missing" /\ Return("InfrastructureProvisioningFailed")
    BY <1>0, <1>3, <1>4, RightReturn DEF Results
  <1>5. CASE Broken("InfrastructureProvisioningFailed")
    BY <1>0, <1>5, BrokenInv DEF Results
  <1>6. CASE infra[r] # "missing" /\ err # "True" /\ Return(err)
    <2>1. err \in Results \ {"True"}
      BY <1>6 DEF infraCheckError, Results
    <2>2. ~changed => err = ref
      BY <1>0, <1>2, <1>3, <1>6, Zenon DEF infraCheckError, InfraStates
    <2> HIDE DEF err, ref
    <2>3. changed \/ err = ref
      BY <2>2
    <2> QED
      BY <1>0, <1>6, <2>1, <2>3, RightReturn DEF ref
  <1>7. CASE infra[r] # "missing" /\ err = "True" /\ check = Len(Checks) /\ Return("True")
    <2>1. infra[r] = "active"
      BY <1>0, <1>7 DEF infraCheckError
    <2>2. wasActive = Resources
      BY <1>1, <1>7, <2>1, ChecksFacts DEF IInv, TypeOK
    <2>3. ~changed => Active(infra) = Resources
      BY <1>0, <1>2, <1>7, <2>1, ChecksFacts DEF Active
    <2>4. ~changed => ref = "True"
      BY <1>2, <2>3 DEF Reference
    <2> QED
      BY <1>0, <1>7, <2>2, <2>4, RightReturn DEF Results
  <1>8. CASE /\ infra[r] # "missing" /\ err = "True" /\ check < Len(Checks)
             /\ check' = check + 1 /\ exists' = FALSE /\ pc' = "lookup"
             /\ UNCHANGED <<creds, world, result, history>>
    <2>1. UNCHANGED <<secret, infra, spec, result, changed, wasActive, creds>>
      BY <1>8 DEF world, history
    <2>2. infra[r] = "active"
      BY <1>0, <1>8 DEF infraCheckError
    <2>3. 1..(check' - 1) = 1..check /\ check' \in 1..Len(Checks)
      BY <1>0, <1>8
    <2>4. TypeOK'
      BY <1>0, <1>8, <2>1, <2>3, ChecksFacts, Zenon DEF IInv, TypeOK, Steps
    <2>5. Progress'
      BY <1>0, <1>1, <1>8, <2>1, <2>2, <2>3 DEF IInv, Progress, Active, Steps
    <2>6. Files'
      BY <1>0, <1>8 DEF Files, FilesOnlyToConnect
    <2>7. ~changed => \A k \in 1..check : infra[Checks[k]] = "active"
      BY <1>0, <1>2, <2>2
    <2>8. Knowledge'
      BY <1>2, <1>8, <2>1, <2>3, <2>7, Zenon DEF Knowledge
    <2> QED
      BY <1>0, <2>1, <2>4, <2>5, <2>6, <2>8, NoResult DEF IInv
  <1> QED
    BY <1>4, <1>5, <1>6, <1>7, <1>8, Zenon DEF isActive

\* The host or the Secret changes.
LEMMA ChangeInv ==
  ASSUME IInv, HostChanges \/ SecretChanges
  PROVE  IInv'
  <1>1. /\ changed' = TRUE
        /\ UNCHANGED <<spec, pc, creds, dir, check, exists, result>>
    BY DEF HostChanges, SecretChanges, conn, local
  <1>2. /\ infra' \in [Resources -> InfraStates]
        /\ secret' \in SecretData \cup {NoSecret}
        /\ wasActive \subseteq wasActive' /\ wasActive' \subseteq Resources
        /\ pc # "idle" => Active(infra') \subseteq wasActive'
    BY DEF IInv, TypeOK, HostChanges, SecretChanges, Active, Progress, InfraStates
  <1>3. TypeOK' /\ Files'
    BY <1>1, <1>2 DEF IInv, TypeOK, Files, FilesOnlyToConnect
  <1>4. Progress'
    BY <1>1, <1>2 DEF IInv, Progress, Active
  <1>5. Knowledge' /\ ReasonIsRight'
    BY <1>1 DEF Knowledge, ReasonIsRight, Undisturbed
  <1>6. SuccessIsVerified'
    BY <1>1, <1>2, Zenon DEF IInv, SuccessIsVerified
  <1> QED
    BY <1>3, <1>4, <1>5, <1>6 DEF IInv

\* The invariant holds at first and is preserved by every step.
LEMMA Invariance == Spec => []IInv
  <1>1. Init => IInv
    BY ChecksFacts, EnsureInfraAssumption, Zenon
    DEF Init, IInv, TypeOK, Progress, Files, FilesOnlyToConnect, Knowledge,
        SuccessIsVerified, ReasonIsRight, Undisturbed, Results, Steps, Kinds
  <1>2. IInv /\ [Next]_vars => IInv'
    <2> SUFFICES ASSUME IInv, [Next]_vars
                 PROVE  IInv'
      OBVIOUS
    <2>1. CASE Next
      BY <2>1, StartInv, LoadInv, ConnectInv, ConnectionURIInv,
         OpenConnectionInv, LookupInv, IsActiveInv, ChangeInv DEF Next
    <2>2. CASE UNCHANGED vars
      <3>1. TypeOK' /\ Progress' /\ Files' /\ SuccessIsVerified'
        BY <2>2, SMTT(30)
        DEF IInv, vars, world, conn, local, history, TypeOK, Progress, Files,
            FilesOnlyToConnect, SuccessIsVerified, Active
      <3>2. Knowledge' /\ ReasonIsRight'
        BY <2>2, ZenonT(60)
        DEF IInv, vars, world, conn, local, history, Knowledge, ReasonIsRight,
            Undisturbed, Reference, Unusable, Mismatched, Active, FirstBad
      <3> QED
        BY <3>1, <3>2 DEF IInv
    <2> QED
      BY <2>1, <2>2
  <1> QED
    BY <1>1, <1>2, PTL DEF Spec

\* Every variable keeps its type: the position in the list of resources never
\* leaves it, and every result has a reason that the code can return.
THEOREM TypeCorrect == Spec => []TypeOK
  <1>1. IInv => TypeOK
    BY DEF IInv
  <1> QED
    BY <1>1, Invariance, PTL

\* EnsureInfra: a successful call has seen each network and pool active in
\* that very call, for every order and number of checks.
THEOREM SuccessAlwaysVerified == Spec => []SuccessIsVerified
  <1>1. IInv => SuccessIsVerified
    BY DEF IInv
  <1> QED
    BY <1>1, Invariance, PTL

\* Load, connectionURI and EnsureInfra: for every Secret and every list of
\* resources, an undisturbed call gives the documented reason, a missing
\* resource excepted.
THEOREM ReasonAlwaysRight == Spec => []ReasonIsRight
  <1>1. IInv => ReasonIsRight
    BY DEF IInv
  <1> QED
    BY <1>1, Invariance, PTL

\* connect: the credential files are complete when libvirt reads them and are
\* gone when connect returns.
THEOREM FilesNeverOutliveConnect == Spec => []FilesOnlyToConnect
  <1>1. IInv => FilesOnlyToConnect
    BY DEF IInv, Files
  <1> QED
    BY <1>1, Invariance, PTL
=============================================================================
