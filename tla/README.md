# TLA+ models of cluster-api-provider-libvirt

The provider turns `LibvirtCluster` and `LibvirtMachine` objects of Cluster API
into domains, volumes and DHCP reservations on a libvirt host. This directory
models its two reconcilers and the libvirt calls they make, checks the models
with TLC, and proves their safety properties with TLAPS.

| module | what it is |
|---|---|
| `LibvirtMachine` | the LibvirtMachine reconciler, one step per libvirt call or API write, and what it owns on the host |
| `LibvirtMachineProofs` | its type invariant, its safety properties and the absence of lost requests, proved, each with the faults of the host that it withstands |
| `MachineLifecycle` | the abstract promise: how a machine takes, builds, loses and gives up what it owns |
| `MachineLifecycleProofs` | `LibvirtMachine` implements `MachineLifecycle`, proved |
| `MachineStatus` | the same reconciler with the status it reports, the three writes of its patch, and the LibvirtCluster it depends on |
| `MachineStatusProofs` | its type invariant and three safety properties, proved |
| `LibvirtCluster` | the LibvirtCluster reconciler and its three-part patch |
| `LibvirtClusterProofs` | its type invariant and two safety properties, proved |
| `Credentials` | which Secret is used, what its keys mean, what a transport needs: operators only |
| `EnsureInfra` | the inside of `Credentials.Load`, `connect` and `Provider.EnsureInfra`, call by call |
| `EnsureInfraProofs` | its type invariant and three safety properties, proved for every list of resources and every Secret |
| `Reservations` | the DHCP host entries of a network and the choice of addresses, with machines that reserve at once |
| `AllocationProofs` | the choice of addresses computes what the documentation says, proved for every width, network and hash |
| `ReservationsProofs` | its type invariant and four safety properties, proved for any number of machines and any network |
| `MCLibvirtMachine`, `MCEnsureInfra`, `MCReservations` | symmetry sets and constants for TLC |

Run a model with `tlc -config MachineSafety.cfg MCLibvirtMachine`, a proof with
`tlapm LibvirtMachineProofs.tla`. `PROJECT.json` holds the map from definitions
to source lines, the mutants, the findings and the hazards.

## Inventory

| part | state | operations | who it meets | what is hard | properties |
|---|---|---|---|---|---|
| LibvirtMachine controller (`internal/controller/libvirtmachine_controller.go`) | finalizer, ProviderID, status of the object; request queue; cache | `Reconcile`, `reconcileNormal`, `reconcileDelete`, deferred `Patch` | API server, Machine, Cluster, LibvirtCluster, Secret, Provider | stale cache, crash between calls, returns without requeue, move | nothing orphaned, identity kept, deletion and convergence |
| Machine lifecycle (`internal/libvirtclient/provider.go`, `domain.go`, `volume.go`) | domain, root disk, ISO volume, DHCP host entry | `CreateMachine`, `StartMachine`, `GetMachineState`, `DeleteMachine` | libvirt host, its operators and guests | half-done sequences that are run again, host changes in between | domain never lacks its volumes, only deleted machines are dismantled |
| LibvirtCluster controller (`libvirtcluster_controller.go`) | finalizer, two conditions, ready and provisioned | `Reconcile`, `reconcileNormal`, `reconcileDelete`, `Patch` | API server, Cluster, Secret, Provider | partial patch, conflicts, filtered watches, late infrastructure | status agrees with itself at rest, readiness is reached |
| EnsureInfra (`infra.go`) | none | six lookups, error classification | libvirt host | the host changes between two lookups of one thing | success was verified, the reason is right |
| Credentials (`internal/controller/credentials.go`) | none | `Load`, `credentialsFromSecret`, `secretToLibvirtClusters` | Secret, LibvirtCluster watch | event dropped when the list fails, every subset of keys | documented outcome for every Secret, readiness after a late one |
| Connection (`internal/libvirtclient/config.go`, `credentials.go`) | key files in a temporary directory | `connect`, `connectionURI`, `writeCredentialFiles` | file system, libvirt | a step fails with files on disk | files are complete when used and gone afterwards |
| DHCP reservations (`machine_network.go`) | host entries of a network | `reserveMachineIP`, `releaseMachineIP`, allocation | libvirt network, other managers | read then write, exhausted range, uint32 edges | one address per machine, one that the documentation names, everyone gets one |
| Machine status | ready, provisioned, addresses, condition DomainRunning | set in every branch of `reconcileNormal` | Cluster API, the LibvirtCluster's spec | three writes of the patch, stale copies, set early, an edited pool | agrees with the host in the end, a lost machine stays lost, volumes reclaimed but for an edited or missing pool |
| Names and identity | none | `domainName`, `domainUUID`, `deriveDomainMAC` | all of the above | hash collisions, UID changed by move | identity kept |
| Cloud-init (`cloudinit.go`) | none | `writeCloudInitISO` | file system | reused volume, failed build | the instance-id is the provider ID |
| IP helpers (`pkg/utils/ip.go`), XML builders, manager start-up, templates, generated code | none | formatting, wiring | | | not modelled |

## The modules and the code

### LibvirtMachine

One LibvirtMachine name. `obj` is the object in the API server (UID, deletion
timestamp, finalizer, ProviderID), `cached` the informer's copy, `pending` an
undelivered watch event, `queued` the work-queue entry. `before` and `work` are
the two copies between which the patch helper computes its patch. `dom`,
`disk`, `iso` and `resv` are on the host. controller-runtime runs one worker per
controller, so there is one `pc`.

- `Reconcile` up to its first libvirt call is one action per outcome:
  `ReconcileGone`, `ReconcileDelete`, `ReconcilePaused`, `AddFinalizer`,
  `AwaitInfrastructure`, `ReconcileNormal`. A missing Machine, Cluster,
  LibvirtCluster or credential returns before anything changes and retries,
  which is a stuttering step.
- `GetMachineState` is the call with the four cases of `reconcileNormal`.
- `createRootDisk` ... `Create` are the calls of `createDomain`;
  `deleteDomain` ... `releaseMachineReservation` those of `DeleteMachine`.
  Each may fail before or after it took effect (`Flaky`). A filled cloud-init
  volume stands as the instance-id in its meta-data.
- `Patch` is the deferred patch. Of its three writes only metadata and spec
  touch the modelled fields. ProviderID is immutable (`Accepted`).
- The rest is the surroundings: watch, crash, users, `clusterctl move`, and a
  host whose guests and operators start, stop, pause and remove the domain.

`Faults` names host behaviour that `DeleteMachine` does not notice: an error of
`IsActive` (`isActive`), a start between `IsActive` and `Undefine`
(`hostStart`), a pool that is undefined for a moment (`poolGone`). What holds
depends on them:

| | none | `poolGone` | all |
|---|---|---|---|
| `NoOrphan`, `InstanceIdAgrees`, `DismantleOnlyDeleted`, `ImplementsLifecycle` | yes | no | no |
| `DomainBacked`, `IdentityAgrees` | yes | yes | no |
| `NoLostWakeup`, `LeftoverIsTransient`, `LiveNeverDismantled` | yes | yes | yes |

With all of them deletion may overlook volumes and a domain that is gone after
its next stop, but no reservation and no domain that would come back; and a
deletion that is late, or cleans up after an earlier one, still never touches
the machine of a live object. The fault `poolGone` is in `MachineStatus`, too.
Two more ways to leave something behind are outside the faults: an edit of the
LibvirtCluster's URI or network between creation and deletion, and a network
that is undefined during the deletion and defined again from a dump with its
host entries (a network that is not found is a success of
`releaseMachineReservation`).

`Move` happens while no reconcile is in flight: `clusterctl` pauses first, and
a reconcile of the source that outlives the pause is left out. The informer's
periodic resync (10 hours) is left out; it only adds requests.

### MachineLifecycle

Eight actions on five variables, for a reader who does not care about caches,
retries and crashes: hold the name, build a part, define the domain, lose it,
record the identity, request deletion, dismantle a part, release the name.
`LibvirtMachine` defines the mapping (`Phase`, `Identity`, `Recorded`,
`DomainOnHost`, `PartsOnHost`) and the property `ImplementsLifecycle`. `move`
and re-creation of an object without finalizer are stutters of the lifecycle.

### MachineStatus

The reconciler once more, at another grain, because the status fields and the
calls of the Provider together are out of TLC's reach. A Provider call is one
step that may fail at any stage of its work; the patch is three writes as in
`LibvirtCluster`; `obj` carries ready, provisioned, the address and the
condition DomainRunning. `pool` is the LibvirtCluster's `spec.domainPool`, read
into `config` at the start of each reconcile, and `volumes` the set of pools
that hold volumes of the machine. `reachable` says whether the owner Machine,
Cluster, LibvirtCluster and credentials can be read. `pool` is what the manager's
cache has, so an edit happens when it arrives there. Only the pool can be edited;
the URI and the network, which `newMachineConfig` reads with it, are fixed.

Three history variables, which no step reads, say what happened: `edited` (the
pool changed while the machine had its finalizer), `overlooked` (`deleteVolume`
did not find the pool and took that for success), `redefined` (somebody defined
the domain of a created machine anew after it was gone). `VolumesReclaimed`
holds but for the first two, `LostStaysLost` until the third: a domain that is
back is found running and reported so. The module leaves out the three
conditions that nothing reads, the domain that is shutting down, and the faults
`isActive` and `hostStart` of `LibvirtMachine`.

`StatusConverges` says what the documentation promises, with one exception. For
a suspended domain it only says that the machine is not ready; what the condition
DomainRunning says then is the refuted `SuspendedReported`. Provisioned turns
false for a suspended domain and on a pause, and an address stays after its lease
is gone; the property says nothing of either.

### LibvirtCluster

The same frame for one LibvirtCluster, with its conditions, and the patch as
three actions (`patchStatusConditions`, `patch`, `patchStatus`), since each can
fail alone and only the first detects conflicts. `Load` and `EnsureInfra` end
in success or in one of `Reasons`; the reasons are interchangeable here. `ready`
stands for `status.ready` and `initialization.provisioned`, which the code
always sets together. `MaxEdits` bounds writes by others. The Cluster watch has
the predicate `ClusterUnpaused`, modelled from Cluster API: it passes the
creation and the unpausing of a Cluster. `reconcileNormal` sets InfrastructureReady
to False and back to True in memory, which moves its LastTransitionTime; the code
may therefore write, and get an event, where the model finds nothing to write. The
extra reconcile ends in the same status.

### Credentials and EnsureInfra

`Start` (with any source of credentials and any transport), `Load`, `connect`,
`connectionURI` file by file, `openConnection`, then `lookup` and `isActive` for
each element of `Checks`, with `HostChanges` and `SecretChanges` between any
two. A Secret is the set of its non-empty keys, credentials the set of kinds
they hold; module `Credentials` has what `Load` and `connectionURI` compute
from them. The files are written in any order, which contains the code's. `changed` and `wasActive` are
history variables that no step reads. `Reference` states the outcome
independently, from the documented rules for Secrets and reasons.

### Reservations

Machines of one network, each a process: `reserveMachineIP` and
`releaseMachineIP` read the entries and decide, `Update` sends the change.
`allocationCandidates` and what it calls are translated for addresses of `Width`
bits, with the wrap-around of `hostMask + 1`. A network has the attributes that
decide whether the code accepts it: the family, which must be the word "inet",
and the mask, which must be written as `netmask=` (`parseSubnetFails`). `Usable`
is what `docs/host-setup.md` says of the addresses, `Supported` when the code
gives any.

`Update`, from libvirt, refuses an ADD for a MAC or address in use but does not
compare the address of a MODIFY; the code sends one when an earlier choice of the
machine has become free, or the operator had given it another address. `raced`
records a MODIFY that was planned from older entries: this is the one case in
which two machines can end up with the same address, and `DistinctAddresses` says
that there is no other. A DELETE has to match the entry in its name, too. The
operator may add and remove entries of other hosts and of machines that are not
built, with the machine's name or without; that nobody touches the entry of a
built machine is an assumption. The host entries in module `LibvirtMachine`
(`resv`) are this module's `built`.

Not modelled: several `<ip>` elements (the code updates the first, whichever one
it took the subnet from), entries without an address, MAC collisions, changes of
the subnet, a restart of the network.

## Runs

| run | shows | bounds | states |
|---|---|---|---|
| `machine_safety` | `NoOrphan`, `DomainBacked`, `IdentityAgrees`, `InstanceIdAgrees`, `DismantleOnlyDeleted`, `ImplementsLifecycle` | 3 UIDs, symmetric, no `Faults` | 16 thousand |
| `machine_progress` | `TypeOK`, `NoLostWakeup`, `LeftoverIsTransient`, `LiveNeverDismantled`, `DeletionCompletes`, `Converges` | 1 UID, all `Faults`, fair | 63 thousand |
| `machine_iso`, `machine_autostart`, `machine_is_active` | three disagreements with the documentation, below | 2 UIDs | |
| `machine_status` | `TypeOK`, `VolumesReclaimed`, `NoLostWakeup`, `LostStaysLost`, `StatusConverges`, `DeletionCompletes` | 2 pools, 1 lease, 3 faults, fair | 582 thousand |
| `status_suspended` | a disagreement, below | 1 pool, 1 fault, fair | |
| `cluster` | `TypeOK`, `StatusAtRest`, `FinalizerStays`, `DeletionCompletes`, `BecomesReady` | 1 reason, 2 edits, fair | 310 thousand |
| `cluster_endpoint` | a disagreement, below | 1 reason | |
| `ensure_infra` | `TypeOK`, `SuccessIsVerified`, `ReasonIsRight`, `FilesOnlyToConnect` | the code's three resources, 6 Secrets and none | 281 thousand |
| `reservations` | `TypeOK`, `DistinctAddresses`, `BuiltIsReserved`, `NeverExhausted`, `AddressStable`, `Settles` | 2 machines, 1 other host, 4-bit addresses, 9 networks, fair | 36 thousand |
| `reservations_default` | a disagreement, below | 1 network, fair | |

`MaxFaults` in `MachineStatus` counts every failed call and everything that
users, operators and the host do; `MaxEdits` in `LibvirtCluster` counts writes by
others. Nothing else is bounded: in `LibvirtMachine`, `EnsureInfra` and
`Reservations` creations, crashes, failures and host changes may occur any
number of times. Three faults are a crash or lost write, a change on the host
and a deletion or re-creation in one behaviour. The safety properties of both
bounded modules are proved for every bound.

Three UIDs are an object, its moved copy and a re-created successor; only one
object of a name exists at a time. With one UID `Move` is not enabled, and a
re-created object has its predecessor's UID; the progress properties do not
depend on identity, and `machine_safety` covers it. The first of a
`LibvirtCluster`'s two edits creates it, and the second deletes it or changes its
owner or endpoint at any point of a reconcile, or moves it between two.
Re-creation under the same name takes a third edit: `FinalizerAlwaysStays` and
`StatusAlwaysAtRest` cover it, being proved for every `MaxEdits`, and its
liveness is not checked. The Secrets in `ensure_infra` have none, some or all of
the keys of each kind. In `Reservations` 4 bits give a subnet of each size that the code tells
apart (the whole space, more and fewer usable addresses than the block, none), a
DHCP range that is larger than the block, and three networks that the code does
not accept. Both machines have the same hash, so that they always compete; the
operator gives out two addresses (`StaticIPs`), one inside the DHCP range, which
the machines may want, and one that no machine can keep.
Deadlock is not checked where a deleted object leaves nothing to do; it is
checked in the run of `EnsureInfra`.

**Fairness.** Weak fairness of the reconciler as a whole (a running Go process
takes its next step, a queued request is taken), of the watch, and of a guest's
shutdown. Nothing is assumed of users or faults. Instead `Calm` is a step after
which faults and outside changes stop, and liveness is stated from there; in
`MachineStatus` they stop because they are counted, and liveness is about what
happens after the last of them.

## What does not hold

Each is a run that TLC must refute, and a finding in `PROJECT.json`.

- `BootsWithUserData`: a cloud-init volume whose upload failed is reused empty,
  and the machine is recorded as provisioned without bootstrap data.
- `AutostartWhenProvisioned`: a failure just before `SetAutostart` is healed by
  `StartMachine`, which does not set autostart.
- `NoOrphan` with the fault `isActive`: a running domain is undefined without
  being stopped and outlives its object.
- `EndpointWakes`: an endpoint set on the Cluster wakes nobody, because of the
  watch's predicate.
- `SuspendedReported`: the condition DomainRunning of a suspended domain stays
  True, for as long as it is suspended.
- `MachinesServed`: on an IPv4 network whose XML does not say `family="inet"`, no
  machine ever gets an address. libvirt itself writes `ipv4` or nothing, and
  nothing for its `default` network, which `docs/host-setup.md` gives as the
  example. That is knowledge of libvirt, not of this repository; with the family
  "inet" the property holds.

Disagreements that follow from a single branch of the code and have no run:

- A missing network or pool is reported as `InfrastructureProvisioningFailed` and
  not as `InfrastructureMissing` (`api/v1alpha1/status.go:30-31`): the second
  lookup fails before `infraCheckError` sees the first. `ReasonIsRight` allows
  for exactly this.
- `status.ready` of a LibvirtCluster ("the cluster-level infrastructure is ready",
  `libvirtcluster_types.go:77`) stays true beside `InfrastructureReady=False`.
- The comment on `machineReservationBlockSize` (`machine_network.go:30-33`) says
  that only the highest 200 addresses of the DHCP range are used. The code, the
  comment on `allocationCandidates` and `docs/host-setup.md` use the whole range,
  and so does `Usable`.
- The release of a reservation "must not block finalizer removal"
  (`machine_network.go:174-176`), but libvirt refuses the DELETE of an entry that
  the operator made for the machine's MAC without the domain's name, and the
  deletion is retried for ever. `Settles` exempts it (`Named`).
- `initialization.provisioned` ("Domain was created", `libvirtmachine_types.go:86`)
  turns false for a domain that is suspended or a machine that is paused.

## Proofs

`LibvirtMachineProofs` proves, for every set of UIDs:

- for every `Faults`: `TypeCorrect`, `WakeupNeverLost`,
  `LeftoverAlwaysTransient`, `LiveIsNeverDismantled`, and
  `IdentityNeverChanges` (while an object has its finalizer, the UUID of its
  domain is the same before, when and after it is recorded or moved);
- for `Faults` without `isActive` and `hostStart`: `DomainAlwaysBacked` and
  `IdentityPreserved`;
- for `Faults = {}`: `NothingOrphaned`, `InstanceIdPreserved` and
  `OnlyDeletedIsDismantled`.

None of the properties is inductive: a reconcile acts on a cached copy, so an
invariant has to say how old that copy may be. The invariants are in layers.

- `ApiInv`, with every fault. `CacheInv` and `SnapshotInv` relate the cache and
  the reconcile's copy to the object: what was read as being deleted is still
  being deleted or gone, and a live copy with the finalizer has an object with it
  and with the same domain UUID. `WorkInv` says what the reconcile may have
  changed at each `pc`. `LiveIsNeverDismantled` and `IdentityNeverChanges` need
  no more.
- `LeftInv`, with every fault, on top of it: `DeleteMachine` reaches the volumes
  when no domain is left that survives its next stop, and the patch that takes
  the finalizer when no reservation is left either.
- `IInv`, without `isActive` and `hostStart`. `HostInv` says what each step of
  `DeleteMachine` has already removed, so that the finalizer goes last,
  `ClearedInv` what is on the host without a finalizer: nothing, or volumes of
  a pool that was not found. `IdentityInv` ties the domain's UUID, and the
  instance-id if no pool was missed, to the ProviderID, or to the UID while none
  is recorded.
- `WakeInv`, with every fault: a reconcile that will not be requeued changes the
  object, and so raises an event, or a request is already queued, or the machine
  is paused and not being deleted.

Each action has a step in the proofs, and each conjunct that the action can
disturb a step below it.

`MachineLifecycleProofs` proves `LifecycleImplemented`, for `Faults = {}`: under
`IInv`, and the fact that an object without finalizer has no ProviderID
(`PidInv`), every step of `LibvirtMachine` is one step of `MachineLifecycle` or
leaves its five variables alone.

`MachineStatusProofs` proves `AlwaysTyped`, `VolumesAlwaysReclaimed`,
`LostAlwaysStaysLost` and `WakeupNeverLost`, for all pools, leases and any `MaxFaults`. The invariant
has the same cache, snapshot and work parts. `VolumeInv` adds that unless the pool
was edited or not found the volumes are in the pool that the reconcile in flight
has read, and that they are gone before the patch that takes the finalizer.
`LostInv` adds that, until the domain is defined anew,
once the object says DomainNotFound, or is about to, the domain is missing, no
live copy lacks the provider ID, and the reconcile in flight carries no
better news than what it has read. `WakeInv`, beside it, follows a reconcile
that will not be requeued through the three writes: until the second the
finalizer or the ProviderID is still to be written, after it an event is due,
unless a request is queued or the machine is paused and not being deleted.

`LibvirtClusterProofs` proves `TypeCorrect`, `StatusAlwaysAtRest` and
`FinalizerAlwaysStays`, for all reasons and any `MaxEdits`. The finalizer needs `CacheInv` and
`SnapshotInv`: a copy that is being deleted excludes a live object of the same
name. The status needs `RestInv`: while no event, request or requeue is due, the
copy is the object, and a write that is still to come either changes nothing or
raises an event.

`EnsureInfraProofs` proves `TypeCorrect`, `SuccessAlwaysVerified`,
`ReasonAlwaysRight` and `FilesNeverOutliveConnect`, for every non-empty `Checks` and all Secrets. The
properties say nothing until the call returns, so the invariant says what each
step already knows: `Progress` (the resources before `check` were active),
`Knowledge` (what Secret and host are, if nothing changed) and `Files`.

`AllocationProofs` is about the operators of `Reservations`, for every width,
block size, network and hash. `CandidatesAreUsable`: `allocationCandidates`,
with its wrap-around and its special cases, lists for a network that the code
accepts (`Supported`) the addresses that the documentation names (`Usable`), each
once, and none for any other: another family, a mask written as `prefix=`, the
whole address space. `AllocationFindsFree`:
`allocateMachineIPIn` returns one of them that is free or the machine's own if
there is one, and nothing otherwise. The prover knows nothing of powers and little
of remainders, so two facts are proved from counting: 2^(m+n) = 2^m * 2^n from
the subsets of two intervals (`PowerSum`), and that probing from any start meets
every candidate (`ProbingCovers`).

`ReservationsProofs` proves, for any machines, hash, width, networks and
operator:

- `AddressesAlwaysDistinct`. A MODIFY is not checked by libvirt, so the
  invariant (`IInv`) says of each planned one that was not overtaken that its
  address is held by nobody else (`FreshModify`, `Own`), which follows from
  `allocateMachineIPIn`.
- `TypeCorrect` and `BuiltAlwaysReserved`. The invariant (`BuiltInv`) says in
  which phase a machine has which plan, and that an address planned for it is
  usable, which is `CandidatesAreUsable`: the update then leaves an entry with
  that address, and a machine becomes built only with such an entry.
- `AddressAlwaysStable`, from the same invariant: no update of another machine
  reaches the entry of a built one.
- `AddressAlwaysLeft`: on a network that the code accepts, with as many usable
  addresses as machines and other hosts, the allocation never fails. An address that is taken is taken by an entry, no
  MAC has two, and the machine itself needs none, so one address is free (a
  pigeonhole over the finite set of MACs); `AllocationFindsFree` finds it.

The assumptions are the named `ASSUME`s of the modules: the model values differ
from the data, `Faults` is a set of known faults, `Checks` is not empty, networks
are ones that libvirt accepts (`Valid`). `FiniteAssumption` says that there
are finitely many machines and hosts; only `AddressAlwaysLeft` uses it.

Every safety property that a passing run checks is proved. Only model-checked is
liveness (`DeletionCompletes`, `Converges`, `StatusConverges`, `BecomesReady`,
`Settles`), which is out of the prover's reach. `WakeupNeverLost`,
`StatusAlwaysAtRest` and `AddressAlwaysLeft` are the safety halves of three of
them: nothing is left waiting, and no retry finds the network full.

## Not modelled

- XML builders, URI parameters, the layout of the cloud-init ISO: text and file
  formats without state.
- Domain names and MAC addresses: truncated hashes. One name is modelled at a
  time; two names with the same MAC are outside.
- The conditions InfrastructureReady, DomainProvisioningReady and MachineCreated
  of a machine: written, never read.
- A restart of the libvirt network, which forgets reservations that were made
  with flags 0: it depends on libvirt alone.
- `pkg/utils/ip.go`: pure parsing that no other package calls.
- Start-up in `cmd/main.go`: flags and wiring; one worker per controller and
  leader election are assumed.
- Templates, which have no controller, `zz_generated.deepcopy.go`, which is
  generated, and `mock_provider.go`, which is for tests.
- Several machines with one LibvirtCluster: the two controllers meet only in the
  LibvirtCluster's spec and existence, of which `MachineStatus` has the domain
  pool and `reachable`; machines meet only in the network, which `Reservations`
  has.
- Edits of a LibvirtCluster's URI and network: in no module. A machine that was
  created before such an edit is afterwards looked for on another host or
  network.
- The death of the process between writing and removing the credential files,
  which leaves them in the temporary directory.
