--------------------------- MODULE LibvirtMachine ---------------------------
(***************************************************************************)
(* One LibvirtMachine name: its object in the API server, the manager's    *)
(* informer cache and work queue, the LibvirtMachine reconciler with the   *)
(* libvirt calls of its Provider, and what the name owns on the libvirt    *)
(* host (domain, root disk, cloud-init ISO, DHCP reservation).             *)
(*                                                                         *)
(* The grain of a step is one libvirt call or one API write.  Between any  *)
(* two of them the object may be deleted or re-created, the cluster paused *)
(* or moved, the domain stopped, paused or removed on the host, a call may *)
(* fail before or after it took effect, and the manager may crash.         *)
(*                                                                         *)
(* controller-runtime runs one worker per controller, so there is a single *)
(* reconcile in flight (pc).  The reconciler never reads back the status it *)
(* writes, so the status is left to module MachineStatus.                  *)
(***************************************************************************)
EXTENDS Naturals

CONSTANTS
    UIDs,       \* object UIDs; also domain UUIDs, which are taken from them
    None,       \* no provider ID
    NoObj,      \* the object does not exist
    NoDom,      \* the domain does not exist
    Faults      \* host behaviour that DeleteMachine does not notice

\* "isActive":  dom.IsActive() may return an error in deleteDomain
\* "hostStart": the host may start a domain between IsActive and Undefine
\* "poolGone":  the pool may be undefined, its files kept, when deleteVolume
\*              looks it up
FaultKinds == {"isActive", "hostStart", "poolGone"}

VARIABLES
    obj,        \* the LibvirtMachine in the API server
    cached,     \* the manager's informer cache of it
    pending,    \* a watch event for obj has not reached the cache
    queued,     \* the request is in the work queue
    paused,     \* annotations.IsPaused(cluster, machine)
    pc,         \* the next call of the reconcile in flight, or "idle"
    before,     \* the object as read, kept by the patch helper
    work,       \* the object as changed by the reconcile
    requeue,    \* the reconcile returns an error or RequeueAfter
    dom,        \* the domain on the host
    disk,       \* the root disk volume exists
    iso,        \* the cloud-init volume: absent, created, or filled
    resv,       \* the DHCP host entry exists
    calm        \* no fault or outside change happens any more

api   == <<obj, cached, pending, paused>>
local == <<before, work, requeue>>
host  == <<dom, disk, iso, resv>>
vars  == <<api, queued, pc, local, host, calm>>

-----------------------------------------------------------------------------
(* Data.                                                                   *)

\* The LibvirtMachine's UID, whether it has a DeletionTimestamp and the
\* provider's finalizer, and its ProviderID (without the prefix).
Object == [uid: UIDs, del: BOOLEAN, fin: BOOLEAN, pid: UIDs \cup {None}]

\* A libvirt domain.  A domain that is undefined while active stays as a
\* transient (not persistent) one until it stops.
Domain == [uuid: UIDs, auto: BOOLEAN, persistent: BOOLEAN,
           state: {"RUNNING", "SHUTDOWN", "SHUTOFF", "PAUSED"}]

\* The cloud-init volume that has its contents stands as the instance-id of
\* its meta-data.
IsoStates == {"absent", "created"} \cup UIDs

CreateSteps == {"createRootDisk", "createISODisk", "storageVolUpload",
                "reserveMachineIP", "DomainDefineXML", "SetAutostart",
                "Create"}
DeleteSteps == {"deleteDomain", "Destroy", "Undefine", "deleteRootDisk",
                "deleteISODisk", "releaseMachineReservation"}
Steps == CreateSteps \cup DeleteSteps
           \cup {"GetMachineState", "StartMachine", "Patch"}

ASSUME MachineAssumption ==
    /\ UIDs \cap {None, "absent", "created"} = {}
    /\ NoObj \notin Object
    /\ NoDom \notin Domain
    /\ Faults \subseteq FaultKinds

NewObject(u) == [uid |-> u, del |-> FALSE, fin |-> FALSE, pid |-> None]

\* Mutant of domainUUID: no fallback to the UID of the object.
domainUUIDWithoutUID(o) == o.pid

\* Mutant of domainUUID: the ProviderID is not looked at.
domainUUIDFromUID(o) == o.uid

domainUUID(o) == IF o.pid = None THEN o.uid ELSE o.pid

setProviderID(o) == [o EXCEPT !.pid = domainUUID(o)]

\* The instance-id is the domain UUID of the MachineConfig, never empty.
instanceID(o) == domainUUID(o)

\* dom.IsActive(): a domain that is shutting down or paused is active.
IsActive(d) == d # NoDom /\ d.state # "SHUTOFF"

\* domain.Create() starts a defined domain that is not active.
CanStart(d) == d # NoDom /\ ~IsActive(d)

\* dom.Undefine() needs a persistent domain.
CanUndefine(d) == d # NoDom /\ d.persistent

\* getDomainState, as the reconciler's cases missing, running, stopped and
\* unknown.
getDomainState(d) ==
    CASE d = NoDom                            -> "NotFound"
      [] d # NoDom /\ d.state = "RUNNING"     -> "Running"
      [] d # NoDom /\ d.state \in {"SHUTOFF", "SHUTDOWN"} -> "Stopped"
      [] d # NoDom /\ d.state = "PAUSED"      -> "Unknown"

\* What is left of a domain that stops.
Stopped(d) == IF d.persistent THEN [d EXCEPT !.state = "SHUTOFF"] ELSE NoDom

-----------------------------------------------------------------------------
(* How a step of the reconcile ends.                                       *)

\* The call succeeds and the code goes on to the next one.
Goto(step) == pc' = step /\ UNCHANGED <<work, requeue>>

\* The code returns: w is the object the deferred Patch writes, again says
\* whether the result is an error or asks for a requeue.
Finish(w, again) ==
    /\ pc' = "Patch"
    /\ work' = w
    /\ requeue' = again

\* The call returns an error.
Fail == Finish(work, TRUE)

\* A failure of the connection, the host or the storage, not of the state.
Flaky == ~calm /\ Fail

-----------------------------------------------------------------------------
(* Reconcile.  A missing owner Machine, Cluster, LibvirtCluster or         *)
(* credential makes Reconcile return an error or RequeueAfter before it    *)
(* changed anything, which leaves the request queued: a stuttering step.   *)
(* Its return for a nil Cluster is not reached: GetClusterFromMetadata     *)
(* gives an error then.                                                    *)

Begin ==
    /\ pc = "idle"
    /\ queued
    /\ cached # NoObj
    /\ queued' = FALSE
    /\ before' = cached
    /\ UNCHANGED <<api, host, calm>>

\* The object is not found in the cache.
ReconcileGone ==
    /\ pc = "idle"
    /\ queued
    /\ cached = NoObj
    /\ queued' = FALSE
    /\ UNCHANGED <<api, pc, local, host, calm>>

\* Mutant of ReconcileDelete: the volumes are deleted before the domain.
ReconcileDeleteDisksFirst ==
    /\ Begin
    /\ cached.del
    /\ work' = cached
    /\ pc' = "deleteRootDisk"
    /\ UNCHANGED requeue

ReconcileDelete ==
    /\ Begin
    /\ cached.del
    /\ work' = cached
    /\ pc' = "deleteDomain"
    /\ UNCHANGED requeue

\* Mutant of ReconcilePaused: the pause is checked before the deletion.
ReconcilePausedFirst ==
    /\ Begin
    /\ paused
    /\ Finish(cached, FALSE)

ReconcilePaused ==
    /\ Begin
    /\ ~cached.del
    /\ paused
    /\ Finish(cached, FALSE)

\* Mutant of AddFinalizer: the reconcile goes on before the finalizer is
\* written.
AddFinalizerAndGoOn ==
    /\ Begin
    /\ ~cached.del
    /\ ~paused
    /\ ~cached.fin
    /\ work' = [cached EXCEPT !.fin = TRUE]
    /\ pc' = "GetMachineState"
    /\ UNCHANGED requeue

AddFinalizer ==
    /\ Begin
    /\ ~cached.del
    /\ ~paused
    /\ ~cached.fin
    /\ Finish([cached EXCEPT !.fin = TRUE], FALSE)

\* The Cluster's InfrastructureProvisioned is nil or false.
AwaitInfrastructure ==
    /\ Begin
    /\ ~cached.del
    /\ ~paused
    /\ cached.fin
    /\ ~calm
    /\ Finish(cached, TRUE)

ReconcileNormal ==
    /\ Begin
    /\ ~cached.del
    /\ ~paused
    /\ cached.fin
    /\ work' = cached
    /\ pc' = "GetMachineState"
    /\ UNCHANGED requeue

-----------------------------------------------------------------------------
(* reconcileNormal after GetMachineState.                                  *)

\* Mutant of DomainMissing: a lost machine is cleaned up on the host.
DomainMissingCleansUp ==
    /\ getDomainState(dom) = "NotFound"
    /\ Goto(IF work.pid # None THEN "deleteRootDisk" ELSE "createRootDisk")

\* A machine with a provider ID has lost its domain.
reconcileLostDomain == work.pid # None /\ Finish(work, TRUE)

\* There is no DataSecretName yet, or the Secret cannot be read.
getCloudInitDataFails == work.pid = None /\ Flaky

DomainMissing ==
    /\ getDomainState(dom) = "NotFound"
    /\ \/ reconcileLostDomain
       \/ getCloudInitDataFails
       \/ work.pid = None /\ Goto("createRootDisk")

\* Mutant of DomainStopped: a stopped domain is only looked at again.
DomainStoppedWaits ==
    /\ getDomainState(dom) = "Stopped"
    /\ Finish(work, TRUE)

DomainStopped ==
    /\ getDomainState(dom) = "Stopped"
    /\ Goto("StartMachine")

\* It only reads the leases, and requeues whether that fails or not.
observeMachineAddress(w) == Finish(w, TRUE)

DomainRunning ==
    /\ getDomainState(dom) = "Running"
    /\ observeMachineAddress(setProviderID(work))

\* Mutant of DomainUnknown: no requeue in an unknown state.
DomainUnknownNoRequeue ==
    /\ getDomainState(dom) = "Unknown"
    /\ Finish(work, FALSE)

DomainUnknown ==
    /\ getDomainState(dom) = "Unknown"
    /\ Finish(work, TRUE)

GetMachineState ==
    /\ pc = "GetMachineState"
    /\ DomainMissing \/ DomainStopped \/ DomainRunning \/ DomainUnknown \/ Flaky
    /\ UNCHANGED <<api, queued, before, host, calm>>

\* StartMachine looks the domain up and starts it; starting an active domain
\* is an error.
StartMachine ==
    /\ pc = "StartMachine"
    /\ \/ /\ CanStart(dom)
          /\ dom' = [dom EXCEPT !.state = "RUNNING"]
          /\ Finish(setProviderID(work), TRUE) \/ Flaky
       \/ /\ ~CanStart(dom) \/ ~calm
          /\ Fail
          /\ UNCHANGED dom
    /\ UNCHANGED <<api, queued, before, disk, iso, resv, calm>>

-----------------------------------------------------------------------------
(* Provider.CreateMachine: createDomain.                                   *)

\* An existing volume is kept; the base image must exist.
createRootDisk ==
    /\ pc = "createRootDisk"
    /\ \/ disk' = TRUE /\ (Goto("createISODisk") \/ Flaky)
       \/ UNCHANGED disk /\ Flaky
    /\ UNCHANGED <<api, queued, before, dom, iso, resv, calm>>

\* The ISO is built in a temporary directory that is removed again, and read
\* into memory: a failure leaves nothing behind.
writeCloudInitISOFails == Flaky /\ UNCHANGED iso

\* An existing volume is used as it is, whatever was uploaded to it.
createISODisk ==
    /\ pc = "createISODisk"
    /\ \/ /\ iso # "absent"
          /\ Goto("reserveMachineIP") \/ Flaky
          /\ UNCHANGED iso
       \/ /\ iso = "absent"
          /\ iso' = "created"
          /\ Goto("storageVolUpload") \/ Flaky
       \/ writeCloudInitISOFails
    /\ UNCHANGED <<api, queued, before, dom, disk, resv, calm>>

storageVolUpload ==
    /\ pc = "storageVolUpload"
    /\ \/ iso' = instanceID(before) /\ (Goto("reserveMachineIP") \/ Flaky)
       \/ UNCHANGED iso /\ Flaky
    /\ UNCHANGED <<api, queued, before, dom, disk, resv, calm>>

reserveMachineIP ==
    /\ pc = "reserveMachineIP"
    /\ \/ resv' = TRUE /\ (Goto("DomainDefineXML") \/ Flaky)
       \/ UNCHANGED resv /\ Flaky
    /\ UNCHANGED <<api, queued, before, dom, disk, iso, calm>>

\* Mutant of DomainDefineXML: without WithUUID, libvirt picks the UUID.
DomainDefineXMLAnyUUID ==
    /\ pc = "DomainDefineXML"
    /\ \E u \in UIDs : dom' = [uuid |-> u, auto |-> FALSE,
                               persistent |-> TRUE, state |-> "SHUTOFF"]
    /\ Goto("SetAutostart")
    /\ UNCHANGED <<api, queued, before, disk, iso, resv, calm>>

\* The UUID is computed when Reconcile builds the MachineConfig.
DomainDefineXML ==
    /\ pc = "DomainDefineXML"
    /\ \/ /\ dom' = [uuid |-> domainUUID(before), auto |-> FALSE,
                     persistent |-> TRUE, state |-> "SHUTOFF"]
          /\ Goto("SetAutostart") \/ Flaky
       \/ UNCHANGED dom /\ Flaky
    /\ UNCHANGED <<api, queued, before, disk, iso, resv, calm>>

SetAutostart ==
    /\ pc = "SetAutostart"
    /\ \/ /\ dom # NoDom
          /\ dom' = [dom EXCEPT !.auto = TRUE]
          /\ Goto("Create") \/ Flaky
       \/ (dom = NoDom \/ ~calm) /\ Fail /\ UNCHANGED dom
    /\ UNCHANGED <<api, queued, before, disk, iso, resv, calm>>

\* domain.Create() starts the domain; success ends the missing case.
Create ==
    /\ pc = "Create"
    /\ \/ /\ CanStart(dom)
          /\ dom' = [dom EXCEPT !.state = "RUNNING"]
          /\ Finish(setProviderID(work), FALSE) \/ Flaky
       \/ /\ ~CanStart(dom) \/ ~calm
          /\ Fail
          /\ UNCHANGED dom
    /\ UNCHANGED <<api, queued, before, disk, iso, resv, calm>>

-----------------------------------------------------------------------------
(* Provider.DeleteMachine.                                                 *)

\* The lookup and IsActive; an error of IsActive is dropped.
deleteDomain ==
    /\ pc = "deleteDomain"
    /\ \/ dom = NoDom /\ Goto("deleteRootDisk")
       \/ IsActive(dom) /\ Goto("Destroy")
       \/ dom # NoDom /\ ~IsActive(dom) /\ Goto("Undefine")
       \/ dom # NoDom /\ "isActive" \in Faults /\ ~calm /\ Goto("Undefine")
       \/ Flaky
    /\ UNCHANGED <<api, queued, before, host, calm>>

\* Mutant of Destroy: the stopped domain is not undefined.
DestroyNoUndefine ==
    /\ pc = "Destroy"
    /\ \/ /\ IsActive(dom)
          /\ dom' = Stopped(dom)
          /\ Goto("deleteRootDisk")
       \/ /\ ~IsActive(dom) \/ ~calm
          /\ Fail
          /\ UNCHANGED dom
    /\ UNCHANGED <<api, queued, before, disk, iso, resv, calm>>

Destroy ==
    /\ pc = "Destroy"
    /\ \/ /\ IsActive(dom)
          /\ dom' = Stopped(dom)
          /\ Goto("Undefine") \/ Flaky
       \/ /\ ~IsActive(dom) \/ ~calm
          /\ Fail
          /\ UNCHANGED dom
    /\ UNCHANGED <<api, queued, before, disk, iso, resv, calm>>

Undefine ==
    /\ pc = "Undefine"
    /\ \/ /\ CanUndefine(dom)
          /\ dom' = IF IsActive(dom) THEN [dom EXCEPT !.persistent = FALSE]
                                     ELSE NoDom
          /\ Goto("deleteRootDisk") \/ Flaky
       \/ /\ ~CanUndefine(dom) \/ ~calm
          /\ Fail
          /\ UNCHANGED dom
    /\ UNCHANGED <<api, queued, before, disk, iso, resv, calm>>

\* deleteVolume takes a pool that it does not find for a deleted volume.
PoolGone == "poolGone" \in Faults /\ ~calm

deleteRootDisk ==
    /\ pc = "deleteRootDisk"
    /\ \/ disk' = FALSE /\ (Goto("deleteISODisk") \/ Flaky)
       \/ UNCHANGED disk /\ (Flaky \/ (PoolGone /\ Goto("deleteISODisk")))
    /\ UNCHANGED <<api, queued, before, dom, iso, resv, calm>>

\* Mutant of deleteISODisk: the volume is not deleted.
deleteISODiskSkipped ==
    /\ pc = "deleteISODisk"
    /\ Goto("releaseMachineReservation")
    /\ UNCHANGED <<api, queued, before, host, calm>>

deleteISODisk ==
    /\ pc = "deleteISODisk"
    /\ \/ iso' = "absent" /\ (Goto("releaseMachineReservation") \/ Flaky)
       \/ UNCHANGED iso
          /\ (Flaky \/ (PoolGone /\ Goto("releaseMachineReservation")))
    /\ UNCHANGED <<api, queued, before, dom, disk, resv, calm>>

\* Success ends DeleteMachine; reconcileDelete then removes the finalizer,
\* and returns an error when there was none to remove.  A network that is not
\* found is a success: its host entries are gone with it.
releaseMachineReservation ==
    /\ pc = "releaseMachineReservation"
    /\ \/ /\ resv' = FALSE
          /\ Finish([work EXCEPT !.fin = FALSE], ~work.fin) \/ Flaky
       \/ UNCHANGED resv /\ Flaky
    /\ UNCHANGED <<api, queued, before, dom, disk, iso, calm>>

-----------------------------------------------------------------------------
(* The deferred helper.Patch.  It writes the conditions, then metadata and *)
(* spec, then the rest of the status, each as a merge patch of what the    *)
(* reconcile changed.  It goes on when one fails and returns the errors.   *)

\* A field of the patched object: the new value if the reconcile changed it.
Merge(old, new, current) == IF new # old THEN new ELSE current

Merged == [obj EXCEPT !.fin = Merge(before.fin, work.fin, @),
                      !.pid = Merge(before.pid, work.pid, @)]

\* The API server removes a deleted object with its last finalizer.
Stored(o) == IF o.del /\ ~o.fin THEN NoObj ELSE o

\* The API server takes the write: the object still exists, and
\* spec.providerID is immutable once set.
Accepted == obj # NoObj /\ obj.pid \in {None, Merged.pid}

\* The request is queued again when the reconcile asked for it or a write
\* failed.  A write that changes the stored object raises an event.
Patch ==
    /\ pc = "Patch"
    /\ \/ /\ work = before
          /\ UNCHANGED <<obj, pending>>
          /\ queued' = (queued \/ requeue)
       \/ /\ work # before /\ Accepted
          /\ obj' = Stored(Merged)
          /\ pending' = (pending \/ obj' # obj)
          /\ queued' = (queued \/ requeue)
       \/ /\ work # before /\ (~Accepted \/ ~calm)
          /\ UNCHANGED <<obj, pending>>
          /\ queued' = TRUE
    /\ pc' = "idle"
    /\ before' = NoObj
    /\ work' = NoObj
    /\ requeue' = FALSE
    /\ UNCHANGED <<cached, paused, host, calm>>

-----------------------------------------------------------------------------
(* The manager and the API server around the reconciler.                   *)

\* The watch delivers the newest object and queues a request for it.
WatchEvent ==
    /\ pending
    /\ cached' = obj
    /\ pending' = FALSE
    /\ queued' = TRUE
    /\ UNCHANGED <<obj, paused, pc, local, host, calm>>

\* A request that the object did not cause: the watch of the owner Machine, or
\* the event of a write of the status.
MachineEvent ==
    /\ ~calm
    /\ queued' = TRUE
    /\ UNCHANGED <<api, pc, local, host, calm>>

\* The manager dies and restarts: the reconcile in flight is lost, the cache
\* is filled by a fresh list, and every listed object is queued.
Crash ==
    /\ ~calm
    /\ pc' = "idle"
    /\ before' = NoObj
    /\ work' = NoObj
    /\ requeue' = FALSE
    /\ cached' = obj
    /\ pending' = FALSE
    /\ queued' = (obj # NoObj)
    /\ UNCHANGED <<obj, paused, host, calm>>

CreateObject ==
    /\ ~calm
    /\ obj = NoObj
    /\ \E u \in UIDs : obj' = NewObject(u)
    /\ pending' = TRUE
    /\ UNCHANGED <<cached, paused, queued, pc, local, host, calm>>

DeleteObject ==
    /\ ~calm
    /\ obj # NoObj
    /\ ~obj.del
    /\ obj' = Stored([obj EXCEPT !.del = TRUE])
    /\ pending' = TRUE
    /\ UNCHANGED <<cached, paused, queued, pc, local, host, calm>>

Pause ==
    /\ ~calm
    /\ ~paused
    /\ paused' = TRUE
    /\ UNCHANGED <<obj, cached, pending, queued, pc, local, host, calm>>

\* The Cluster watch passes unpausing (predicates.ClusterUnpaused), and the
\* object's own watch passes the removal of its pause annotation.
Unpause ==
    /\ paused
    /\ ~calm
    /\ paused' = FALSE
    /\ queued' = TRUE
    /\ UNCHANGED <<obj, cached, pending, pc, local, host, calm>>

\* clusterctl move: the paused, provisioned object is created anew in another
\* management cluster, with a new UID and its metadata and spec.
\* The manager there starts from its own cache and queue.
Move ==
    /\ ~calm
    /\ paused
    /\ pc = "idle"
    /\ obj # NoObj
    /\ ~obj.del /\ obj.fin /\ obj.pid # None
    /\ \E u \in UIDs \ {obj.uid} :
          obj' = [NewObject(u) EXCEPT !.fin = TRUE, !.pid = obj.pid]
    /\ cached' = obj'
    /\ pending' = FALSE
    /\ queued' = TRUE
    /\ UNCHANGED <<paused, pc, local, host, calm>>

-----------------------------------------------------------------------------
(* The host: guests, operators and libvirt itself.                         *)

HostChangesState ==
    /\ ~calm
    /\ dom # NoDom
    /\ (pc = "Undefine" /\ ~IsActive(dom)) => "hostStart" \in Faults
    /\ \E s \in {"RUNNING", "SHUTDOWN", "PAUSED"} :
          /\ dom.state \in IF s = "RUNNING" THEN {"PAUSED", "SHUTOFF"}
                                           ELSE {"RUNNING"}
          /\ dom' = [dom EXCEPT !.state = s]
    /\ UNCHANGED <<api, queued, pc, local, disk, iso, resv, calm>>

HostStops ==
    /\ ~calm
    /\ IsActive(dom)
    /\ dom' = Stopped(dom)
    /\ UNCHANGED <<api, queued, pc, local, disk, iso, resv, calm>>

HostRemoves ==
    /\ ~calm
    /\ dom # NoDom
    /\ dom' = NoDom
    /\ UNCHANGED <<api, queued, pc, local, disk, iso, resv, calm>>

ShutdownCompletes ==
    /\ dom # NoDom /\ dom.state = "SHUTDOWN"
    /\ dom' = Stopped(dom)
    /\ UNCHANGED <<api, queued, pc, local, disk, iso, resv, calm>>

\* From here on calls succeed and nobody interferes.
Calm ==
    /\ ~calm
    /\ calm' = TRUE
    /\ UNCHANGED <<api, queued, pc, local, host>>

-----------------------------------------------------------------------------
Init ==
    /\ obj = NoObj /\ cached = NoObj /\ pending = FALSE
    /\ queued = FALSE /\ paused \in BOOLEAN
    /\ pc = "idle" /\ before = NoObj /\ work = NoObj /\ requeue = FALSE
    /\ dom = NoDom /\ disk = FALSE /\ iso = "absent" /\ resv = FALSE
    /\ calm = FALSE

Reconciler ==
    \/ ReconcileGone \/ ReconcileDelete \/ ReconcilePaused \/ AddFinalizer
    \/ AwaitInfrastructure \/ ReconcileNormal
    \/ GetMachineState \/ StartMachine
    \/ createRootDisk \/ createISODisk \/ storageVolUpload
    \/ reserveMachineIP \/ DomainDefineXML \/ SetAutostart \/ Create
    \/ deleteDomain \/ Destroy \/ Undefine
    \/ deleteRootDisk \/ deleteISODisk \/ releaseMachineReservation
    \/ Patch

Environment ==
    \/ MachineEvent \/ Crash \/ CreateObject \/ DeleteObject \/ Pause \/ Unpause \/ Move
    \/ HostChangesState \/ HostStops \/ HostRemoves \/ Calm

Next == Reconciler \/ WatchEvent \/ ShutdownCompletes \/ Environment

Spec == Init /\ [][Next]_vars
(***************************************************************************)
(* Fairness: a Go process that runs takes its next step, the watch         *)
(* delivers its events, and a guest that shuts down ends up shut off.      *)
(***************************************************************************)
FairSpec ==
    /\ Spec
    /\ WF_vars(Reconciler)
    /\ WF_vars(WatchEvent)
    /\ WF_vars(ShutdownCompletes)

-----------------------------------------------------------------------------
(* Properties.                                                             *)

\* Every variable has its type; before and work are set exactly while a
\* reconcile is in flight.
TypeOK ==
    /\ obj \in Object \cup {NoObj}
    /\ cached \in Object \cup {NoObj}
    /\ pending \in BOOLEAN /\ queued \in BOOLEAN /\ paused \in BOOLEAN
    /\ pc \in Steps \cup {"idle"}
    /\ pc = "idle" => before = NoObj /\ work = NoObj
    /\ pc # "idle" => before \in Object /\ work \in Object
    /\ requeue \in BOOLEAN
    /\ dom \in Domain \cup {NoDom}
    /\ disk \in BOOLEAN /\ iso \in IsoStates /\ resv \in BOOLEAN
    /\ calm \in BOOLEAN

HostClean == dom = NoDom /\ ~disk /\ iso = "absent" /\ ~resv

\* reconcileDelete: when the object is gone, or does not carry the finalizer,
\* nothing of the machine is on the host, whatever failed, crashed or was
\* read from a stale cache on the way.
NoOrphan == (obj = NoObj \/ (obj # NoObj /\ ~obj.fin)) => HostClean

\* createDomain defines the domain after, and DeleteMachine removes it
\* before, its root disk, its ISO volume and its DHCP reservation: a domain
\* on the host never lacks one of them.
DomainBacked == dom # NoDom => disk /\ iso # "absent" /\ resv

\* setProviderID and domainUUID: a recorded provider ID is the UUID of the
\* domain on the host, through retries, crashes and clusterctl move.
IdentityAgrees ==
    (obj # NoObj /\ obj.pid # None /\ dom # NoDom) => dom.uuid = obj.pid

\* createISODisk and clusterctl move: the instance-id that the guest boots with,
\* and gives its kubelet as provider ID, is the recorded one, although a volume
\* that exists is never written again.
InstanceIdAgrees ==
    (obj # NoObj /\ obj.pid # None /\ iso \in UIDs) => iso = obj.pid

\* deleteDomain and deleteVolume, with every fault of the host: what deletion
\* overlooks is never a reservation, and never a domain that survives its
\* next stop.
LeftoverIsTransient ==
    (obj = NoObj \/ (obj # NoObj /\ ~obj.fin))
      => ~resv /\ (dom # NoDom => ~dom.persistent)

\* The returns of Reconcile without a requeue: an object that is not paused,
\* or is being deleted, has a queued request, an undelivered event or a
\* reconcile in flight, so nothing waits for an event that never comes.
NoLostWakeup ==
    (pc = "idle" /\ obj # NoObj /\ (~paused \/ obj.del)) => queued \/ pending

\* reconcileDelete acts on the cached object: what it takes from the host
\* (the defined domain, the volumes, the reservation) belongs to an object
\* that is being deleted in the API server, never to a live or re-created one.
DismantleOnlyDeleted ==
    [][\/ pc = "Undefine" /\ pc' = "deleteRootDisk"
       \/ disk /\ ~disk'
       \/ iso # "absent" /\ iso' = "absent"
       \/ resv /\ ~resv'
       => obj # NoObj /\ obj.del]_vars

\* An object with the finalizer that is not being deleted.
Live(o) == o # NoObj /\ o.fin /\ ~o.del

\* reconcileDelete and DeleteMachine, with every fault of the host: whatever
\* stale object a deletion acts on and whatever an earlier one left behind, no
\* domain is stopped or undefined, and no volume or reservation removed, while
\* a live object of the name is in the API server.
LiveNeverDismantled ==
    [][\/ pc = "Destroy" /\ pc' = "Undefine"
       \/ pc = "Undefine" /\ pc' = "deleteRootDisk"
       \/ disk /\ ~disk'
       \/ iso # "absent" /\ iso' = "absent"
       \/ resv /\ ~resv'
       => ~Live(obj)]_vars

\* reconcileDelete retries until it is done: once calls succeed, an object
\* that is being deleted goes away, paused or not.
DeletionCompletes == (calm /\ obj # NoObj /\ obj.del) ~> (obj = NoObj)

\* The machine is where the reconciler leaves it alone: gone, paused, up with
\* its identity recorded, lost, or suspended on the host.
AtRest ==
    \/ obj = NoObj
    \/ paused
    \/ dom # NoDom /\ dom.state = "RUNNING" /\ obj.pid # None
    \/ dom = NoDom /\ obj.pid # None
    \/ dom # NoDom /\ dom.state = "PAUSED"

\* reconcileNormal converges: once calls succeed and nobody interferes, the
\* machine is created or restarted, or found lost or suspended, and stays so.
Converges == calm ~> []AtRest

-----------------------------------------------------------------------------
(* The lifecycle that module MachineLifecycle promises.                    *)

Held == obj # NoObj /\ obj.fin

Phase == IF ~Held THEN "free" ELSE IF obj.del THEN "deleting" ELSE "held"

Identity == IF Held THEN domainUUID(obj) ELSE None

Recorded == Held /\ obj.pid # None

DomainOnHost == IF dom = NoDom THEN None ELSE dom.uuid

PartsOnHost ==
    {p \in {"rootDisk", "isoDisk", "reservation"} :
       \/ p = "rootDisk" /\ disk
       \/ p = "isoDisk" /\ iso # "absent"
       \/ p = "reservation" /\ resv}

Lifecycle == INSTANCE MachineLifecycle WITH
    phase    <- Phase,
    id       <- Identity,
    recorded <- Recorded,
    domain   <- DomainOnHost,
    parts    <- PartsOnHost

\* Reconcile with the Provider, through retries, stale reads, crashes and
\* clusterctl move, looks on the host like the plain lifecycle.
ImplementsLifecycle == Lifecycle!Spec

-----------------------------------------------------------------------------
(* What the documentation says and the code does not keep (see README).    *)

\* docs/how-it-works.md: the ISO is built from the bootstrap secret and
\* uploaded, so that a provisioned machine has its bootstrap data.
BootsWithUserData ==
    (obj # NoObj /\ obj.pid # None /\ dom # NoDom) => iso \in UIDs

\* docs/how-it-works.md: the provider defines the domain, turns on autostart
\* and starts it, so that a machine with a provider ID has autostart.
AutostartWhenProvisioned ==
    (obj # NoObj /\ obj.pid # None /\ dom # NoDom) => dom.auto
=============================================================================
