---------------------------- MODULE MachineStatus ----------------------------
(***************************************************************************)
(* The status that the LibvirtMachine reconciler reports, and the part of  *)
(* the LibvirtCluster it depends on.  Module LibvirtMachine has the inside *)
(* of the Provider's calls and one write for the deferred patch; here a    *)
(* call of the Provider is one step, which may fail at any stage of its    *)
(* work, and the patch is three API writes.                                *)
(*                                                                         *)
(* The conditions InfrastructureReady, DomainProvisioningReady and         *)
(* MachineCreated are left out: the reconciler does not read them.         *)
(***************************************************************************)
EXTENDS Naturals

CONSTANTS
    Pools,      \* storage pools that LibvirtCluster.Spec.DomainPool may name
    Leases,     \* addresses that the DHCP server may lease to the machine
    NoLease,    \* no address
    NoObj,      \* the object does not exist
    MaxFaults   \* bound: how often a call fails or somebody interferes

VARIABLES
    obj,        \* the LibvirtMachine in the API server
    cached,     \* the manager's informer cache of it
    pending,    \* a watch event for obj has not reached the cache
    queued,     \* the request is in the work queue
    paused,     \* annotations.IsPaused(cluster, machine)
    reachable,  \* owner Machine, Cluster, LibvirtCluster and Secret are there
    pool,       \* LibvirtCluster.Spec.DomainPool in the manager's cache
    edited,     \* history: pool changed while the machine was held
    overlooked, \* history: deleteVolume did not find the pool
    redefined,  \* history: somebody defined the domain anew
    pc,         \* the next call of the reconcile in flight, or "idle"
    before,     \* the object as read, kept by the patch helper
    work,       \* the object as changed by the reconcile
    requeue,    \* the reconcile returns an error or RequeueAfter
    config,     \* MachineConfig.DomainPool of the reconcile in flight
    dom,        \* the state of the domain on the host
    volumes,    \* the pools in which volumes of the machine are
    lease,      \* the DHCP lease of the machine's MAC address
    faults      \* how often a call failed or somebody interfered

api   == <<obj, cached, pending>>
owner == <<paused, reachable, pool, edited, overlooked, redefined>>
local == <<before, work, requeue, config>>
host  == <<dom, volumes, lease>>
vars  == <<api, queued, owner, pc, local, host, faults>>

\* pid: Spec.ProviderID is set.  prov: Status.Initialization.Provisioned.
\* running: the condition DomainRunning, "True" or the reason of its False.
\* addr: Status.Addresses, of at most one.
Object == [del: BOOLEAN, fin: BOOLEAN, pid: BOOLEAN,
           ready: BOOLEAN, prov: BOOLEAN,
           running: {"none", "True", "DomainNotRunning", "DomainNotFound"},
           addr: Leases \cup {NoLease}]

\* What getDomainState tells apart.  A domain that is still shutting down is in
\* module LibvirtMachine.
DomainStates == {"missing", "running", "stopped", "unknown"}

Steps == {"GetMachineState", "CreateMachine", "StartMachine",
          "GetMachineAddress", "DeleteMachine",
          "patchStatusConditions", "patch", "patchStatus"}

ASSUME StatusAssumption ==
    /\ NoObj \notin Object
    /\ NoLease \notin Leases
    /\ MaxFaults \in Nat

NewObject == [del |-> FALSE, fin |-> FALSE, pid |-> FALSE, ready |-> FALSE,
              prov |-> FALSE, running |-> "none", addr |-> NoLease]

Exists(o) == o # NoObj

\* The machine may have something on the host.
Held == Exists(obj) /\ obj.fin

-----------------------------------------------------------------------------
(* Reconcile and reconcileNormal up to the first call of the Provider.     *)

\* The code returns: w is the object the deferred Patch writes, again says
\* whether the result is an error or asks for a requeue.
Finish(w, again) ==
    /\ pc' = "patchStatusConditions"
    /\ work' = w
    /\ requeue' = again

\* The code goes on to its next call, having changed the object to w.
Call(step, w) == pc' = step /\ work' = w /\ UNCHANGED requeue

\* Mutant of Fail: the error is logged and not returned.
FailQuietly == Finish(work, FALSE)

Fail == Finish(work, TRUE)

\* Something goes wrong or changes, or nothing does.
Disturb == faults < MaxFaults /\ faults' = faults + 1
Steady  == UNCHANGED faults

Down(w) == [w EXCEPT !.ready = FALSE, !.prov = FALSE]
Up(w)   == [w EXCEPT !.pid = TRUE, !.ready = TRUE, !.prov = TRUE]

ReconcileGone ==
    /\ pc = "idle" /\ queued
    /\ ~Exists(cached)
    /\ queued' = FALSE
    /\ UNCHANGED <<api, owner, pc, local, host, faults>>

\* Mutant of newMachineConfig: the patch helper keeps no copy of the object.
newMachineConfigNoCopy ==
    /\ pc = "idle" /\ queued
    /\ Exists(cached)
    /\ queued' = FALSE
    /\ before' = NoObj
    /\ config' = pool
    /\ UNCHANGED <<api, owner, host>>

\* The object is read, and the MachineConfig is built from it and from the
\* LibvirtCluster as the cache has that now.  Of the LibvirtCluster's fields
\* only the pool is modelled; the URI and the network are taken as fixed.
newMachineConfig ==
    /\ pc = "idle" /\ queued
    /\ Exists(cached)
    /\ queued' = FALSE
    /\ before' = cached
    /\ config' = pool
    /\ UNCHANGED <<api, owner, host>>

\* Mutant of Unreachable: without its LibvirtCluster, a machine that is being
\* deleted is let go.
UnreachableReleases ==
    /\ newMachineConfig
    /\ Steady
    /\ ~reachable
    /\ IF cached.del THEN Finish([cached EXCEPT !.fin = FALSE], FALSE)
                     ELSE Finish(cached, TRUE)

\* The owner Machine, Cluster, LibvirtCluster or credentials are missing.  The
\* return without a requeue is not taken: util.GetClusterFromMetadata returns a
\* Cluster or an error.
Unreachable ==
    /\ newMachineConfig
    /\ Steady
    /\ ~reachable
    /\ Finish(cached, TRUE)

ReconcileDelete ==
    /\ newMachineConfig
    /\ Steady
    /\ reachable
    /\ cached.del
    /\ Call("DeleteMachine", cached)

\* Mutant of ReconcilePaused: the pause is checked before the deletion.
ReconcilePausedFirst ==
    /\ newMachineConfig
    /\ Steady
    /\ reachable
    /\ paused
    /\ Finish(Down(cached), FALSE)

ReconcilePaused ==
    /\ newMachineConfig
    /\ Steady
    /\ reachable
    /\ ~cached.del
    /\ paused
    /\ Finish(Down(cached), FALSE)

AddFinalizer ==
    /\ newMachineConfig
    /\ Steady
    /\ reachable
    /\ ~cached.del
    /\ ~paused
    /\ ~cached.fin
    /\ Finish(Down([cached EXCEPT !.fin = TRUE]), FALSE)

\* The Cluster's InfrastructureProvisioned is nil or false.
AwaitInfrastructure ==
    /\ newMachineConfig
    /\ Disturb
    /\ reachable
    /\ ~cached.del
    /\ ~paused
    /\ cached.fin
    /\ Finish(Down(cached), TRUE)

ReconcileNormal ==
    /\ newMachineConfig
    /\ Steady
    /\ reachable
    /\ ~cached.del
    /\ ~paused
    /\ cached.fin
    /\ Call("GetMachineState", cached)

-----------------------------------------------------------------------------
(* reconcileNormal after GetMachineState.                                  *)

reconcileLostDomain ==
    /\ work.pid
    /\ Finish([work EXCEPT !.ready = FALSE, !.addr = NoLease,
                           !.running = "DomainNotFound"], TRUE)

\* Mutant of DomainMissing: whether the domain was created is taken from
\* Status.Initialization.Provisioned.
DomainMissingByStatus ==
    /\ dom = "missing"
    /\ Steady
    /\ \/ work.prov /\ reconcileLostDomain
       \/ ~work.prov /\ Call("CreateMachine", Down(work))

\* A machine without provider ID waits for its bootstrap data, or is created.
DomainMissing ==
    /\ dom = "missing"
    /\ \/ Steady /\ reconcileLostDomain
       \/ Disturb /\ ~work.pid /\ Finish(Down(work), TRUE)
       \/ Steady /\ ~work.pid /\ Call("CreateMachine", Down(work))

DomainStopped ==
    /\ dom = "stopped"
    /\ Steady
    /\ Call("StartMachine", [work EXCEPT !.ready = FALSE,
                                         !.running = "DomainNotRunning"])

DomainRunning ==
    /\ dom = "running"
    /\ Steady
    /\ Call("GetMachineAddress", Up([work EXCEPT !.running = "True"]))

\* Mutant of DomainUnknown: the status is left alone.
DomainUnknownKeepsStatus ==
    /\ dom = "unknown"
    /\ Steady
    /\ Finish(work, TRUE)

DomainUnknown ==
    /\ dom = "unknown"
    /\ Steady
    /\ Finish(Down(work), TRUE)

GetMachineState ==
    /\ pc = "GetMachineState"
    /\ \/ DomainMissing \/ DomainStopped \/ DomainRunning \/ DomainUnknown
       \/ Disturb /\ Fail
    /\ UNCHANGED <<api, queued, owner, before, config, host>>

\* A failure leaves nothing, the volumes, a defined domain or a started one.
CreateMachine ==
    /\ pc = "CreateMachine"
    /\ \/ /\ dom' = "running" /\ volumes' = volumes \cup {config}
          /\ Steady /\ Finish(Up(work), FALSE)
       \/ /\ Disturb /\ Fail
          /\ \/ UNCHANGED <<dom, volumes>>
             \/ /\ dom' \in {"missing", "stopped", "running"}
                /\ volumes' = volumes \cup {config}
    /\ UNCHANGED <<api, queued, owner, before, config, lease>>

\* Starting a domain that is gone or active is an error.
StartMachine ==
    /\ pc = "StartMachine"
    /\ \/ /\ dom = "stopped" /\ dom' = "running"
          /\ (Steady /\ Finish(Up(work), TRUE)) \/ (Disturb /\ Fail)
       \/ /\ (Steady /\ dom # "stopped") \/ Disturb
          /\ Fail
          /\ UNCHANGED dom
    /\ UNCHANGED <<api, queued, owner, before, config, volumes, lease>>

\* A failed lookup and a missing lease leave the address as it was.
observeMachineAddress ==
    /\ pc = "GetMachineAddress"
    /\ \/ Steady /\ lease # NoLease /\ Finish([work EXCEPT !.addr = lease], TRUE)
       \/ Steady /\ lease = NoLease /\ Finish(work, TRUE)
       \/ Disturb /\ Finish(work, TRUE)
    /\ UNCHANGED <<api, queued, owner, before, config, host>>

\* reconcileDelete after DeleteMachine: it returns an error when there was no
\* finalizer to remove.
reconcileDeleted == Finish([work EXCEPT !.fin = FALSE], ~work.fin)

\* The domain goes first, then the volumes in the pool of the MachineConfig.
\* A pool that is not found (it is stopped and undefined for a while, and its
\* volumes stay) is a success as well.
DeleteMachine ==
    /\ pc = "DeleteMachine"
    /\ \/ /\ dom' = "missing" /\ volumes' = volumes \ {config}
          /\ Steady /\ reconcileDeleted /\ UNCHANGED overlooked
       \/ /\ dom' = "missing" /\ config \in volumes /\ UNCHANGED volumes
          /\ Disturb /\ reconcileDeleted /\ overlooked' = TRUE
       \/ /\ Disturb /\ Fail /\ UNCHANGED overlooked
          /\ \/ dom' \in {dom, "missing"} /\ UNCHANGED volumes
             \/ dom' = "missing" /\ volumes' = volumes \ {config}
    /\ UNCHANGED <<api, queued, paused, reachable, pool, edited, redefined,
                   before, config, lease>>

-----------------------------------------------------------------------------
(* The deferred helper.Patch: conditions, then metadata and spec, then the *)
(* rest of the status, each only if the reconcile changed it.  It goes on  *)
(* when one fails and returns the errors.                                  *)

\* The API server stores o, and drops a deleted object with its last
\* finalizer.
Write(o) ==
    /\ obj' = IF o.del /\ ~o.fin THEN NoObj ELSE o
    /\ pending' = (pending \/ obj' # obj)

\* One of the three writes: it is made if the reconcile changed the part, and
\* it fails (err) if the API server does not accept it or the call fails.
PatchPart(changed, accepted, o, err) ==
    \/ ~changed /\ ~err /\ Steady /\ UNCHANGED <<obj, pending>>
    \/ changed /\ accepted /\ ~err /\ Steady /\ Write(o)
    \/ /\ changed /\ err /\ UNCHANGED <<obj, pending>>
       /\ (~accepted /\ Steady) \/ (accepted /\ Disturb)

Merge(old, new, current) == IF new # old THEN new ELSE current

\* The condition is written over the value the reconcile has read, or that is
\* the new one already; any other value is a conflict.
patchStatusConditions ==
    /\ pc = "patchStatusConditions"
    /\ \E err \in BOOLEAN :
         /\ PatchPart(work.running # before.running,
                      Exists(obj) /\ obj.running \in {before.running, work.running},
                      [obj EXCEPT !.running = work.running], err)
         /\ requeue' = (requeue \/ err)
    /\ pc' = "patch"
    /\ UNCHANGED <<cached, queued, owner, before, work, config, host>>

\* The provider ID is only ever set, so the immutability of a set one refuses
\* nothing here.
patch ==
    /\ pc = "patch"
    /\ \E err \in BOOLEAN :
         /\ PatchPart(work.fin # before.fin \/ work.pid # before.pid,
                      Exists(obj),
                      [obj EXCEPT !.fin = Merge(before.fin, work.fin, @),
                                  !.pid = Merge(before.pid, work.pid, @)], err)
         /\ requeue' = (requeue \/ err)
    /\ pc' = "patchStatus"
    /\ UNCHANGED <<cached, queued, owner, before, work, config, host>>

Forget ==
    /\ pc' = "idle"
    /\ before' = NoObj
    /\ work' = NoObj
    /\ requeue' = FALSE

patchStatus ==
    /\ pc = "patchStatus"
    /\ \E err \in BOOLEAN :
         /\ PatchPart(\/ work.ready # before.ready \/ work.prov # before.prov
                      \/ work.addr # before.addr,
                      Exists(obj),
                      [obj EXCEPT !.ready = Merge(before.ready, work.ready, @),
                                  !.prov = Merge(before.prov, work.prov, @),
                                  !.addr = Merge(before.addr, work.addr, @)], err)
         /\ queued' = (queued \/ requeue \/ err)
    /\ Forget
    /\ UNCHANGED <<cached, owner, config, host>>

-----------------------------------------------------------------------------
(* The manager and the API server around the reconciler.                   *)

WatchEvent ==
    /\ pending
    /\ cached' = obj
    /\ pending' = FALSE
    /\ queued' = TRUE
    /\ UNCHANGED <<obj, owner, pc, local, host, faults>>

\* The watch of the owner Machine queues a request, whatever the cache has.
MachineEvent ==
    /\ Disturb
    /\ queued' = TRUE
    /\ UNCHANGED <<api, owner, pc, local, host>>

\* The manager dies and restarts with a fresh list.
Crash ==
    /\ Disturb
    /\ Forget
    /\ cached' = obj
    /\ pending' = FALSE
    /\ queued' = Exists(obj)
    /\ UNCHANGED <<obj, owner, config, host>>

CreateObject ==
    /\ Disturb
    /\ ~Exists(obj)
    /\ obj' = NewObject
    /\ pending' = TRUE
    /\ edited' = (edited /\ volumes # {})
    /\ overlooked' = (overlooked /\ volumes # {})
    /\ UNCHANGED <<cached, queued, paused, reachable, pool, redefined, pc, local,
                   host>>

DeleteObject ==
    /\ Disturb
    /\ Exists(obj) /\ ~obj.del
    /\ obj' = IF obj.fin THEN [obj EXCEPT !.del = TRUE] ELSE NoObj
    /\ pending' = TRUE
    /\ UNCHANGED <<cached, queued, owner, pc, local, host>>

\* Unpausing queues a request; pausing does not.
PauseOrUnpause ==
    /\ Disturb
    /\ paused' = ~paused
    /\ queued' = (queued \/ paused)
    /\ UNCHANGED <<api, reachable, pool, edited, overlooked, redefined, pc, local,
                   host>>

\* clusterctl move: the paused object is created anew in another management
\* cluster with its metadata and spec, but without its status.
Move ==
    /\ Disturb
    /\ paused
    /\ pc = "idle"
    /\ Exists(obj) /\ ~obj.del /\ obj.pid
    /\ obj' = [NewObject EXCEPT !.fin = obj.fin, !.pid = TRUE]
    /\ cached' = obj'
    /\ pending' = FALSE
    /\ queued' = TRUE
    /\ UNCHANGED <<owner, pc, local, host>>

PrerequisitesChange ==
    /\ Disturb
    /\ reachable' = ~reachable
    /\ UNCHANGED <<api, queued, paused, pool, edited, overlooked, redefined, pc,
                   local, host>>

\* spec.domainPool of a LibvirtCluster may be edited at any time; this is the
\* moment at which the edit arrives in the manager's cache.
EditLibvirtCluster ==
    /\ Disturb
    /\ pool' \in Pools \ {pool}
    /\ edited' = (edited \/ Held)
    /\ UNCHANGED <<api, queued, paused, reachable, overlooked, redefined, pc,
                   local, host>>

\* The domain is started, stopped, suspended or removed.  That of a machine
\* that was created may be defined anew; nobody else uses its name before.
HostChangesDomain ==
    /\ Disturb
    /\ dom = "missing" => Exists(obj) /\ obj.pid
    /\ dom' \in DomainStates \ {dom}
    /\ redefined' = (redefined \/ dom = "missing")
    /\ UNCHANGED <<api, queued, paused, reachable, pool, edited, overlooked, pc,
                   local, volumes, lease>>

HostChangesLease ==
    /\ Disturb
    /\ lease' \in (Leases \cup {NoLease}) \ {lease}
    /\ UNCHANGED <<api, queued, owner, pc, local, dom, volumes>>

-----------------------------------------------------------------------------
Init ==
    /\ obj = NewObject /\ cached = NoObj /\ pending = TRUE /\ queued = FALSE
    /\ pc = "idle" /\ before = NoObj /\ work = NoObj /\ requeue = FALSE
    /\ paused = FALSE /\ reachable = TRUE
    /\ pool \in Pools /\ config = pool
    /\ edited = FALSE /\ overlooked = FALSE /\ redefined = FALSE
    /\ dom = "missing" /\ volumes = {} /\ lease \in Leases \cup {NoLease}
    /\ faults = 0

Reconciler ==
    \/ ReconcileGone \/ Unreachable \/ ReconcileDelete \/ ReconcilePaused
    \/ AddFinalizer \/ AwaitInfrastructure \/ ReconcileNormal
    \/ GetMachineState \/ CreateMachine \/ StartMachine
    \/ observeMachineAddress \/ DeleteMachine
    \/ patchStatusConditions \/ patch \/ patchStatus

Environment ==
    \/ MachineEvent \/ Crash \/ CreateObject \/ DeleteObject
    \/ PauseOrUnpause \/ Move \/ PrerequisitesChange \/ EditLibvirtCluster
    \/ HostChangesDomain \/ HostChangesLease

Next == Reconciler \/ WatchEvent \/ Environment

Spec == Init /\ [][Next]_vars

\* A Go process that runs takes its next step, and the watch delivers.
FairSpec == Spec /\ WF_vars(Reconciler) /\ WF_vars(WatchEvent)

-----------------------------------------------------------------------------
(* Properties.                                                             *)

\* Every variable has its type; before and work are set exactly while a
\* reconcile is in flight.
TypeOK ==
    /\ obj \in Object \cup {NoObj} /\ cached \in Object \cup {NoObj}
    /\ pending \in BOOLEAN /\ queued \in BOOLEAN
    /\ paused \in BOOLEAN /\ reachable \in BOOLEAN
    /\ pool \in Pools
    /\ edited \in BOOLEAN /\ overlooked \in BOOLEAN /\ redefined \in BOOLEAN
    /\ pc \in Steps \cup {"idle"}
    /\ pc = "idle" => before = NoObj /\ work = NoObj
    /\ pc # "idle" => before \in Object /\ work \in Object
    /\ requeue \in BOOLEAN /\ config \in Pools
    /\ dom \in DomainStates /\ volumes \subseteq Pools
    /\ lease \in Leases \cup {NoLease}
    /\ faults \in 0..MaxFaults

\* reconcileDelete and newMachineConfig: an object that is gone, or without
\* the finalizer, has no volume left in any pool, with two exceptions: the pool
\* was edited in the LibvirtCluster while the machine was held, or deleteVolume
\* did not find the pool, which it takes for a success.
VolumesReclaimed == ~Held /\ volumes # {} => edited \/ overlooked

\* The returns of Reconcile and the errors of its deferred patch: between two
\* reconciles, an object that is not paused, or is being deleted, has a request
\* in the queue or a watch event to come, whichever call or write failed.
NoLostWakeup ==
    (pc = "idle" /\ Exists(obj) /\ (~paused \/ obj.del)) => queued \/ pending

Lost(o) == /\ Exists(o) /\ o.running = "DomainNotFound"
           /\ ~o.ready /\ o.addr = NoLease

\* reconcileLostDomain: once a machine is reported lost, no reconcile, of a
\* cache however stale, reports it ready or with an address again, unless
\* somebody has defined its domain anew on the host.
LostStaysLost ==
    [][~redefined /\ Lost(obj) /\ Exists(obj')
         => ~obj'.ready /\ obj'.addr = NoLease]_vars

\* The status of a live machine tells what is on the host.  For a suspended
\* domain it only tells that the machine is not ready: see SuspendedReported.
Agrees ==
    /\ dom = "running" =>
         /\ obj.pid /\ obj.ready /\ obj.prov /\ obj.running = "True"
         /\ lease # NoLease => obj.addr = lease
    /\ dom = "missing" => obj.pid /\ Lost(obj)
    /\ dom = "unknown" => ~obj.ready
    /\ dom # "stopped"

\* reconcileNormal with the three writes of the patch: after the last failure
\* or interference the status comes to agree with the host, and stays so.
StatusConverges ==
    <>[](Exists(obj) /\ ~obj.del /\ reachable /\ ~paused => Agrees)

\* api/v1alpha1/status.go: "DomainRunningCondition documents whether the Domain
\* is running."  So the condition of a domain that stays suspended comes to say
\* that it does not run.
SuspendedReported ==
    <>[](Exists(obj) /\ ~obj.del /\ reachable /\ ~paused /\ dom = "unknown"
           => obj.running # "True")

\* Reconcile loads the owner Machine, LibvirtCluster and credentials before it
\* looks at the deletion: a machine under deletion goes, paused or not, unless
\* one of them is missing for good.
DeletionCompletes ==
    (Exists(obj) /\ obj.del) ~> (~Exists(obj) \/ ~reachable)
=============================================================================
