--------------------------- MODULE LibvirtCluster ---------------------------
(***************************************************************************)
(* One LibvirtCluster: its object in the API server, the manager's cache   *)
(* and work queue, the LibvirtCluster reconciler, and the deferred patch,  *)
(* which is three API writes.                                              *)
(*                                                                         *)
(* Between any two steps the object may be edited, deleted, re-created or  *)
(* moved, the cluster paused, a write may fail, and the manager may crash. *)
(* Credentials.Load and Provider.EnsureInfra only read; module EnsureInfra *)
(* has their inside.  The Secret and the host may change at any time, so   *)
(* either call may end either way, until the system is calm.               *)
(*                                                                         *)
(* status.ready and status.initialization.provisioned are always set       *)
(* together and stand here as the one field ready.                         *)
(***************************************************************************)
EXTENDS Naturals

CONSTANTS
    Reasons,    \* reasons of InfrastructureReady = False
    NoObj,      \* the object does not exist
    MaxEdits    \* bound: how often the object is written by others

VARIABLES
    obj,        \* the LibvirtCluster in the API server
    cached,     \* the manager's informer cache of it
    pending,    \* a watch event for obj has not reached the cache
    queued,     \* the request is in the work queue
    paused,     \* annotations.IsPaused(cluster, libvirtCluster)
    clusterEndpoint, \* Cluster.Spec.ControlPlaneEndpoint is valid
    pc,         \* the next call of the reconcile in flight, or "idle"
    before,     \* the object as read, kept by the patch helper
    work,       \* the object as changed by the reconcile
    requeue,    \* the reconcile returns an error or RequeueAfter
    edits,      \* how often the object was written by others
    usable,     \* Load and EnsureInfra succeed once the system is calm
    calm        \* no fault or outside change happens any more

api   == <<obj, cached, pending>>
local == <<before, work, requeue>>
env   == <<paused, clusterEndpoint, edits, usable, calm>>
vars  == <<api, queued, pc, local, env>>

\* ep: Spec.ControlPlaneEndpoint is valid.  epCond and infraCond are the
\* conditions ControlPlaneEndpointReady and InfrastructureReady; the latter
\* is "True" or has the reason of its False.
Object == [del: BOOLEAN, fin: BOOLEAN, owner: BOOLEAN, ep: BOOLEAN,
           ready: BOOLEAN, epCond: {"none", "True", "False"},
           infraCond: Reasons \cup {"none", "True"}]

Steps == {"Load", "EnsureInfra",
          "patchStatusConditions", "patch", "patchStatus"}

ASSUME ClusterAssumption ==
    /\ Reasons # {} /\ "none" \notin Reasons /\ "True" \notin Reasons
    /\ NoObj \notin Object
    /\ MaxEdits \in Nat

NewObject(owner, ep) ==
    [del |-> FALSE, fin |-> FALSE, owner |-> owner, ep |-> ep,
     ready |-> FALSE, epCond |-> "none", infraCond |-> "none"]

-----------------------------------------------------------------------------
(* Reconcile and reconcileNormal up to the first call.                     *)

\* The code returns: w is the object the deferred Patch writes, again says
\* whether the result is an error or asks for a requeue.
Finish(w, again) ==
    /\ pc' = "patchStatusConditions"
    /\ work' = w
    /\ requeue' = again

\* Mutant of Begin: the patch helper keeps no copy of the object.
BeginWithoutCopy ==
    /\ pc = "idle"
    /\ queued
    /\ cached # NoObj
    /\ queued' = FALSE
    /\ before' = NoObj
    /\ UNCHANGED <<api, env>>

\* A failure to get the object or its Cluster is retried before anything is
\* changed: a stuttering step.
Begin ==
    /\ pc = "idle"
    /\ queued
    /\ cached # NoObj
    /\ queued' = FALSE
    /\ before' = cached
    /\ UNCHANGED <<api, env>>

ReconcileGone ==
    /\ pc = "idle"
    /\ queued
    /\ cached = NoObj
    /\ queued' = FALSE
    /\ UNCHANGED <<api, pc, local, env>>

\* "Waiting for Cluster Controller to set OwnerRef on LibvirtCluster"
AwaitOwner ==
    /\ Begin
    /\ ~cached.owner
    /\ Finish(cached, FALSE)

\* RemoveFinalizer reports false, an error, when there was none.
reconcileDelete ==
    /\ Begin
    /\ cached.owner /\ cached.del
    /\ Finish([cached EXCEPT !.fin = FALSE], ~cached.fin)

\* Mutant of ReconcilePaused: the pause is checked before the deletion.
ReconcilePausedFirst ==
    /\ Begin
    /\ cached.owner
    /\ paused
    /\ Finish(cached, FALSE)

ReconcilePaused ==
    /\ Begin
    /\ cached.owner /\ ~cached.del
    /\ paused
    /\ Finish(cached, FALSE)

AddFinalizer ==
    /\ Begin
    /\ cached.owner /\ ~cached.del
    /\ ~paused
    /\ ~cached.fin
    /\ Finish([cached EXCEPT !.fin = TRUE], FALSE)

hasControlPlaneEndpoint == cached.ep \/ clusterEndpoint

\* Mutant of AwaitEndpoint: ready is not reset.
AwaitEndpointKeepsReady ==
    /\ Begin
    /\ cached.owner /\ ~cached.del
    /\ ~paused
    /\ cached.fin
    /\ ~hasControlPlaneEndpoint
    /\ Finish([cached EXCEPT !.epCond = "False"], FALSE)

AwaitEndpoint ==
    /\ Begin
    /\ cached.owner /\ ~cached.del
    /\ ~paused
    /\ cached.fin
    /\ ~hasControlPlaneEndpoint
    /\ Finish([cached EXCEPT !.epCond = "False", !.ready = FALSE], FALSE)

\* The condition InfrastructureReady is also set to False, in progress, but
\* only in memory: every return below sets it again before the Patch.  When
\* it ends as it was, the code may still write a later LastTransitionTime, and
\* its event queues a reconcile that the model does not take: it would find,
\* and write, the same status.
reconcileNormal ==
    /\ Begin
    /\ cached.owner /\ ~cached.del
    /\ ~paused
    /\ cached.fin
    /\ hasControlPlaneEndpoint
    /\ work' = [cached EXCEPT !.epCond = "True"]
    /\ pc' = "Load"
    /\ UNCHANGED requeue

\* Mutant of NotReady: the failed call is not retried.
NotReadyNoRequeue ==
    /\ ~usable \/ ~calm
    /\ \E reason \in Reasons :
         Finish([work EXCEPT !.infraCond = reason], FALSE)

\* The call fails: InfrastructureReady is False with one of its reasons, and
\* ready is left as it was.
NotReady ==
    /\ ~usable \/ ~calm
    /\ \E reason \in Reasons :
         Finish([work EXCEPT !.infraCond = reason], TRUE)

Load ==
    /\ pc = "Load"
    /\ \/ /\ usable \/ ~calm
          /\ pc' = "EnsureInfra"
          /\ UNCHANGED <<work, requeue>>
       \/ NotReady
    /\ UNCHANGED <<api, queued, before, env>>

EnsureInfra ==
    /\ pc = "EnsureInfra"
    /\ \/ /\ usable \/ ~calm
          /\ Finish([work EXCEPT !.infraCond = "True", !.ready = TRUE], FALSE)
       \/ NotReady
    /\ UNCHANGED <<api, queued, before, env>>

-----------------------------------------------------------------------------
(* The deferred helper.Patch: conditions, then metadata and spec, then the *)
(* rest of the status, each only if the reconcile changed it.  It goes on  *)
(* when one fails and returns the errors.                                  *)

\* The API server stores o, and drops a deleted object with its last
\* finalizer.
Write(o) ==
    /\ obj' = IF o.del /\ ~o.fin THEN NoObj ELSE o
    /\ pending' = (pending \/ obj' # obj)

\* One of the three writes: it is made if the reconcile changed the part, and
\* it fails (err) if the API server does not accept it or the call fails.
PatchPart(changed, accepted, o, err) ==
    \/ ~changed /\ ~err /\ UNCHANGED <<obj, pending>>
    \/ changed /\ accepted /\ ~err /\ Write(o)
    \/ changed /\ (~accepted \/ ~calm) /\ err /\ UNCHANGED <<obj, pending>>

Merge(old, new, current) == IF new # old THEN new ELSE current

\* A condition is written over the value the reconcile has read, or that is
\* the new one already; any other value is a conflict.
NoConflict(old, new, current) == new # old => current \in {old, new}

patchStatusConditions ==
    /\ pc = "patchStatusConditions"
    /\ \E err \in BOOLEAN :
         /\ PatchPart(
              \/ work.epCond # before.epCond
              \/ work.infraCond # before.infraCond,
              /\ obj # NoObj
              /\ NoConflict(before.epCond, work.epCond, obj.epCond)
              /\ NoConflict(before.infraCond, work.infraCond, obj.infraCond),
              [obj EXCEPT
                 !.epCond = Merge(before.epCond, work.epCond, @),
                 !.infraCond = Merge(before.infraCond, work.infraCond, @)],
              err)
         /\ requeue' = (requeue \/ err)
    /\ pc' = "patch"
    /\ UNCHANGED <<cached, queued, before, work, env>>

\* Mutant of patch: the finalizers are written even if they did not change.
patchAlways ==
    /\ pc = "patch"
    /\ \E err \in BOOLEAN :
         /\ PatchPart(TRUE, obj # NoObj, [obj EXCEPT !.fin = work.fin], err)
         /\ requeue' = (requeue \/ err)
    /\ pc' = "patchStatus"
    /\ UNCHANGED <<cached, queued, before, work, env>>

patch ==
    /\ pc = "patch"
    /\ \E err \in BOOLEAN :
         /\ PatchPart(work.fin # before.fin, obj # NoObj,
                      [obj EXCEPT !.fin = work.fin], err)
         /\ requeue' = (requeue \/ err)
    /\ pc' = "patchStatus"
    /\ UNCHANGED <<cached, queued, before, work, env>>

Forget ==
    /\ pc' = "idle"
    /\ before' = NoObj
    /\ work' = NoObj
    /\ requeue' = FALSE

\* The last write; then the request is queued again if the reconcile asked
\* for it or one of the writes failed.
patchStatus ==
    /\ pc = "patchStatus"
    /\ \E err \in BOOLEAN :
         /\ PatchPart(work.ready # before.ready, obj # NoObj,
                      [obj EXCEPT !.ready = work.ready], err)
         /\ queued' = (queued \/ requeue \/ err)
    /\ Forget
    /\ UNCHANGED <<cached, env>>

-----------------------------------------------------------------------------
(* The manager and the API server around the reconciler.                   *)

WatchEvent ==
    /\ pending
    /\ cached' = obj
    /\ pending' = FALSE
    /\ queued' = TRUE
    /\ UNCHANGED <<obj, pc, local, env>>

\* The manager dies and restarts with a fresh list.
Crash ==
    /\ ~calm
    /\ Forget
    /\ cached' = obj
    /\ pending' = FALSE
    /\ queued' = (obj # NoObj)
    /\ UNCHANGED <<obj, env>>

\* Users and the Cluster controller write the object.
EditObject ==
    /\ ~calm
    /\ edits < MaxEdits
    /\ \/ /\ obj = NoObj
          /\ \E owner, ep \in BOOLEAN : obj' = NewObject(owner, ep)
       \/ obj # NoObj /\ ~obj.owner /\ obj' = [obj EXCEPT !.owner = TRUE]
       \/ obj # NoObj /\ obj' = [obj EXCEPT !.ep = ~@]
       \/ /\ obj # NoObj /\ ~obj.del
          /\ obj' = IF obj.fin THEN [obj EXCEPT !.del = TRUE] ELSE NoObj
    /\ pending' = TRUE
    /\ edits' = edits + 1
    /\ UNCHANGED <<cached, queued, pc, local, paused, clusterEndpoint, usable, calm>>

\* clusterctl move: the paused object is created anew in another management
\* cluster with its metadata and spec, but without its status.
Move ==
    /\ ~calm
    /\ paused
    /\ pc = "idle"
    /\ obj # NoObj
    /\ ~obj.del /\ obj.owner
    /\ edits < MaxEdits
    /\ obj' = [NewObject(TRUE, obj.ep) EXCEPT !.fin = obj.fin]
    /\ cached' = obj'
    /\ pending' = FALSE
    /\ queued' = TRUE
    /\ edits' = edits + 1
    /\ UNCHANGED <<pc, local, paused, clusterEndpoint, usable, calm>>

\* The Cluster's endpoint is set or cleared.  The Cluster watch has the
\* predicate ClusterUnpaused: the change of the endpoint queues nothing.
ClusterEndpointChanges ==
    /\ ~calm
    /\ clusterEndpoint' = ~clusterEndpoint
    /\ UNCHANGED <<api, queued, pc, local, paused, edits, usable, calm>>

Pause ==
    /\ ~calm
    /\ ~paused
    /\ paused' = TRUE
    /\ UNCHANGED <<api, queued, pc, local, clusterEndpoint, edits, usable, calm>>

\* The Cluster watch passes unpausing, and the object's own watch passes the
\* removal of its pause annotation.
Unpause ==
    /\ ~calm
    /\ paused
    /\ paused' = FALSE
    /\ queued' = TRUE
    /\ UNCHANGED <<api, pc, local, clusterEndpoint, edits, usable, calm>>

\* The Secret changed: secretToLibvirtClusters queues the LibvirtClusters
\* that use it.  Nothing is queued when its list fails, which is no step here.
secretToLibvirtClusters ==
    /\ ~calm
    /\ cached # NoObj
    /\ queued' = TRUE
    /\ UNCHANGED <<api, pc, local, env>>

\* From here on calls succeed and nobody interferes.
Calm ==
    /\ ~calm
    /\ calm' = TRUE
    /\ usable' \in BOOLEAN
    /\ UNCHANGED <<api, queued, pc, local, paused, clusterEndpoint, edits>>

-----------------------------------------------------------------------------
Init ==
    /\ obj = NoObj /\ cached = NoObj /\ pending = FALSE /\ queued = FALSE
    /\ paused \in BOOLEAN /\ clusterEndpoint \in BOOLEAN
    /\ edits = 0 /\ usable = FALSE
    /\ pc = "idle" /\ before = NoObj /\ work = NoObj /\ requeue = FALSE
    /\ calm = FALSE

Reconciler ==
    \/ ReconcileGone \/ AwaitOwner \/ reconcileDelete \/ ReconcilePaused
    \/ AddFinalizer \/ AwaitEndpoint \/ reconcileNormal
    \/ Load \/ EnsureInfra
    \/ patchStatusConditions \/ patch \/ patchStatus

Environment ==
    \/ Crash \/ EditObject \/ Move \/ ClusterEndpointChanges
    \/ Pause \/ Unpause \/ secretToLibvirtClusters \/ Calm

Next == Reconciler \/ WatchEvent \/ Environment

Spec == Init /\ [][Next]_vars

\* A Go process that runs takes its next step, and the watch delivers.
FairSpec == Spec /\ WF_vars(Reconciler) /\ WF_vars(WatchEvent)

-----------------------------------------------------------------------------
(* Properties.                                                             *)

\* Every variable has its type; before and work are set exactly while a
\* reconcile is in flight.
TypeOK ==
    /\ obj \in Object \cup {NoObj} /\ cached \in Object \cup {NoObj}
    /\ pending \in BOOLEAN /\ queued \in BOOLEAN /\ paused \in BOOLEAN
    /\ clusterEndpoint \in BOOLEAN /\ edits \in 0..MaxEdits
    /\ usable \in BOOLEAN
    /\ pc \in Steps \cup {"idle"}
    /\ pc = "idle" => before = NoObj /\ work = NoObj
    /\ pc # "idle" => before \in Object /\ work \in Object
    /\ requeue \in BOOLEAN /\ calm \in BOOLEAN

Quiet == pc = "idle" /\ ~queued /\ ~pending

\* The returns of reconcileNormal without a requeue: an owned object that is
\* not paused is left alone only when all three writes of its status agree:
\* it waits for an endpoint and is not ready, or it is verified and ready.
StatusAtRest ==
    (Quiet /\ obj # NoObj /\ obj.owner /\ ~paused) =>
      /\ obj.fin /\ ~obj.del
      /\ \/ obj.epCond = "False" /\ ~obj.ready
         \/ obj.epCond = "True" /\ obj.infraCond = "True" /\ obj.ready

\* reconcileDelete: the finalizer of an object that is not being deleted is
\* never taken off, whatever a reconcile of a stale or of a previous object
\* of that name still writes.
FinalizerStays ==
    [][(obj # NoObj /\ obj.fin /\ ~obj.del) => obj' # NoObj /\ obj'.fin]_vars

\* reconcileDelete is retried: once writes succeed, an owned object that is
\* being deleted goes away, paused or not.
DeletionCompletes ==
    (calm /\ obj # NoObj /\ obj.owner /\ obj.del) ~> (obj = NoObj)

\* EnsureInfra is retried every requeueTimeShort: a host that gets its network
\* and pools late still makes the cluster ready.
Usable ==
    /\ calm /\ usable /\ ~paused
    /\ obj # NoObj /\ obj.owner /\ ~obj.del /\ obj.ep

BecomesReady == Usable ~> (obj # NoObj /\ obj.ready /\ obj.infraCond = "True")

-----------------------------------------------------------------------------
(* What a comment or the documentation says and the code does not keep.    *)

\* libvirtcluster_controller.go: the Cluster or LibvirtCluster watch triggers
\* a new reconcile once an endpoint is set.
EndpointWakes ==
    (/\ Quiet /\ obj # NoObj /\ obj.owner /\ ~paused
     /\ obj.ep \/ clusterEndpoint) => obj.epCond = "True"
=============================================================================
