------------------------- MODULE MachineStatusProofs -------------------------
(***************************************************************************)
(* Proofs about module MachineStatus, for every set of pools and leases    *)
(* and every number of faults.                                             *)
(*                                                                         *)
(* That volumes are reclaimed needs that the pool in the MachineConfig is  *)
(* the one the volumes are in, and that the finalizer goes only after      *)
(* them.  That a lost machine stays lost needs that the cache, once it has *)
(* shown the provider ID of a machine, never falls back behind it.  That   *)
(* no wake-up is lost needs WakeInv: a reconcile that will not be requeued *)
(* has the finalizer or the provider ID yet to write, was overtaken by an  *)
(* event, or found a paused machine.                                       *)
(***************************************************************************)
EXTENDS MachineStatus, TLAPS

PatchSteps == {"patchStatusConditions", "patch", "patchStatus"}
CallSteps  == Steps \ PatchSteps

\* The reconciler would build or keep up a domain for this object.
Live(o) == Exists(o) /\ o.fin /\ ~o.del

\* An object that is being deleted is kept by the finalizer.
HeldByFinalizer(o) == (Exists(o) /\ o.del) => o.fin

\* The object in the API server still backs the older version o of it.
Backs(o) == Live(o) => Held /\ (o.pid => obj.pid)

CacheInv ==
    /\ HeldByFinalizer(obj)
    /\ HeldByFinalizer(cached)
    /\ Backs(cached)
    /\ (Exists(cached) /\ cached.del) => ~Live(obj)

\* What the snapshot of the reconcile in flight still guarantees.
SnapshotInv ==
    pc # "idle" =>
      /\ HeldByFinalizer(before)
      /\ Backs(before)
      /\ before.del => ~Live(obj) /\ ~Live(cached)
      /\ (~before.fin /\ Exists(cached) /\ cached.del)
            => Exists(obj) /\ obj.del
      /\ (Live(before) /\ before.pid /\ Live(cached)) => cached.pid
      /\ pc = "DeleteMachine" => before.del
      /\ pc \in CallSteps \ {"DeleteMachine"} => Live(before)

\* How far the copy that the reconcile changes is from the snapshot.
WorkInv ==
    pc # "idle" =>
      /\ work.del = before.del
      /\ before.pid => work.pid
      /\ (work.pid /\ ~before.pid) => Live(before)
      /\ (before.fin /\ ~work.fin) => before.del
      /\ (~before.fin /\ work.fin) => ~before.del
      /\ pc \in {"GetMachineState", "DeleteMachine"} => work = before
      /\ pc \in CallSteps => work.fin = before.fin

\* The pool was edited, or deleteVolume did not find it.
Excused == edited \/ overlooked

\* Otherwise, where the volumes are.
VolumeInv ==
    ~Excused =>
      /\ volumes # {} => Held /\ volumes = {pool}
      /\ (Held /\ pc \in CallSteps) => config = pool
      /\ (pc \in {"patchStatusConditions", "patch"} /\ before.fin /\ ~work.fin)
            => volumes = {}

NotFound(o) == Exists(o) /\ o.running = "DomainNotFound"

\* The reconcile in flight does not report more than it has read.
NoNews ==
    /\ work.ready => before.ready
    /\ work.addr \in {before.addr, NoLease}

\* What follows when the object says, or is about to say, that it is lost.
LostFacts ==
    /\ NotFound(obj) =>
         /\ dom = "missing" /\ obj.pid
         /\ Live(cached) => cached.pid
         /\ pc # "idle" => NoNews /\ (Live(before) => before.pid)
         /\ pc \notin {"CreateMachine", "StartMachine", "GetMachineAddress"}
    /\ (pc # "idle" /\ NotFound(work) /\ ~NotFound(before)) =>
         /\ pc \in PatchSteps /\ NoNews
         /\ dom = "missing" /\ Live(before) /\ before.pid

\* Which holds until somebody defines the domain anew.
LostInv == ~redefined => LostFacts

\* Why a reconcile that ends without a requeue is not the last one.
WakeInv ==
    /\ ~pending => cached = obj
    /\ (pc # "idle" /\ ~pending /\ ~queued) => before = cached
    /\ pc = "CreateMachine" => ~before.pid
    /\ (pc \in {"patchStatusConditions", "patch"} /\ ~requeue) =>
         \/ work.fin # before.fin \/ work.pid # before.pid
         \/ queued \/ (paused /\ ~before.del)
    /\ (pc = "patchStatus" /\ ~requeue) =>
         pending \/ queued \/ (paused /\ ~before.del)
    /\ NoLostWakeup

IInv == /\ TypeOK /\ CacheInv /\ SnapshotInv /\ WorkInv
        /\ VolumeInv /\ LostInv

-----------------------------------------------------------------------------
(* The objects that the reconciler and the API server make.                *)

\* Down takes the machine out of service and changes nothing else.
LEMMA DownFacts ==
  ASSUME NEW o \in Object
  PROVE  LET d == Down(o)
         IN  /\ d \in Object /\ d.del = o.del /\ d.fin = o.fin /\ d.pid = o.pid
             /\ d.running = o.running /\ d.addr = o.addr /\ ~d.ready
  BY Zenon DEF Object, Down

\* Up records the provider ID and puts the machine into service.
LEMMA UpFacts ==
  ASSUME NEW o \in Object
  PROVE  LET u == Up(o)
         IN  /\ u \in Object /\ u.del = o.del /\ u.fin = o.fin /\ u.pid
             /\ u.running = o.running
  BY Zenon DEF Object, Up

\* A change of the finalizer or of the deletion.
LEMMA FinFacts ==
  ASSUME NEW o \in Object, NEW b \in BOOLEAN
  PROVE  /\ LET f == [o EXCEPT !.fin = b]
            IN  /\ f \in Object /\ f.del = o.del /\ f.fin = b /\ f.pid = o.pid
                /\ f.running = o.running /\ f.addr = o.addr /\ f.ready = o.ready
         /\ LET d == [o EXCEPT !.del = b]
            IN  /\ d \in Object /\ d.del = b /\ d.fin = o.fin /\ d.pid = o.pid
                /\ d.running = o.running /\ d.addr = o.addr /\ d.ready = o.ready
  BY DEF Object

\* A change of the condition DomainRunning.
LEMMA RunningFacts ==
  ASSUME NEW o \in Object,
         NEW c \in {"none", "True", "DomainNotRunning", "DomainNotFound"}
  PROVE  LET r == [o EXCEPT !.running = c]
         IN  /\ r \in Object /\ r.del = o.del /\ r.fin = o.fin /\ r.pid = o.pid
             /\ r.running = c /\ r.addr = o.addr /\ r.ready = o.ready
  BY DEF Object

\* What the metadata and spec part of the patch stores.
SpecMerged == [obj EXCEPT !.fin = Merge(before.fin, work.fin, @),
                          !.pid = Merge(before.pid, work.pid, @)]

LEMMA SpecFacts ==
  ASSUME obj \in Object, before \in Object, work \in Object
  PROVE  LET m == SpecMerged
         IN  /\ m \in Object /\ m.del = obj.del /\ m.running = obj.running
             /\ m.addr = obj.addr /\ m.ready = obj.ready
             /\ m.fin = Merge(before.fin, work.fin, obj.fin)
             /\ m.pid = Merge(before.pid, work.pid, obj.pid)
  BY Zenon DEF Object, SpecMerged, Merge

\* What the status part of the patch stores.
StatusMerged == [obj EXCEPT !.ready = Merge(before.ready, work.ready, @),
                            !.prov = Merge(before.prov, work.prov, @),
                            !.addr = Merge(before.addr, work.addr, @)]

LEMMA StatusFacts ==
  ASSUME obj \in Object, before \in Object, work \in Object
  PROVE  LET m == StatusMerged
         IN  /\ m \in Object /\ m.del = obj.del /\ m.running = obj.running
             /\ m.fin = obj.fin /\ m.pid = obj.pid
             /\ m.ready = Merge(before.ready, work.ready, obj.ready)
             /\ m.addr = Merge(before.addr, work.addr, obj.addr)
  BY ZenonT(60) DEF Object, StatusMerged, Merge

\* A new object, and the one that clusterctl move makes.
LEMMA NewFacts ==
  /\ NewObject \in Object /\ ~NewObject.fin /\ ~NewObject.del
  /\ NewObject.running = "none"
  /\ \A b \in BOOLEAN :
       LET n == [NewObject EXCEPT !.fin = b, !.pid = TRUE]
       IN  /\ n \in Object /\ n.fin = b /\ n.pid /\ ~n.del
           /\ n.running = "none"
  BY Zenon DEF Object, NewObject

\* The count of faults stays within its bound.
LEMMA FaultFacts ==
  ASSUME faults \in 0..MaxFaults, Disturb \/ Steady
  PROVE  faults' \in 0..MaxFaults
  BY StatusAssumption DEF Disturb, Steady
-----------------------------------------------------------------------------
(* Each step preserves the invariant.                                      *)

\* A step that touches neither the object nor the cache.
LEMMA CacheFrame ==
  ASSUME CacheInv, UNCHANGED api
  PROVE  CacheInv'
  BY DEF CacheInv, HeldByFinalizer, Backs, Live, Held, Exists, api

\* The start of a reconcile: the snapshot is the cached object, and the
\* MachineConfig has the pool of the LibvirtCluster.
LEMMA BeginInv ==
  ASSUME IInv, newMachineConfig, Disturb \/ Steady, requeue' \in BOOLEAN,
         pc' \in {"patchStatusConditions", "GetMachineState", "DeleteMachine"},
         work' \in Object,
         work'.del = cached.del, work'.pid = cached.pid,
         work'.running = cached.running, work'.addr = cached.addr,
         work'.ready => cached.ready, cached.fin => work'.fin,
         (~cached.fin /\ work'.fin) => ~cached.del,
         pc' # "patchStatusConditions" => work' = cached,
         pc' = "DeleteMachine" => cached.del,
         pc' = "GetMachineState" => Live(cached)
  PROVE  IInv'
  <1>1. /\ pc = "idle" /\ Exists(cached) /\ cached \in Object /\ before' = cached
        /\ config' = pool /\ UNCHANGED <<api, owner, host>>
        /\ queued' = FALSE /\ pc' # "idle"
    BY DEF newMachineConfig, IInv, TypeOK, Exists
  <1>2. TypeOK'
    BY <1>1, FaultFacts, Zenon DEF IInv, TypeOK, api, owner, host, Steps
  <1>3. CacheInv'
    BY <1>1, CacheFrame DEF IInv
  <1>4. SnapshotInv'
    BY <1>1 DEF IInv, CacheInv, SnapshotInv, HeldByFinalizer, Backs, Live, Held,
       Exists, api, CallSteps, Steps, PatchSteps
  <1>5. WorkInv'
    BY <1>1 DEF WorkInv, CallSteps, Steps, PatchSteps
  <1>6. VolumeInv'
    BY <1>1 DEF IInv, VolumeInv, Excused, Held, Exists, api, owner, host
  <1>7. LostInv'
    <2> SUFFICES ASSUME ~redefined' PROVE LostFacts'
      BY DEF LostInv
    <2>0. LostFacts
      BY <1>1 DEF IInv, LostInv, owner
    <2> QED
      BY <1>1, <2>0 DEF LostFacts, NotFound, NoNews, Live, Exists, api, host
  <1> QED
    BY <1>2, <1>3, <1>4, <1>5, <1>6, <1>7 DEF IInv

\* The returns of Reconcile and reconcileNormal before the first call, and the
\* ways to it.
LEMMA ReconcileInv ==
  ASSUME IInv, Unreachable \/ ReconcileDelete \/ ReconcilePaused \/ AddFinalizer
                 \/ AwaitInfrastructure \/ ReconcileNormal
  PROVE  IInv'
  <1>0. /\ newMachineConfig /\ cached \in Object /\ requeue \in BOOLEAN
        /\ Disturb \/ Steady
    BY Zenon DEF Unreachable, ReconcileDelete, ReconcilePaused, AddFinalizer,
       AwaitInfrastructure, ReconcileNormal, newMachineConfig, Exists, IInv, TypeOK
  <1>1. CASE Unreachable
    BY <1>0, <1>1, BeginInv DEF Unreachable, Finish
  <1>2. CASE ReconcileDelete
    BY <1>0, <1>2, BeginInv, Zenon DEF ReconcileDelete, Call
  <1>3. CASE ReconcilePaused
    <2>1. /\ pc' = "patchStatusConditions" /\ work' = Down(cached)
          /\ requeue' \in BOOLEAN
      BY <1>3, Zenon DEF ReconcilePaused, Finish
    <2> QED
      BY <1>0, <2>1, DownFacts, BeginInv
  <1>4. CASE AddFinalizer
    <2>1. /\ pc' = "patchStatusConditions" /\ requeue' \in BOOLEAN
          /\ work' = Down([cached EXCEPT !.fin = TRUE]) /\ ~cached.del
      BY <1>4, Zenon DEF AddFinalizer, Finish
    <2>2. LET f == [cached EXCEPT !.fin = TRUE]
          IN  /\ f \in Object /\ f.del = cached.del /\ f.fin = TRUE
              /\ f.pid = cached.pid /\ f.running = cached.running
              /\ f.addr = cached.addr
      BY <1>0, FinFacts, Zenon
    <2>3. /\ work' \in Object /\ work'.del = cached.del /\ work'.fin = TRUE
          /\ work'.pid = cached.pid /\ work'.running = cached.running
          /\ work'.addr = cached.addr /\ ~work'.ready
      BY <2>1, <2>2, DownFacts, Zenon
    <2> QED
      BY <1>0, <2>1, <2>3, BeginInv
  <1>5. CASE AwaitInfrastructure
    <2>1. /\ pc' = "patchStatusConditions" /\ work' = Down(cached)
          /\ requeue' \in BOOLEAN
      BY <1>5 DEF AwaitInfrastructure, Finish
    <2> QED
      BY <1>0, <2>1, DownFacts, BeginInv
  <1>6. CASE ReconcileNormal
    <2>1. Live(cached)
      BY <1>0, <1>6 DEF ReconcileNormal, newMachineConfig, Live
    <2> QED
      BY <1>0, <1>6, <2>1, BeginInv DEF ReconcileNormal, Call
  <1> QED
    BY <1>1, <1>2, <1>3, <1>4, <1>5, <1>6

\* What a call of the Provider leaves alone of owner.
OwnerKept == /\ UNCHANGED <<paused, reachable, pool, edited, redefined>>
             /\ overlooked' \in BOOLEAN

LEMMA OwnerFacts ==
  ASSUME IInv, UNCHANGED owner
  PROVE  OwnerKept /\ UNCHANGED overlooked
  BY DEF IInv, TypeOK, OwnerKept, owner

\* A call of the Provider changes the copy and the host only.
LEMMA CallFrame ==
  ASSUME IInv, pc \in CallSteps, OwnerKept,
         UNCHANGED <<api, queued, before, config, lease>>,
         Disturb \/ Steady, requeue' \in BOOLEAN,
         dom' \in DomainStates, volumes' \subseteq Pools,
         pc' \in {"patchStatusConditions"} \cup
                   (CallSteps \ {"GetMachineState", "DeleteMachine"}),
         pc = "DeleteMachine" => pc' = "patchStatusConditions",
         work' \in Object, work'.del = work.del,
         work.pid => work'.pid, work'.pid => work.pid \/ Live(before),
         work'.fin => work.fin,
         (work.fin /\ ~work'.fin) => pc = "DeleteMachine"
  PROVE  TypeOK' /\ CacheInv' /\ SnapshotInv' /\ WorkInv'
  <1>1. /\ pc # "idle" /\ pc' # "idle" /\ pc' \in Steps
        /\ before \in Object /\ work \in Object
    BY DEF IInv, TypeOK, CallSteps, Steps
  <1>2. TypeOK'
    BY <1>1, FaultFacts DEF IInv, TypeOK, api, OwnerKept
  <1>3. CacheInv'
    BY CacheFrame DEF IInv
  <1>4. SnapshotInv'
    BY <1>1 DEF IInv, SnapshotInv, HeldByFinalizer, Backs, Live, Held, Exists,
       api, CallSteps, PatchSteps, Steps
  <1>5. WorkInv'
    <2>1. Live(before)' <=> Live(before)
      BY DEF Live, Exists
    <2>2. /\ work.del = before.del /\ (before.pid => work.pid)
          /\ ((work.pid /\ ~before.pid) => Live(before)) /\ work.fin = before.fin
          /\ (pc = "DeleteMachine" => before.del)
          /\ pc' \in CallSteps => pc # "DeleteMachine"
      BY <1>1 DEF IInv, WorkInv, SnapshotInv, CallSteps, PatchSteps, Steps
    <2>3. work.fin \in BOOLEAN /\ work'.fin \in BOOLEAN
      BY <1>1 DEF Object
    <2> QED
      BY <1>1, <2>1, <2>2, <2>3 DEF WorkInv
  <1> QED
    BY <1>2, <1>3, <1>4, <1>5

\* A call that touches neither the finalizer nor the volumes.
LEMMA VolumeFrame ==
  ASSUME IInv, pc \in CallSteps,
         UNCHANGED <<api, owner, before, config, volumes>>,
         pc' \in Steps, work'.fin = work.fin
  PROVE  VolumeInv'
  <1>1. pc # "idle"
    BY DEF CallSteps, Steps
  <1>2. work.fin = before.fin
    BY <1>1 DEF IInv, WorkInv
  <1> QED
    BY <1>1, <1>2 DEF IInv, VolumeInv, Excused, Held, Exists, api, owner

\* The calls on a domain: the object is not reported lost.
LEMMA LostFrame ==
  ASSUME IInv,
         pc \in {"CreateMachine", "StartMachine", "GetMachineAddress"},
         UNCHANGED <<api, before, redefined>>, work' \in Object,
         work'.running = work.running
  PROVE  LostInv'
  <1> SUFFICES ASSUME ~redefined PROVE LostFacts'
    BY DEF LostInv
  <1>1. ~NotFound(obj) /\ (NotFound(work) => NotFound(before))
    BY DEF IInv, LostInv, LostFacts, PatchSteps
  <1>2. work \in Object
    BY DEF IInv, TypeOK
  <1>3. /\ NotFound(obj)' <=> NotFound(obj)
        /\ NotFound(before)' <=> NotFound(before)
        /\ NotFound(work)' => NotFound(work)
    BY <1>2, StatusAssumption DEF NotFound, Exists, api
  <1> QED
    BY <1>1, <1>3 DEF LostFacts

LEMMA CreateMachineInv ==
  ASSUME IInv, CreateMachine
  PROVE  IInv'
  <1>0. /\ pc = "CreateMachine" /\ pc \in CallSteps /\ pc # "idle"
        /\ work \in Object /\ before \in Object /\ config \in Pools
        /\ volumes \subseteq Pools /\ dom \in DomainStates
        /\ UNCHANGED <<api, queued, owner, before, config, lease>>
        /\ Disturb \/ Steady
    BY Zenon DEF CreateMachine, IInv, TypeOK, CallSteps, PatchSteps, Steps
  <1>1. /\ pc' = "patchStatusConditions" /\ requeue' \in BOOLEAN
        /\ work' = Up(work) \/ work' = work
        /\ dom' \in DomainStates
        /\ volumes' = volumes \/ volumes' = volumes \cup {config}
    BY <1>0, Zenon DEF CreateMachine, Fail, Finish, DomainStates
  <1>2. /\ work' \in Object /\ work'.del = work.del /\ work'.fin = work.fin
        /\ work'.running = work.running
        /\ work.pid => work'.pid
    BY <1>0, <1>1, UpFacts
  <1>3. Live(before) /\ Held /\ before.fin
    BY <1>0 DEF IInv, SnapshotInv, Backs, Live
  <1>4. TypeOK' /\ CacheInv' /\ SnapshotInv' /\ WorkInv'
    BY <1>0, <1>1, <1>2, <1>3, OwnerFacts, CallFrame
  <1>5. VolumeInv'
    <2>1. work'.fin = before.fin
      BY <1>0, <1>2 DEF IInv, WorkInv
    <2>2. Held'
      BY <1>0, <1>3 DEF Held, Exists, api
    <2>3. ~Excused => volumes \subseteq {pool} /\ config = pool
      BY <1>0, <1>3 DEF IInv, VolumeInv, Excused
    <2> QED
      BY <1>0, <1>1, <1>3, <2>1, <2>2, <2>3
      DEF VolumeInv, Excused, owner, CallSteps, PatchSteps
  <1>6. LostInv'
    <2>1. pc \in {"CreateMachine", "StartMachine", "GetMachineAddress"}
      BY <1>0
    <2>2. UNCHANGED <<api, before, redefined>>
      BY <1>0, OwnerFacts DEF OwnerKept
    <2> QED
      BY <1>2, <2>1, <2>2, LostFrame
  <1> QED
    BY <1>4, <1>5, <1>6 DEF IInv

LEMMA StartMachineInv ==
  ASSUME IInv, StartMachine
  PROVE  IInv'
  <1>0. /\ pc = "StartMachine" /\ pc \in CallSteps /\ pc # "idle"
        /\ work \in Object /\ volumes \subseteq Pools /\ dom \in DomainStates
        /\ UNCHANGED <<api, queued, owner, before, config, volumes, lease>>
        /\ Disturb \/ Steady
    BY Zenon DEF StartMachine, IInv, TypeOK, CallSteps, PatchSteps, Steps
  <1>1. /\ pc' = "patchStatusConditions" /\ requeue' \in BOOLEAN
        /\ work' = Up(work) \/ work' = work
        /\ dom' \in DomainStates
    BY <1>0, Zenon DEF StartMachine, Fail, Finish, DomainStates
  <1>2. /\ work' \in Object /\ work'.del = work.del /\ work'.fin = work.fin
        /\ work'.running = work.running
        /\ work.pid => work'.pid
    BY <1>0, <1>1, UpFacts
  <1>3. Live(before)
    BY <1>0 DEF IInv, SnapshotInv
  <1>4. TypeOK' /\ CacheInv' /\ SnapshotInv' /\ WorkInv'
    BY <1>0, <1>1, <1>2, <1>3, OwnerFacts, CallFrame
  <1>5. VolumeInv'
    BY <1>0, <1>1, <1>2, VolumeFrame DEF Steps
  <1>6. LostInv'
    <2>1. pc \in {"CreateMachine", "StartMachine", "GetMachineAddress"}
      BY <1>0
    <2>2. UNCHANGED <<api, before, redefined>>
      BY <1>0, OwnerFacts DEF OwnerKept
    <2> QED
      BY <1>2, <2>1, <2>2, LostFrame
  <1> QED
    BY <1>4, <1>5, <1>6 DEF IInv

LEMMA ObserveInv ==
  ASSUME IInv, observeMachineAddress
  PROVE  IInv'
  <1>0. /\ pc = "GetMachineAddress" /\ pc \in CallSteps /\ pc # "idle"
        /\ work \in Object /\ volumes \subseteq Pools /\ dom \in DomainStates
        /\ lease \in Leases \cup {NoLease}
        /\ UNCHANGED <<api, queued, owner, before, config, dom, volumes, lease>>
        /\ Disturb \/ Steady
    BY Zenon DEF observeMachineAddress, host, IInv, TypeOK, CallSteps, PatchSteps, Steps
  <1>1. /\ pc' = "patchStatusConditions" /\ requeue' \in BOOLEAN
        /\ work' = [work EXCEPT !.addr = lease] \/ work' = work
    BY <1>0, Zenon DEF observeMachineAddress, Finish
  <1>2. /\ work' \in Object /\ work'.del = work.del /\ work'.fin = work.fin
        /\ work'.running = work.running
        /\ work.pid => work'.pid
        /\ work'.pid = work.pid
    BY <1>0, <1>1 DEF Object
  <1>4. TypeOK' /\ CacheInv' /\ SnapshotInv' /\ WorkInv'
    BY <1>0, <1>1, <1>2, OwnerFacts, CallFrame
  <1>5. VolumeInv'
    BY <1>0, <1>1, <1>2, VolumeFrame DEF Steps
  <1>6. LostInv'
    <2>1. pc \in {"CreateMachine", "StartMachine", "GetMachineAddress"}
      BY <1>0
    <2>2. UNCHANGED <<api, before, redefined>>
      BY <1>0, OwnerFacts DEF OwnerKept
    <2> QED
      BY <1>2, <2>1, <2>2, LostFrame
  <1> QED
    BY <1>4, <1>5, <1>6 DEF IInv

LEMMA DeleteMachineInv ==
  ASSUME IInv, DeleteMachine
  PROVE  IInv'
  <1>0. /\ pc = "DeleteMachine" /\ pc \in CallSteps /\ pc # "idle"
        /\ work \in Object /\ before \in Object
        /\ volumes \subseteq Pools /\ dom \in DomainStates
        /\ UNCHANGED <<api, queued, before, config, lease>>
        /\ UNCHANGED <<paused, reachable, pool, edited, redefined>>
        /\ Disturb \/ Steady
    BY DEF DeleteMachine, IInv, TypeOK, CallSteps, PatchSteps, Steps
  <1>1. /\ pc' = "patchStatusConditions" /\ requeue' \in BOOLEAN
        /\ dom' \in {dom, "missing"}
        /\ volumes' = volumes \/ volumes' = volumes \ {config}
        /\ \/ work' = work
           \/ /\ work' = [work EXCEPT !.fin = FALSE]
              /\ volumes' = volumes \ {config} \/ overlooked'
        /\ overlooked' = overlooked \/ overlooked' = TRUE
    <2>1. work.fin \in BOOLEAN
      BY <1>0 DEF Object
    <2> QED
      BY <1>0, <2>1, Zenon DEF DeleteMachine, reconcileDeleted, Fail, Finish
  <1>2. /\ work' \in Object /\ work'.del = work.del
        /\ work'.running = work.running /\ work'.ready = work.ready
        /\ work'.addr = work.addr /\ work'.pid = work.pid
        /\ \/ work'.fin = work.fin
           \/ ~work'.fin /\ (volumes' = volumes \ {config} \/ overlooked')
    <2>1. LET f == [work EXCEPT !.fin = FALSE]
          IN  /\ f \in Object /\ f.del = work.del /\ f.fin = FALSE
              /\ f.pid = work.pid /\ f.running = work.running
              /\ f.addr = work.addr /\ f.ready = work.ready
      BY <1>0, FinFacts, Zenon
    <2>2. CASE work' = work
      BY <1>0, <2>2
    <2>3. CASE /\ work' = [work EXCEPT !.fin = FALSE]
               /\ volumes' = volumes \ {config} \/ overlooked'
      BY <2>1, <2>3
    <2> QED
      BY <1>1, <2>2, <2>3
  <1>3. work = before
    BY <1>0 DEF IInv, WorkInv
  <1>4. dom' \in DomainStates /\ volumes' \subseteq Pools
    BY <1>0, <1>1 DEF DomainStates
  <1>5. (work'.fin => work.fin)
    BY <1>0, <1>2, Zenon DEF Object
  <1>6. TypeOK' /\ CacheInv' /\ SnapshotInv' /\ WorkInv'
    <2>1. OwnerKept
      BY <1>0, <1>1 DEF OwnerKept, IInv, TypeOK
    <2> QED
      BY <1>0, <1>1, <1>2, <1>4, <1>5, <2>1, CallFrame
  <1>7. VolumeInv'
    <2>1. Held' <=> Held
      BY <1>0 DEF Held, Exists, api
    <2>2. Excused => Excused'
      BY <1>0, <1>1 DEF Excused
    <2>3. ~Excused => /\ volumes # {} => Held /\ volumes = {pool}
                      /\ Held => config = pool
      BY <1>0 DEF IInv, VolumeInv
    <2>4. (~Excused /\ volumes' = volumes \ {config}) => volumes' = {}
      BY <2>3
    <2>5. ~Excused => (volumes' # {} => Held' /\ volumes' = {pool})
      BY <1>1, <2>1, <2>3, <2>4
    <2>6. ~Excused' /\ before'.fin /\ ~work'.fin => volumes' = {}
      <3>1. ~Excused' => ~overlooked'
        BY DEF Excused
      <3> QED
        BY <1>0, <1>2, <1>3, <2>2, <2>4, <3>1, Zenon
    <2> QED
      BY <1>0, <1>1, <2>2, <2>5, <2>6 DEF VolumeInv, CallSteps, PatchSteps
  <1>8. LostInv'
    <2> SUFFICES ASSUME ~redefined' PROVE LostFacts'
      BY DEF LostInv
    <2>0. LostFacts
      BY <1>0 DEF IInv, LostInv, owner
    <2>1. /\ NotFound(obj)' <=> NotFound(obj)
          /\ NotFound(before)' <=> NotFound(before)
          /\ NotFound(work)' => NotFound(before)
          /\ Live(cached)' <=> Live(cached)
          /\ Live(before)' <=> Live(before)
          /\ NoNews'
          /\ UNCHANGED <<obj, cached, before>>
      BY <1>0, <1>2, <1>3, StatusAssumption
      DEF NotFound, Live, Exists, NoNews, api
    <2>2. NotFound(obj) => dom' = "missing" /\ obj.pid
                             /\ (Live(cached) => cached.pid)
                             /\ (Live(before) => before.pid)
      BY <1>0, <1>1, <2>0 DEF LostFacts
    <2> QED
      BY <1>1, <2>1, <2>2 DEF LostFacts
  <1> QED
    BY <1>6, <1>7, <1>8 DEF IInv

\* The domain's state decides what the reconcile does next; a machine that is
\* reported lost is found missing again.
LEMMA GetMachineStateInv ==
  ASSUME IInv, GetMachineState
  PROVE  IInv'
  <1>0. /\ pc = "GetMachineState" /\ pc \in CallSteps /\ pc # "idle"
        /\ work \in Object /\ before \in Object
        /\ volumes \subseteq Pools /\ dom \in DomainStates /\ requeue \in BOOLEAN
        /\ UNCHANGED <<api, queued, owner, before, config, dom, volumes, lease>>
        /\ Disturb \/ Steady
    BY Zenon DEF GetMachineState, DomainMissing, DomainStopped, DomainRunning,
       DomainUnknown, host, IInv, TypeOK, CallSteps, PatchSteps, Steps
  <1>1. work = before /\ Live(before)
    BY <1>0 DEF IInv, WorkInv, SnapshotInv
  <1> DEFINE Lostwork == [work EXCEPT !.ready = FALSE, !.addr = NoLease,
                                      !.running = "DomainNotFound"]
             Stopwork == [work EXCEPT !.ready = FALSE,
                                      !.running = "DomainNotRunning"]
             Upwork   == Up([work EXCEPT !.running = "True"])
  <1>2. \/ /\ pc' = "patchStatusConditions" /\ dom = "missing" /\ work.pid
           /\ work' = Lostwork
        \/ pc' = "patchStatusConditions" /\ work' = Down(work)
        \/ pc' = "patchStatusConditions" /\ work' = work
        \/ pc' = "CreateMachine" /\ ~work.pid /\ work' = Down(work)
        \/ pc' = "StartMachine" /\ dom = "stopped" /\ work' = Stopwork
        \/ pc' = "GetMachineAddress" /\ dom = "running" /\ work' = Upwork
    BY DEF GetMachineState, DomainMissing, reconcileLostDomain, DomainStopped,
       DomainRunning, DomainUnknown, Call, Fail, Finish
  <1>3. requeue' \in BOOLEAN
    BY <1>0, Zenon DEF GetMachineState, DomainMissing, reconcileLostDomain, DomainStopped,
       DomainRunning, DomainUnknown, Call, Fail, Finish
  <1>4. /\ Lostwork \in Object /\ Lostwork.del = work.del /\ Lostwork.fin = work.fin
        /\ Lostwork.pid = work.pid /\ ~Lostwork.ready /\ Lostwork.addr = NoLease
    BY <1>0, Zenon DEF Object
  <1>5. /\ Stopwork \in Object /\ Stopwork.del = work.del /\ Stopwork.fin = work.fin
        /\ Stopwork.pid = work.pid /\ Stopwork.running = "DomainNotRunning"
    BY <1>0, Zenon DEF Object
  <1>6. /\ Upwork \in Object /\ Upwork.del = work.del /\ Upwork.fin = work.fin
        /\ Upwork.pid /\ Upwork.running = "True"
    <2>1. LET r == [work EXCEPT !.running = "True"]
          IN  /\ r \in Object /\ r.del = work.del /\ r.fin = work.fin
              /\ r.running = "True"
      BY <1>0, RunningFacts, Zenon
    <2> QED
      BY <2>1, UpFacts, Zenon
  <1>7. /\ Down(work) \in Object /\ Down(work).del = work.del
        /\ Down(work).fin = work.fin /\ Down(work).pid = work.pid
        /\ Down(work).running = work.running /\ Down(work).addr = work.addr
        /\ ~Down(work).ready
    BY <1>0, DownFacts
  <1> HIDE DEF Lostwork, Stopwork, Upwork
  <1>8. /\ work' \in Object /\ work'.del = work.del /\ work'.fin = work.fin
        /\ work.pid => work'.pid
    BY <1>0, <1>2, <1>4, <1>5, <1>6, <1>7
  <1>9. pc' \in {"patchStatusConditions", "CreateMachine", "StartMachine",
                 "GetMachineAddress"}
    BY <1>2
  <1>10. TypeOK' /\ CacheInv' /\ SnapshotInv' /\ WorkInv'
    BY <1>0, <1>1, <1>3, <1>8, <1>9, OwnerFacts, CallFrame DEF CallSteps, PatchSteps, Steps
  <1>11. VolumeInv'
    BY <1>0, <1>8, <1>9, VolumeFrame DEF Steps
  <1>12. LostInv'
    <2> SUFFICES ASSUME ~redefined' PROVE LostFacts'
      BY DEF LostInv
    <2>0. LostFacts
      BY <1>0 DEF IInv, LostInv, owner
    <2>1. /\ NotFound(obj)' <=> NotFound(obj)
          /\ NotFound(before)' <=> NotFound(before)
          /\ Live(cached)' <=> Live(cached)
          /\ Live(before)' <=> Live(before)
          /\ UNCHANGED <<obj, cached, before, dom>>
      BY <1>0 DEF NotFound, Live, Exists, api
    <2>2. NotFound(obj) => /\ dom = "missing" /\ obj.pid
                           /\ (Live(cached) => cached.pid)
                           /\ before.pid
      BY <1>0, <1>1, <2>0 DEF LostFacts
    <2>3. NotFound(obj) =>
            /\ pc' = "patchStatusConditions"
            /\ work' \in {Lostwork, Down(work), work}
      BY <1>1, <1>2, <2>2
    <2>4. work' \in {Lostwork, Down(work), work} => NoNews'
      BY <1>0, <1>1, <1>4, <1>7, <2>1 DEF NoNews
    <2>5. (NotFound(work)' /\ ~NotFound(before)) =>
            pc' = "patchStatusConditions" /\ dom = "missing" /\ work.pid
              /\ work' = Lostwork
      BY <1>0, <1>1, <1>2, <1>5, <1>6, <1>7, StatusAssumption DEF NotFound, Exists
    <2> QED
      BY <1>1, <2>1, <2>2, <2>3, <2>4, <2>5 DEF LostFacts, PatchSteps
  <1> QED
    BY <1>10, <1>11, <1>12 DEF IInv
-----------------------------------------------------------------------------
(* The deferred patch.                                                     *)

\* A write keeps a deletion and a provider ID, and touches the finalizer only
\* as the reconcile did.
LEMMA WriteInv ==
  ASSUME IInv, pc \in PatchSteps, Exists(obj), NEW o \in Object,
         o.del = obj.del, obj.pid => o.pid, Write(o), UNCHANGED cached,
         o.fin = obj.fin \/ (o.fin = work.fin /\ work.fin # before.fin),
         pc' = "idle" \/ (pc' \in PatchSteps /\ UNCHANGED before)
  PROVE  /\ CacheInv' /\ SnapshotInv'
         /\ obj' \in Object \cup {NoObj} /\ pending' \in BOOLEAN
         /\ Exists(obj') => obj' = o
         /\ ~Exists(obj') => o.del /\ ~o.fin
  <1>0. /\ obj \in Object /\ before \in Object /\ work \in Object
        /\ o # NoObj /\ pc # "idle" /\ pending \in BOOLEAN
        /\ obj' = IF o.del /\ ~o.fin THEN NoObj ELSE o
        /\ cached \in Object \cup {NoObj}
    BY StatusAssumption DEF IInv, TypeOK, Exists, Write, PatchSteps
  <1>1. pending' \in BOOLEAN
    BY <1>0 DEF Write
  <1>2. /\ before.fin \in BOOLEAN /\ work.fin \in BOOLEAN /\ obj.fin \in BOOLEAN
        /\ before.del \in BOOLEAN /\ o.del \in BOOLEAN /\ o.fin \in BOOLEAN
    BY <1>0 DEF Object
  <1>3. /\ (before.fin /\ ~work.fin) => before.del
        /\ (~before.fin /\ work.fin) => ~before.del
    BY <1>0 DEF IInv, WorkInv
  <1>4. /\ HeldByFinalizer(before) /\ Backs(before)
        /\ before.del => ~Live(obj) /\ ~Live(cached)
        /\ (~before.fin /\ Exists(cached) /\ cached.del)
             => Exists(obj) /\ obj.del
        /\ (Live(before) /\ before.pid /\ Live(cached)) => cached.pid
    BY <1>0 DEF IInv, SnapshotInv
  <1>5. HeldByFinalizer(obj)'
    BY <1>0 DEF HeldByFinalizer, Exists
  <1>6. ASSUME NEW c \in Object, Backs(c), Live(c), ~before.del \/ o.fin = obj.fin
        PROVE  Exists(obj') /\ obj'.fin /\ (c.pid => obj'.pid)
    <2>1. obj.fin /\ (c.pid => obj.pid)
      BY <1>6 DEF Backs, Held
    <2>2. o.fin
      BY <1>2, <1>3, <1>6, <2>1, Zenon
    <2> QED
      BY <1>0, <2>1, <2>2 DEF Exists
  <1>7. Backs(cached)'
    <2>1. SUFFICES ASSUME Live(cached) PROVE Held' /\ (cached.pid => obj'.pid)
      BY DEF Backs, Live, Exists
    <2>2. ~before.del
      BY <1>4, <2>1
    <2>3. cached \in Object /\ Backs(cached)
      BY <1>0, <2>1 DEF Live, Exists, IInv, CacheInv
    <2> QED
      BY <1>6, <2>1, <2>2, <2>3 DEF Held, Exists
  <1>8. (Exists(cached) /\ cached.del) => ~Live(obj')
    <2>1. SUFFICES ASSUME Exists(cached), cached.del, Live(obj') PROVE FALSE
      OBVIOUS
    <2>2. o.fin /\ ~o.del /\ ~Live(obj)
      BY <1>0, <2>1 DEF Live, Exists, IInv, CacheInv
    <2>3. ~before.fin
      BY <1>2, <2>2, Zenon DEF Live
    <2> QED
      BY <1>4, <2>1, <2>2, <2>3
  <1>9. CacheInv'
    BY <1>5, <1>7, <1>8 DEF CacheInv, HeldByFinalizer, Live, Exists, IInv
  <1>10. SnapshotInv'
    <2>1. CASE pc' = "idle"
      BY <2>1 DEF SnapshotInv
    <2>2. CASE pc' \in PatchSteps /\ UNCHANGED before
      <3>1. Backs(before)'
        <4>1. SUFFICES ASSUME Live(before) PROVE Held' /\ (before.pid => obj'.pid)
          BY <2>2 DEF Backs, Live, Exists
        <4> QED
          BY <1>0, <1>4, <1>6, <4>1 DEF Live, Held, Exists
      <3>2. before.del => ~Live(obj')
        <4>1. SUFFICES ASSUME before.del, Live(obj') PROVE FALSE
          OBVIOUS
        <4>2. o.fin /\ ~o.del /\ ~Live(obj)
          BY <1>0, <1>4, <4>1 DEF Live, Exists
        <4> QED
          BY <1>2, <1>3, <4>1, <4>2, Zenon DEF Live
      <3>3. (~before.fin /\ Exists(cached) /\ cached.del)
               => Exists(obj') /\ obj'.del
        <4>1. SUFFICES ASSUME ~before.fin, Exists(cached), cached.del
                       PROVE  Exists(obj') /\ obj'.del
          OBVIOUS
        <4>2. obj.del /\ obj.fin
          BY <1>4, <4>1 DEF IInv, CacheInv, HeldByFinalizer
        <4>3. o.fin
          BY <1>2, <4>1, <4>2, Zenon
        <4> QED
          BY <1>0, <4>2, <4>3, Zenon DEF Exists
      <3> QED
        BY <1>4, <2>2, <3>1, <3>2, <3>3
        DEF SnapshotInv, HeldByFinalizer, Live, Exists, CallSteps, PatchSteps
    <2> QED
      BY <2>1, <2>2
  <1> QED
    BY <1>0, <1>1, <1>9, <1>10 DEF Exists

\* A part of the patch that writes nothing.
LEMMA NoWriteInv ==
  ASSUME IInv, pc \in PatchSteps, UNCHANGED <<obj, cached, pending>>,
         pc' = "idle" \/ (pc' \in PatchSteps /\ UNCHANGED before)
  PROVE  CacheInv' /\ SnapshotInv'
  <1>1. CacheInv'
    BY CacheFrame DEF IInv, api
  <1>2. pc # "idle"
    BY DEF PatchSteps
  <1>3. SnapshotInv'
    BY <1>2 DEF IInv, SnapshotInv, HeldByFinalizer, Backs, Live, Held, Exists,
       CallSteps, PatchSteps
  <1> QED
    BY <1>1, <1>3

\* What every part of the patch leaves alone.
LEMMA PatchFacts ==
  ASSUME IInv, pc \in PatchSteps
  PROVE  /\ pc # "idle" /\ before \in Object /\ work \in Object
         /\ obj \in Object \cup {NoObj} /\ pending \in BOOLEAN
         /\ queued \in BOOLEAN /\ requeue \in BOOLEAN
         /\ before.fin \in BOOLEAN /\ work.fin \in BOOLEAN
         /\ before.pid \in BOOLEAN /\ work.pid \in BOOLEAN
         /\ work.ready \in BOOLEAN /\ before.ready \in BOOLEAN
         /\ before.pid => work.pid
         /\ work.running \in {"none", "True", "DomainNotRunning", "DomainNotFound"}
  <1>1. pc # "idle"
    BY DEF PatchSteps
  <1>2. before \in Object /\ work \in Object
    BY <1>1 DEF IInv, TypeOK
  <1> QED
    BY <1>1, <1>2 DEF IInv, TypeOK, WorkInv, Object

LEMMA ConditionsInv ==
  ASSUME IInv, patchStatusConditions
  PROVE  IInv'
  <1>0. /\ pc = "patchStatusConditions" /\ pc \in PatchSteps /\ pc' = "patch"
        /\ UNCHANGED <<cached, queued, owner, before, work, config, host>>
        /\ requeue' \in BOOLEAN
        /\ Disturb \/ Steady
    BY DEF patchStatusConditions, PatchPart, PatchSteps, IInv, TypeOK
  <1> DEFINE o == [obj EXCEPT !.running = work.running]
  <1>1. \/ UNCHANGED <<obj, pending>>
        \/ Exists(obj) /\ Write(o) /\ work.running # before.running
    BY DEF patchStatusConditions, PatchPart
  <1>2. Exists(obj) =>
           /\ o \in Object /\ o.del = obj.del /\ o.fin = obj.fin /\ o.pid = obj.pid
           /\ o.running = work.running
    <2>1. SUFFICES ASSUME Exists(obj)
                   PROVE  /\ o \in Object /\ o.del = obj.del /\ o.fin = obj.fin
                          /\ o.pid = obj.pid /\ o.running = work.running
      OBVIOUS
    <2>2. obj \in Object
      BY <1>0, <2>1, PatchFacts DEF Exists
    <2>3. work.running \in {"none", "True", "DomainNotRunning", "DomainNotFound"}
      BY <1>0, PatchFacts
    <2> QED
      BY <2>2, <2>3, RunningFacts, ZenonT(60)
  <1> HIDE DEF o
  <1>3. /\ CacheInv' /\ SnapshotInv'
        /\ obj' \in Object \cup {NoObj} /\ pending' \in BOOLEAN
        /\ Held' <=> Held
        /\ UNCHANGED obj \/ (/\ Exists(obj') => obj' = o
                             /\ work.running # before.running)
    <2>1. CASE UNCHANGED <<obj, pending>>
      BY <1>0, <2>1, PatchFacts, NoWriteInv DEF Held, Exists, PatchSteps
    <2>2. CASE Exists(obj) /\ Write(o) /\ work.running # before.running
      <3>1. /\ CacheInv' /\ SnapshotInv'
            /\ obj' \in Object \cup {NoObj} /\ pending' \in BOOLEAN
            /\ Exists(obj') => obj' = o
            /\ ~Exists(obj') => o.del /\ ~o.fin
        BY <1>0, <1>2, <2>2, WriteInv DEF PatchSteps
      <3>2. Held' <=> Exists(obj') /\ obj'.fin
        BY DEF Held, Exists
      <3> QED
        BY <1>2, <2>2, <3>1, <3>2 DEF Held
    <2> QED
      BY <1>1, <2>1, <2>2
  <1>4. TypeOK'
    BY <1>0, <1>3, PatchFacts, FaultFacts DEF IInv, TypeOK, owner, host, Steps
  <1>5. WorkInv'
    BY <1>0, PatchFacts DEF IInv, WorkInv, Live, Exists, CallSteps, PatchSteps
  <1>6. VolumeInv'
    BY <1>0, <1>3 DEF IInv, VolumeInv, Excused, owner, host, CallSteps, PatchSteps
  <1>7. LostInv'
    <2> SUFFICES ASSUME ~redefined' PROVE LostFacts'
      BY DEF LostInv
    <2>0. LostFacts
      BY <1>0 DEF IInv, LostInv, owner
    <2>1. /\ NotFound(work)' <=> NotFound(work)
          /\ NotFound(before)' <=> NotFound(before)
          /\ Live(before)' <=> Live(before)
          /\ Live(cached)' <=> Live(cached)
          /\ NoNews' <=> NoNews
          /\ UNCHANGED <<dom, cached, before>>
      BY <1>0 DEF NotFound, Live, NoNews, Exists, host
    <2>2. (NotFound(work) /\ ~NotFound(before)) =>
             NoNews /\ dom = "missing" /\ Live(before) /\ before.pid
      BY <1>0, <2>0, PatchFacts DEF LostFacts
    <2>3. CASE UNCHANGED obj
      <3>1. NotFound(obj)' <=> NotFound(obj)
        BY <2>3 DEF NotFound, Exists
      <3> QED
        BY <1>0, <2>0, <2>1, <2>2, <2>3, <3>1, PatchFacts DEF LostFacts, PatchSteps
    <2>4. CASE /\ Exists(obj') => obj' = o
               /\ work.running # before.running
      <3>1. SUFFICES ASSUME NotFound(obj)'
                     PROVE  /\ dom = "missing" /\ obj'.pid
                            /\ Live(cached) => cached.pid
                            /\ NoNews /\ (Live(before) => before.pid)
        BY <1>0, <2>1, <2>2 DEF LostFacts, PatchSteps
      <3>2. Exists(obj') /\ obj' = o /\ obj'.running = "DomainNotFound"
        BY <2>4, <3>1 DEF NotFound, Exists
      <3>3. o \in Object
        BY <1>3, <3>2 DEF Exists
      <3>4. Exists(obj)
        BY <1>0, <1>1, <3>2 DEF Exists
      <3>5. work.running = "DomainNotFound"
        BY <1>2, <3>2, <3>4
      <3>6. NotFound(work) /\ ~NotFound(before)
        BY <1>0, <2>4, <3>5, PatchFacts, StatusAssumption DEF NotFound, Exists
      <3>7. SnapshotInv' /\ pc' # "idle"
        BY <1>0, <1>3
      <3>8. obj'.pid /\ (Live(cached) => cached.pid)
        BY <2>1, <2>2, <3>6, <3>7 DEF SnapshotInv, Backs
      <3> QED
        BY <2>2, <3>6, <3>8
    <2> QED
      BY <1>3, <2>3, <2>4
  <1> QED
    BY <1>3, <1>4, <1>5, <1>6, <1>7 DEF IInv

\* The finalizer goes only when the volumes are gone, or the pool was edited.
LEMMA PatchInv ==
  ASSUME IInv, patch
  PROVE  IInv'
  <1>0. /\ pc = "patch" /\ pc \in PatchSteps /\ pc' = "patchStatus"
        /\ UNCHANGED <<cached, queued, owner, before, work, config, host>>
        /\ requeue' \in BOOLEAN
        /\ Disturb \/ Steady
    BY DEF patch, PatchPart, PatchSteps, IInv, TypeOK
  <1>1. UNCHANGED <<obj, pending>> \/ (Exists(obj) /\ Write(SpecMerged))
    BY DEF patch, PatchPart, SpecMerged
  <1>2. ASSUME Exists(obj), Write(SpecMerged)
        PROVE  /\ SpecMerged \in Object /\ SpecMerged.del = obj.del
               /\ SpecMerged.running = obj.running
               /\ obj.pid => SpecMerged.pid
               /\ \/ SpecMerged.fin = obj.fin
                  \/ SpecMerged.fin = work.fin /\ work.fin # before.fin
    <2>1. obj \in Object /\ before \in Object /\ work \in Object
      BY <1>0, <1>2, PatchFacts DEF Exists
    <2> QED
      BY <1>0, <2>1, SpecFacts, PatchFacts DEF Merge
  <1>3. /\ CacheInv' /\ SnapshotInv'
        /\ obj' \in Object \cup {NoObj} /\ pending' \in BOOLEAN
        /\ Held /\ ~Held' => before.fin /\ ~work.fin
        /\ NotFound(obj)' => /\ NotFound(obj)
                             /\ obj.pid => obj'.pid
    <2>1. CASE UNCHANGED <<obj, pending>>
      BY <1>0, <2>1, PatchFacts, NoWriteInv DEF Held, NotFound, Exists, PatchSteps
    <2>2. CASE Exists(obj) /\ Write(SpecMerged)
      <3>1. /\ CacheInv' /\ SnapshotInv'
            /\ obj' \in Object \cup {NoObj} /\ pending' \in BOOLEAN
            /\ Exists(obj') => obj' = SpecMerged
            /\ ~Exists(obj') => SpecMerged.del /\ ~SpecMerged.fin
        BY <1>0, <1>2, <2>2, WriteInv DEF PatchSteps
      <3>2. /\ Held' <=> Exists(obj') /\ obj'.fin
            /\ NotFound(obj)' <=> Exists(obj') /\ obj'.running = "DomainNotFound"
        BY DEF Held, NotFound, Exists
      <3>3. Held /\ ~Held' => before.fin /\ ~work.fin
        BY <1>0, <1>2, <2>2, <3>1, <3>2, PatchFacts, Zenon DEF Held
      <3> QED
        BY <1>2, <2>2, <3>1, <3>2, <3>3 DEF NotFound
    <2> QED
      BY <1>1, <2>1, <2>2
  <1>4. TypeOK'
    BY <1>0, <1>3, PatchFacts, FaultFacts DEF IInv, TypeOK, owner, host, Steps
  <1>5. WorkInv'
    BY <1>0, PatchFacts DEF IInv, WorkInv, Live, Exists, CallSteps, PatchSteps
  <1>6. VolumeInv'
    BY <1>0, <1>3, SMTT(30) DEF IInv, VolumeInv, Excused, owner, host, CallSteps, PatchSteps
  <1>7. LostInv'
    <2> SUFFICES ASSUME ~redefined' PROVE LostFacts'
      BY DEF LostInv
    <2>0. LostFacts
      BY <1>0 DEF IInv, LostInv, owner
    <2>1. /\ NotFound(work)' <=> NotFound(work)
          /\ NotFound(before)' <=> NotFound(before)
          /\ Live(before)' <=> Live(before)
          /\ Live(cached)' <=> Live(cached)
          /\ NoNews' <=> NoNews
          /\ UNCHANGED <<dom, cached, before>>
      BY <1>0 DEF NotFound, Live, NoNews, Exists, host
    <2> QED
      BY <1>0, <1>3, <2>0, <2>1, PatchFacts DEF LostFacts, PatchSteps
  <1> QED
    BY <1>3, <1>4, <1>5, <1>6, <1>7 DEF IInv

LEMMA PatchStatusInv ==
  ASSUME IInv, patchStatus
  PROVE  IInv'
  <1>0. /\ pc = "patchStatus" /\ pc \in PatchSteps /\ pc' = "idle"
        /\ before' = NoObj /\ work' = NoObj /\ requeue' \in BOOLEAN
        /\ UNCHANGED <<cached, owner, config, host>>
        /\ Disturb \/ Steady
    BY Zenon DEF patchStatus, Forget, PatchPart, PatchSteps, IInv, TypeOK
  <1>1. UNCHANGED <<obj, pending>> \/ (Exists(obj) /\ Write(StatusMerged))
    BY DEF patchStatus, PatchPart, StatusMerged
  <1>2. queued' \in BOOLEAN
    BY DEF patchStatus, IInv, TypeOK
  <1>3. ASSUME Exists(obj), Write(StatusMerged)
        PROVE  /\ StatusMerged \in Object /\ StatusMerged.del = obj.del
               /\ StatusMerged.running = obj.running
               /\ StatusMerged.pid = obj.pid /\ StatusMerged.fin = obj.fin
    <2>1. obj \in Object /\ before \in Object /\ work \in Object
      BY <1>0, <1>3, PatchFacts DEF Exists
    <2> QED
      BY <2>1, StatusFacts
  <1>4. /\ CacheInv' /\ SnapshotInv'
        /\ obj' \in Object \cup {NoObj} /\ pending' \in BOOLEAN
        /\ Held' <=> Held
        /\ NotFound(obj)' => NotFound(obj) /\ obj'.pid = obj.pid
    <2>1. CASE UNCHANGED <<obj, pending>>
      BY <1>0, <2>1, PatchFacts, NoWriteInv DEF Held, NotFound, Exists, PatchSteps
    <2>2. CASE Exists(obj) /\ Write(StatusMerged)
      <3>1. /\ CacheInv' /\ SnapshotInv'
            /\ obj' \in Object \cup {NoObj} /\ pending' \in BOOLEAN
            /\ Exists(obj') => obj' = StatusMerged
            /\ ~Exists(obj') => StatusMerged.del /\ ~StatusMerged.fin
        BY <1>0, <1>3, <2>2, WriteInv DEF PatchSteps
      <3>2. /\ Held' <=> Exists(obj') /\ obj'.fin
            /\ NotFound(obj)' <=> Exists(obj') /\ obj'.running = "DomainNotFound"
        BY DEF Held, NotFound, Exists
      <3> QED
        BY <1>3, <2>2, <3>1, <3>2 DEF Held, NotFound
    <2> QED
      BY <1>1, <2>1, <2>2
  <1>5. TypeOK'
    BY <1>0, <1>2, <1>4, FaultFacts DEF IInv, TypeOK, owner, host, Steps
  <1>6. WorkInv'
    BY <1>0 DEF WorkInv
  <1>7. VolumeInv'
    BY <1>0, <1>4, SMTT(30) DEF IInv, VolumeInv, Excused, owner, host, CallSteps, Steps
  <1>8. LostInv'
    <2> SUFFICES ASSUME ~redefined' PROVE LostFacts'
      BY DEF LostInv
    <2>0. LostFacts
      BY <1>0 DEF IInv, LostInv, owner
    <2>1. /\ Live(cached)' <=> Live(cached)
          /\ UNCHANGED <<dom, cached>>
      BY <1>0 DEF Live, Exists, host
    <2> QED
      BY <1>0, <1>4, <2>0, <2>1 DEF LostFacts
  <1> QED
    BY <1>4, <1>5, <1>6, <1>7, <1>8 DEF IInv
-----------------------------------------------------------------------------
(* The manager, the API server and the host.                               *)

\* Requests, pauses, prerequisites, leases and faults matter to no invariant
\* but TypeOK.
LEMMA QuietInv ==
  ASSUME IInv, UNCHANGED <<api, pc, local, dom, volumes>>,
         UNCHANGED <<pool, edited, overlooked, redefined>>,
         queued' \in BOOLEAN, paused' \in BOOLEAN, reachable' \in BOOLEAN,
         lease' \in Leases \cup {NoLease}, Disturb \/ Steady
  PROVE  IInv'
  <1>1. TypeOK'
    BY FaultFacts DEF IInv, TypeOK, api, local
  <1>2. CacheInv'
    BY CacheFrame, SMTT(30) DEF IInv
  <1>3. SnapshotInv'
    BY DEF IInv, SnapshotInv, HeldByFinalizer, Backs, Live, Held, Exists, api, local
  <1>4. WorkInv'
    BY DEF IInv, WorkInv, Live, Exists, local
  <1>5. VolumeInv'
    BY SMTT(30) DEF IInv, VolumeInv, Excused, Held, Exists, api, local
  <1>6. LostInv'
    <2> SUFFICES ASSUME ~redefined' PROVE LostFacts'
      BY DEF LostInv
    <2>0. LostFacts
      BY DEF IInv, LostInv, owner
    <2> QED
      BY <2>0 DEF LostFacts, NotFound, NoNews, Live, Exists, api, local
  <1> QED
    BY <1>1, <1>2, <1>3, <1>4, <1>5, <1>6 DEF IInv

LEMMA QuietSteps ==
  ASSUME IInv, ReconcileGone \/ MachineEvent \/ PauseOrUnpause
                 \/ PrerequisitesChange \/ HostChangesLease \/ UNCHANGED vars
  PROVE  IInv'
  <1>0. TypeOK
    BY DEF IInv
  <1>1. /\ UNCHANGED <<api, pc, local, dom, volumes>>
        /\ UNCHANGED <<pool, edited, overlooked, redefined>>
    BY DEF ReconcileGone, MachineEvent, PauseOrUnpause, PrerequisitesChange,
       HostChangesLease, vars, owner, host
  <1>2. Disturb \/ Steady
    BY DEF ReconcileGone, MachineEvent, PauseOrUnpause, PrerequisitesChange,
       HostChangesLease, vars, Steady
  <1>3. queued' \in BOOLEAN /\ paused' \in BOOLEAN /\ reachable' \in BOOLEAN
    BY <1>0, Zenon DEF TypeOK, ReconcileGone, MachineEvent, PauseOrUnpause,
       PrerequisitesChange, HostChangesLease, vars, owner
  <1>4. lease' \in Leases \cup {NoLease}
    BY <1>0 DEF TypeOK, ReconcileGone, MachineEvent, PauseOrUnpause,
       PrerequisitesChange, HostChangesLease, vars, host
  <1> QED
    BY <1>1, <1>2, <1>3, <1>4, QuietInv

\* The cache takes the object over, which the snapshot is never ahead of.
LEMMA WatchEventInv ==
  ASSUME IInv, WatchEvent
  PROVE  IInv'
  <1>0. /\ cached' = obj /\ pending' = FALSE /\ queued' = TRUE
        /\ UNCHANGED <<obj, owner, pc, local, host, faults>>
    BY DEF WatchEvent
  <1>1. TypeOK'
    BY <1>0, Zenon DEF IInv, TypeOK, owner, local, host
  <1>2. CacheInv'
    BY <1>0, SMTT(30) DEF IInv, CacheInv, HeldByFinalizer, Backs, Live, Held, Exists
  <1>3. SnapshotInv'
    BY <1>0 DEF IInv, SnapshotInv, HeldByFinalizer, Backs, Live, Held, Exists, local
  <1>4. WorkInv'
    BY <1>0 DEF IInv, WorkInv, Live, Exists, local
  <1>5. VolumeInv'
    BY <1>0, SMTT(30) DEF IInv, VolumeInv, Excused, Held, Exists, owner, local, host
  <1>6. LostInv'
    <2> SUFFICES ASSUME ~redefined' PROVE LostFacts'
      BY DEF LostInv
    <2>0. LostFacts
      BY <1>0 DEF IInv, LostInv, owner
    <2> QED
      BY <1>0, <2>0 DEF LostFacts, NotFound, NoNews, Live, Exists, local, host
  <1> QED
    BY <1>1, <1>2, <1>3, <1>4, <1>5, <1>6 DEF IInv

LEMMA CrashInv ==
  ASSUME IInv, Crash
  PROVE  IInv'
  <1>0. /\ pc' = "idle" /\ before' = NoObj /\ work' = NoObj /\ requeue' = FALSE
        /\ cached' = obj /\ pending' = FALSE /\ queued' \in BOOLEAN
        /\ UNCHANGED <<obj, owner, config, host>>
        /\ Disturb \/ Steady
    BY DEF Crash, Forget, Exists
  <1>1. TypeOK'
    BY <1>0, FaultFacts, Zenon DEF IInv, TypeOK, owner, host
  <1>2. CacheInv'
    BY <1>0 DEF IInv, CacheInv, HeldByFinalizer, Backs, Live, Held, Exists
  <1>3. SnapshotInv' /\ WorkInv'
    BY <1>0 DEF SnapshotInv, WorkInv
  <1>4. VolumeInv'
    BY <1>0 DEF IInv, VolumeInv, Excused, Held, Exists, owner, host, CallSteps, Steps
  <1>5. LostInv'
    <2> SUFFICES ASSUME ~redefined' PROVE LostFacts'
      BY DEF LostInv
    <2>0. LostFacts
      BY <1>0 DEF IInv, LostInv, owner
    <2> QED
      BY <1>0, <2>0 DEF LostFacts, NotFound, Live, Exists, host
  <1> QED
    BY <1>1, <1>2, <1>3, <1>4, <1>5 DEF IInv

\* A new object is not held, and nothing older is backed by the lack of one.
LEMMA CreateObjectInv ==
  ASSUME IInv, CreateObject
  PROVE  IInv'
  <1>0. /\ ~Exists(obj) /\ obj' = NewObject /\ pending' = TRUE
        /\ edited' = (edited /\ volumes # {})
        /\ overlooked' = (overlooked /\ volumes # {})
        /\ UNCHANGED <<cached, queued, paused, reachable, pool, pc, local, host>>
        /\ UNCHANGED redefined
        /\ Disturb \/ Steady
    BY SMTT(30) DEF CreateObject
  <1>1. /\ obj' \in Object /\ ~obj'.fin /\ ~obj'.del /\ obj'.running = "none"
    BY <1>0, NewFacts, Zenon
  <1>2. ~Held /\ ~Held'
    BY <1>0, <1>1 DEF Held
  <1>3. TypeOK'
    BY <1>0, <1>1, FaultFacts DEF IInv, TypeOK, local, host
  <1>4. CacheInv'
    BY <1>0, <1>1, <1>2, SMTT(30) DEF IInv, CacheInv, HeldByFinalizer, Backs, Live, Exists
  <1>5. SnapshotInv'
    BY <1>0, <1>1, <1>2, SMTT(30) DEF IInv, SnapshotInv, HeldByFinalizer, Backs, Live,
       Exists, local
  <1>6. WorkInv'
    BY <1>0 DEF IInv, WorkInv, Live, Exists, local
  <1>7. VolumeInv'
    <2>1. (Excused /\ volumes # {}) => Excused'
      BY <1>0 DEF Excused
    <2>2. UNCHANGED <<pc, config, before, work, volumes, pool>>
      BY <1>0 DEF local, host
    <2>3. ~Excused => volumes = {}
      BY <1>2 DEF IInv, VolumeInv
    <2>4. CASE volumes = {}
      BY <1>2, <2>2, <2>4 DEF VolumeInv
    <2>5. CASE volumes # {}
      BY <2>1, <2>3, <2>5 DEF VolumeInv
    <2> QED
      BY <2>4, <2>5
  <1>8. LostInv'
    <2> SUFFICES ASSUME ~redefined' PROVE LostFacts'
      BY DEF LostInv
    <2>0. LostFacts
      BY <1>0 DEF IInv, LostInv, owner
    <2>1. /\ ~NotFound(obj)'
          /\ NotFound(work)' <=> NotFound(work)
          /\ NotFound(before)' <=> NotFound(before)
          /\ Live(before)' <=> Live(before)
          /\ NoNews' <=> NoNews
          /\ UNCHANGED <<dom, pc, before>>
      BY <1>0, <1>1 DEF NotFound, Live, NoNews, Exists, local, host
    <2> QED
      BY <2>0, <2>1 DEF LostFacts
  <1> QED
    BY <1>3, <1>4, <1>5, <1>6, <1>7, <1>8 DEF IInv

\* The finalizer keeps a deleted object; without it nothing is backed.
LEMMA DeleteObjectInv ==
  ASSUME IInv, DeleteObject
  PROVE  IInv'
  <1> DEFINE d == [obj EXCEPT !.del = TRUE]
  <1>0. /\ Exists(obj) /\ ~obj.del /\ obj \in Object
        /\ obj' = IF obj.fin THEN d ELSE NoObj
        /\ pending' = TRUE
        /\ UNCHANGED <<cached, queued, owner, pc, local, host>>
        /\ Disturb \/ Steady
    BY DEF DeleteObject, IInv, TypeOK, Exists
  <1>1. /\ d \in Object /\ d.del = TRUE /\ d.fin = obj.fin /\ d.pid = obj.pid
        /\ d.running = obj.running
    BY <1>0, FinFacts, Zenon
  <1>2. d # NoObj
    BY <1>1, StatusAssumption, Zenon
  <1> HIDE DEF d
  <1>3. /\ Held' <=> Held
        /\ Held => /\ Exists(obj') /\ obj'.del /\ obj'.fin
                   /\ obj'.pid = obj.pid /\ obj'.running = obj.running
        /\ ~Held => ~Exists(obj')
    BY <1>0, <1>1, <1>2, SMTT(30) DEF Held, Exists
  <1>4. TypeOK'
    BY <1>0, <1>1, FaultFacts DEF IInv, TypeOK, owner, local, host
  <1>5. CacheInv'
    BY <1>0, <1>3, SMTT(30) DEF IInv, CacheInv, HeldByFinalizer, Backs, Live, Exists
  <1>6. SnapshotInv'
    BY <1>0, <1>3, SMTT(30) DEF IInv, SnapshotInv, HeldByFinalizer, Backs, Live, Exists, local
  <1>7. WorkInv'
    BY <1>0 DEF IInv, WorkInv, Live, Exists, local
  <1>8. VolumeInv'
    BY <1>0, <1>3 DEF IInv, VolumeInv, Excused, owner, local, host
  <1>9. LostInv'
    <2> SUFFICES ASSUME ~redefined' PROVE LostFacts'
      BY DEF LostInv
    <2>0. LostFacts
      BY <1>0 DEF IInv, LostInv, owner
    <2>1. /\ NotFound(obj)' => NotFound(obj) /\ obj'.pid = obj.pid
          /\ NotFound(work)' <=> NotFound(work)
          /\ NotFound(before)' <=> NotFound(before)
          /\ Live(before)' <=> Live(before)
          /\ Live(cached)' <=> Live(cached)
          /\ NoNews' <=> NoNews
          /\ UNCHANGED <<dom, pc, before, cached>>
      BY <1>0, <1>3 DEF NotFound, Live, NoNews, Exists, local, host
    <2> QED
      BY <2>0, <2>1 DEF LostFacts
  <1> QED
    BY <1>4, <1>5, <1>6, <1>7, <1>8, <1>9 DEF IInv

\* The moved object keeps the finalizer and the provider ID.
LEMMA MoveInv ==
  ASSUME IInv, Move
  PROVE  IInv'
  <1>0. /\ pc = "idle" /\ Exists(obj) /\ ~obj.del /\ obj \in Object
        /\ obj' = [NewObject EXCEPT !.fin = obj.fin, !.pid = TRUE]
        /\ cached' = obj' /\ pending' = FALSE /\ queued' = TRUE
        /\ UNCHANGED <<owner, pc, local, host>>
        /\ Disturb \/ Steady
    BY DEF Move, IInv, TypeOK, Exists
  <1>1. obj.fin \in BOOLEAN
    BY <1>0, SMTT(30) DEF Object
  <1>2. /\ obj' \in Object /\ obj'.fin = obj.fin /\ obj'.pid /\ ~obj'.del
        /\ obj'.running = "none"
    BY <1>0, <1>1, NewFacts, Zenon
  <1>3. Held' <=> Held
    BY <1>0, <1>2, StatusAssumption DEF Held, Exists
  <1>4. TypeOK'
    BY <1>0, <1>2, FaultFacts, Zenon DEF IInv, TypeOK, owner, local, host
  <1>5. CacheInv'
    BY <1>0, <1>2 DEF CacheInv, HeldByFinalizer, Backs, Live, Held, Exists
  <1>6. SnapshotInv' /\ WorkInv'
    BY <1>0 DEF SnapshotInv, WorkInv
  <1>7. VolumeInv'
    BY <1>0, <1>3 DEF IInv, VolumeInv, Excused, owner, local, host
  <1>8. LostInv'
    <2> SUFFICES ASSUME ~redefined' PROVE LostFacts'
      BY DEF LostInv
    <2>0. LostFacts
      BY <1>0 DEF IInv, LostInv, owner
    <2> QED
      BY <1>0, <1>2, <2>0 DEF LostFacts, NotFound, Exists
  <1> QED
    BY <1>4, <1>5, <1>6, <1>7, <1>8 DEF IInv

\* The pool of a held machine is edited, or nobody holds volumes.
LEMMA EditInv ==
  ASSUME IInv, EditLibvirtCluster
  PROVE  IInv'
  <1>0. /\ pool' \in Pools /\ edited' = (edited \/ Held)
        /\ UNCHANGED <<api, queued, paused, reachable, pc, local, host>>
        /\ UNCHANGED <<overlooked, redefined>>
        /\ Disturb \/ Steady
    BY DEF EditLibvirtCluster
  <1>1. TypeOK'
    BY <1>0, FaultFacts DEF IInv, TypeOK, Held, Exists, api, local, host
  <1>2. CacheInv'
    BY <1>0, CacheFrame, SMTT(30) DEF IInv
  <1>3. SnapshotInv'
    BY <1>0 DEF IInv, SnapshotInv, HeldByFinalizer, Backs, Live, Held, Exists,
       api, local
  <1>4. WorkInv'
    BY <1>0 DEF IInv, WorkInv, Live, Exists, local
  <1>5. VolumeInv'
    <2>1. Held' <=> Held
      BY <1>0, SMTT(30) DEF Held, Exists, api
    <2> QED
      BY <1>0, <2>1, Zenon DEF IInv, VolumeInv, Excused, local, host
  <1>6. LostInv'
    <2> SUFFICES ASSUME ~redefined' PROVE LostFacts'
      BY DEF LostInv
    <2>0. LostFacts
      BY <1>0 DEF IInv, LostInv, owner
    <2> QED
      BY <1>0, <2>0 DEF LostFacts, NotFound, NoNews, Live, Exists, api, local, host
  <1> QED
    BY <1>1, <1>2, <1>3, <1>4, <1>5, <1>6 DEF IInv

\* A domain that is there belongs to no machine that is reported lost, unless
\* it was defined anew.
LEMMA HostChangesDomainInv ==
  ASSUME IInv, HostChangesDomain
  PROVE  IInv'
  <1>0. /\ redefined' = (redefined \/ dom = "missing") /\ dom' \in DomainStates
        /\ UNCHANGED <<api, queued, pc, local, volumes, lease>>
        /\ UNCHANGED <<paused, reachable, pool, edited, overlooked>>
        /\ Disturb \/ Steady
    BY SMTT(30) DEF HostChangesDomain
  <1>1. TypeOK'
    BY <1>0, FaultFacts DEF IInv, TypeOK, api, local
  <1>2. CacheInv'
    BY <1>0, CacheFrame, SMTT(30) DEF IInv
  <1>3. SnapshotInv'
    BY <1>0 DEF IInv, SnapshotInv, HeldByFinalizer, Backs, Live, Held, Exists,
       api, local
  <1>4. WorkInv'
    BY <1>0 DEF IInv, WorkInv, Live, Exists, local
  <1>5. VolumeInv'
    BY <1>0 DEF IInv, VolumeInv, Excused, Held, Exists, api, local
  <1>6. LostInv'
    <2> SUFFICES ASSUME ~redefined' PROVE LostFacts'
      BY DEF LostInv
    <2>0. LostFacts /\ dom # "missing"
      BY <1>0 DEF IInv, LostInv
    <2> QED
      BY <1>0, <2>0 DEF LostFacts, NotFound, Exists, api, local
  <1> QED
    BY <1>1, <1>2, <1>3, <1>4, <1>5, <1>6 DEF IInv

-----------------------------------------------------------------------------
(* The theorems.                                                           *)

LEMMA InvInit == Init => IInv
  <1> SUFFICES ASSUME Init PROVE IInv
    OBVIOUS
  <1>1. /\ obj \in Object /\ ~obj.fin /\ ~obj.del /\ obj.running = "none"
        /\ cached = NoObj /\ pc = "idle" /\ volumes = {} /\ dom = "missing"
    BY NewFacts, Zenon DEF Init
  <1>2. TypeOK
    <2>1. faults \in 0..MaxFaults
      BY StatusAssumption DEF Init
    <2>2. /\ cached \in Object \cup {NoObj} /\ pending \in BOOLEAN
          /\ queued \in BOOLEAN /\ paused \in BOOLEAN /\ reachable \in BOOLEAN
          /\ pool \in Pools /\ before = NoObj /\ work = NoObj
          /\ edited \in BOOLEAN /\ overlooked \in BOOLEAN /\ redefined \in BOOLEAN
          /\ requeue \in BOOLEAN /\ config \in Pools
          /\ lease \in Leases \cup {NoLease}
      BY Zenon DEF Init
    <2>3. dom \in DomainStates /\ volumes \subseteq Pools
      BY <1>1, SMTT(30) DEF DomainStates
    <2> QED
      BY <1>1, <2>1, <2>2, <2>3 DEF TypeOK
  <1>3. CacheInv /\ SnapshotInv /\ WorkInv
    BY <1>1 DEF CacheInv, SnapshotInv, WorkInv, HeldByFinalizer, Backs, Live, Exists
  <1>4. VolumeInv
    BY <1>1 DEF VolumeInv, Excused, CallSteps, Steps
  <1>5. LostInv
    BY <1>1 DEF LostInv, LostFacts, NotFound
  <1> QED
    BY <1>2, <1>3, <1>4, <1>5 DEF IInv

LEMMA InvStep == IInv /\ [Next]_vars => IInv'
  BY QuietSteps, ReconcileInv, GetMachineStateInv, CreateMachineInv,
     StartMachineInv, ObserveInv, DeleteMachineInv, ConditionsInv, PatchInv,
     PatchStatusInv, WatchEventInv, CrashInv, CreateObjectInv, DeleteObjectInv,
     MoveInv, EditInv, HostChangesDomainInv
  DEF Next, Reconciler, Environment

\* IInv is an invariant of the status reconciler.
THEOREM Invariance == Spec => []IInv
  BY InvInit, InvStep, PTL DEF Spec

\* Every variable keeps its type, and a reconcile in flight always has the
\* snapshot and the copy that the deferred patch compares.
THEOREM AlwaysTyped == Spec => []TypeOK
  <1>1. IInv => TypeOK
    BY DEF IInv
  <1> QED
    BY <1>1, Invariance, PTL

\* reconcileDelete and newMachineConfig: whichever call or write fails, and
\* whether the manager crashes or the object is moved, an object that is gone or
\* without the finalizer leaves no volume behind unless the pool was edited
\* while the machine was held, or deleteVolume did not find it.
THEOREM VolumesAlwaysReclaimed == Spec => []VolumesReclaimed
  <1>1. IInv => VolumesReclaimed
    BY DEF IInv, VolumeInv, Excused, VolumesReclaimed
  <1> QED
    BY <1>1, Invariance, PTL

\* A write of the status by a reconcile that brings no news keeps a lost
\* machine out of service.
LEMMA PatchStatusKeepsLost ==
  ASSUME IInv, ~redefined, patchStatus, Lost(obj), Exists(obj')
  PROVE  ~obj'.ready /\ obj'.addr = NoLease
  <1>1. /\ obj \in Object /\ before \in Object /\ work \in Object /\ NoNews
    BY DEF IInv, TypeOK, LostInv, LostFacts, NotFound, Lost, Exists, patchStatus
  <1>2. UNCHANGED obj \/ Write(StatusMerged)
    BY DEF patchStatus, PatchPart, StatusMerged
  <1>3. CASE UNCHANGED obj
    BY <1>3 DEF Lost
  <1>4. CASE Write(StatusMerged)
    <2>1. obj' = StatusMerged
      BY <1>4 DEF Write, Exists
    <2>2. /\ StatusMerged.ready = Merge(before.ready, work.ready, obj.ready)
          /\ StatusMerged.addr = Merge(before.addr, work.addr, obj.addr)
      BY <1>1, StatusFacts
    <2>3. before.ready \in BOOLEAN /\ work.ready \in BOOLEAN
      BY <1>1 DEF Object
    <2> QED
      BY <1>1, <2>1, <2>2, <2>3 DEF NoNews, Merge, Lost
  <1> QED
    BY <1>2, <1>3, <1>4

\* The other writes do not touch readiness and addresses.
LEMMA WritesKeepLost ==
  ASSUME IInv, patchStatusConditions \/ patch \/ DeleteObject \/ Move,
         Lost(obj), Exists(obj')
  PROVE  ~obj'.ready /\ obj'.addr = NoLease
  <1>1. obj \in Object
    BY DEF IInv, TypeOK, Lost, Exists
  <1>2. CASE patchStatusConditions
    <2>1. pc \in PatchSteps
      BY <1>2 DEF patchStatusConditions, PatchSteps
    <2>2. work.running \in {"none", "True", "DomainNotRunning", "DomainNotFound"}
      BY <2>1, PatchFacts
    <2>3. \/ UNCHANGED obj
          \/ obj' = [obj EXCEPT !.running = work.running]
      BY <1>2 DEF patchStatusConditions, PatchPart, Write, Exists
    <2>4. LET r == [obj EXCEPT !.running = work.running]
          IN  r.ready = obj.ready /\ r.addr = obj.addr
      BY <1>1, <2>2, RunningFacts, SMTT(30)
    <2> QED
      BY <2>3, <2>4, Zenon DEF Lost
  <1>3. CASE patch
    <2>1. before \in Object /\ work \in Object
      BY <1>3 DEF patch, IInv, TypeOK
    <2>2. UNCHANGED obj \/ obj' = SpecMerged
      BY <1>3 DEF patch, PatchPart, SpecMerged, Write, Exists
    <2> QED
      BY <1>1, <2>1, <2>2, SpecFacts DEF Lost
  <1>4. CASE DeleteObject
    <2>1. obj' = [obj EXCEPT !.del = TRUE]
      BY <1>4 DEF DeleteObject, Exists
    <2> QED
      BY <1>1, <2>1, FinFacts DEF Lost
  <1>5. CASE Move
    BY <1>5 DEF Move, NewObject
  <1> QED
    BY <1>2, <1>3, <1>4, <1>5

\* reconcileLostDomain: no step of the reconciler, its manager, its users or
\* the host, and no stale cache, brings a machine that is reported lost back
\* into service, as long as nobody defines its domain anew.
THEOREM LostAlwaysStaysLost == Spec => LostStaysLost
  <1>1. ASSUME IInv, [Next]_vars, ~redefined, Lost(obj), Exists(obj')
        PROVE  ~obj'.ready /\ obj'.addr = NoLease
    <2>1. \/ patchStatusConditions \/ patch \/ patchStatus \/ DeleteObject \/ Move
          \/ UNCHANGED obj
      BY <1>1, Zenon DEF Next, Reconciler, Environment, vars, api, Lost, WatchEvent,
         ReconcileGone, Unreachable, ReconcileDelete, ReconcilePaused,
         AddFinalizer, AwaitInfrastructure, ReconcileNormal, newMachineConfig,
         GetMachineState, CreateMachine, StartMachine, observeMachineAddress,
         DeleteMachine, MachineEvent, Crash, CreateObject, PauseOrUnpause,
         PrerequisitesChange, EditLibvirtCluster, HostChangesDomain,
         HostChangesLease
    <2>2. CASE UNCHANGED obj
      BY <1>1, <2>2 DEF Lost
    <2> QED
      BY <1>1, <2>1, <2>2, PatchStatusKeepsLost, WritesKeepLost
  <1>2. IInv /\ [Next]_vars =>
          [~redefined /\ Lost(obj) /\ Exists(obj')
             => ~obj'.ready /\ obj'.addr = NoLease]_vars
    BY <1>1
  <1> QED
    BY <1>2, Invariance, PTL DEF Spec, LostStaysLost
-----------------------------------------------------------------------------
(* No lost wake-up.                                                        *)

\* A call of the Provider that goes on, or ends with an error, a requeue or a
\* change of the finalizer or the provider ID.
LEMMA WakeFrame ==
  ASSUME WakeInv, pc # "idle", UNCHANGED <<api, queued, paused, before>>,
         \/ pc' \in CallSteps /\ (pc' = "CreateMachine" => ~before.pid)
         \/ /\ pc' = "patchStatusConditions"
            /\ requeue' \/ work'.fin # before.fin \/ work'.pid # before.pid
  PROVE  WakeInv'
  <1>1. pc' # "idle" /\ pc' \notin {"patch", "patchStatus"}
    BY DEF CallSteps, PatchSteps, Steps
  <1>2. pc' \in CallSteps => pc' # "patchStatusConditions"
    BY DEF CallSteps, PatchSteps
  <1> QED
    BY <1>1, <1>2 DEF WakeInv, NoLostWakeup, api

\* The calls of the Provider.
LEMMA CallWake ==
  ASSUME IInv, WakeInv,
         \/ GetMachineState \/ CreateMachine \/ StartMachine
         \/ observeMachineAddress \/ DeleteMachine
  PROVE  WakeInv'
  <1>0. /\ pc # "idle" /\ pc \in CallSteps
        /\ UNCHANGED <<api, queued, paused, before>>
        /\ before \in Object /\ work \in Object /\ work.fin = before.fin
    <2>1. pc \in CallSteps /\ UNCHANGED <<api, queued, paused, before>>
      BY Zenon DEF GetMachineState, CreateMachine, StartMachine, observeMachineAddress,
         DeleteMachine, CallSteps, PatchSteps, Steps, owner
    <2>2. pc # "idle"
      BY <2>1 DEF CallSteps, Steps
    <2> QED
      BY <2>1, <2>2 DEF IInv, TypeOK, WorkInv
  <1>1. CASE GetMachineState
    <2>1. work = before
      BY <1>0, <1>1 DEF GetMachineState, IInv, WorkInv
    <2>2. \/ pc' \in {"StartMachine", "GetMachineAddress"}
          \/ pc' = "CreateMachine" /\ ~work.pid
          \/ pc' = "patchStatusConditions" /\ requeue'
      BY <1>1 DEF GetMachineState, DomainMissing, reconcileLostDomain,
         DomainStopped, DomainRunning, DomainUnknown, Fail, Finish, Call
    <2> QED
      BY <1>0, <2>1, <2>2, WakeFrame DEF CallSteps, PatchSteps, Steps
  <1>2. CASE CreateMachine
    <2>1. /\ pc' = "patchStatusConditions"
          /\ requeue' \/ work' = Up(work)
      BY <1>2 DEF CreateMachine, Fail, Finish
    <2>2. ~before.pid
      BY <1>2 DEF CreateMachine, WakeInv
    <2>3. Up(work).pid
      BY <1>0, UpFacts
    <2> QED
      BY <1>0, <2>1, <2>2, <2>3, WakeFrame
  <1>3. CASE StartMachine \/ observeMachineAddress
    <2>1. pc' = "patchStatusConditions" /\ requeue'
      BY <1>3 DEF StartMachine, observeMachineAddress, Fail, Finish
    <2> QED
      BY <1>0, <2>1, WakeFrame
  <1>4. CASE DeleteMachine
    <2>1. /\ pc' = "patchStatusConditions"
          /\ \/ requeue'
             \/ work' = [work EXCEPT !.fin = FALSE] /\ requeue' = ~work.fin
      BY <1>4 DEF DeleteMachine, reconcileDeleted, Fail, Finish
    <2>2. LET f == [work EXCEPT !.fin = FALSE]
          IN  f.fin = FALSE
      BY <1>0, FinFacts
    <2>3. requeue' \/ work'.fin # before.fin
      BY <1>0, <2>1, <2>2, Zenon
    <2> QED
      BY <1>0, <2>1, <2>3, WakeFrame
  <1> QED
    BY <1>1, <1>2, <1>3, <1>4

\* The start of a reconcile, and its returns before the first call.
LEMMA BeginWake ==
  ASSUME IInv, WakeInv,
         \/ Unreachable \/ ReconcileDelete \/ ReconcilePaused \/ AddFinalizer
         \/ AwaitInfrastructure \/ ReconcileNormal
  PROVE  WakeInv'
  <1>1. /\ newMachineConfig /\ cached \in Object
        /\ before' = cached /\ UNCHANGED <<api, paused>>
    BY Zenon DEF Unreachable, ReconcileDelete, ReconcilePaused, AddFinalizer,
       AwaitInfrastructure, ReconcileNormal, newMachineConfig, Exists, IInv,
       TypeOK, owner
  <1>2. \/ pc' \in {"GetMachineState", "DeleteMachine"}
        \/ pc' = "patchStatusConditions" /\ requeue'
        \/ pc' = "patchStatusConditions" /\ paused /\ ~cached.del
        \/ /\ pc' = "patchStatusConditions" /\ ~cached.fin
           /\ work' = Down([cached EXCEPT !.fin = TRUE])
    BY DEF Unreachable, ReconcileDelete, ReconcilePaused, AddFinalizer,
       AwaitInfrastructure, ReconcileNormal, Finish, Call
  <1>3. Down([cached EXCEPT !.fin = TRUE]).fin
    <2>1. LET f == [cached EXCEPT !.fin = TRUE]
          IN  f \in Object /\ f.fin = TRUE
      BY <1>1, FinFacts, Zenon
    <2> QED
      BY <2>1, DownFacts, Zenon
  <1>4. \/ pc' \in {"GetMachineState", "DeleteMachine"}
        \/ /\ pc' = "patchStatusConditions"
           /\ \/ requeue' \/ (paused' /\ ~before'.del)
              \/ work'.fin # before'.fin
    BY <1>1, <1>2, <1>3
  <1> QED
    BY <1>1, <1>4 DEF WakeInv, NoLostWakeup, api

\* A write either changes the object, and its event is to come, or does not.
LEMMA PatchWake ==
  ASSUME IInv, WakeInv, patchStatusConditions \/ patch \/ patchStatus
  PROVE  WakeInv'
  <1>1. /\ pc \in PatchSteps /\ pc # "idle" /\ before \in Object /\ work \in Object
        /\ UNCHANGED <<cached, paused>>
    <2>1. pc \in PatchSteps /\ UNCHANGED <<cached, paused>>
      BY Zenon DEF patchStatusConditions, patch, patchStatus, PatchSteps, owner
    <2> QED
      BY <2>1 DEF IInv, TypeOK, PatchSteps
  <1>2. (obj' # obj => pending') /\ (pending => pending')
    <2>1. \/ obj' = obj /\ pending' = pending
          \/ pending' = (pending \/ obj' # obj)
      BY Zenon DEF patchStatusConditions, patch, patchStatus, PatchPart, Write
    <2>2. CASE obj' = obj /\ pending' = pending
      BY <2>2, Zenon
    <2>3. CASE pending' = (pending \/ obj' # obj)
      BY <2>3, Zenon
    <2> QED
      BY <2>1, <2>2, <2>3, Zenon
  <1>3. ~pending' => cached' = obj'
    BY <1>1, <1>2 DEF WakeInv
  <1>4. CASE patchStatusConditions
    <2>1. /\ pc = "patchStatusConditions" /\ pc' = "patch"
          /\ UNCHANGED <<queued, before, work>> /\ (requeue => requeue')
      BY <1>4, Zenon DEF patchStatusConditions
    <2> QED
      BY <1>1, <1>2, <1>3, <2>1 DEF WakeInv, NoLostWakeup
  <1>5. CASE patch
    <2>1. /\ pc = "patch" /\ pc' = "patchStatus"
          /\ UNCHANGED <<queued, before, work>> /\ (requeue => requeue')
      BY <1>5, Zenon DEF patch
    <2>2. ASSUME ~requeue', ~pending', ~queued
          PROVE  paused /\ ~before.del
      <3>1. ~requeue /\ ~pending /\ obj = before
        BY <1>1, <1>2, <2>1, <2>2 DEF WakeInv
      <3>2. CASE work.fin # before.fin \/ work.pid # before.pid
        <4>1. obj' = IF SpecMerged.del /\ ~SpecMerged.fin THEN NoObj
                     ELSE SpecMerged
          BY <1>5, <2>2, <3>2 DEF patch, PatchPart, Write, SpecMerged
        <4>2. SpecMerged # obj
          <5>1. /\ SpecMerged.fin = Merge(before.fin, work.fin, obj.fin)
                /\ SpecMerged.pid = Merge(before.pid, work.pid, obj.pid)
            BY <1>1, <3>1, SpecFacts
          <5> QED
            BY <3>1, <3>2, <5>1 DEF Merge
        <4>3. obj # NoObj
          BY <1>1, <3>1, StatusAssumption
        <4> QED
          BY <1>2, <2>2, <4>1, <4>2, <4>3
      <3> QED
        BY <2>1, <2>2, <3>1, <3>2 DEF WakeInv
    <2> QED
      BY <1>1, <1>2, <1>3, <2>1, <2>2 DEF WakeInv, NoLostWakeup
  <1>6. CASE patchStatus
    <2>1. /\ pc = "patchStatus" /\ pc' = "idle"
          /\ (queued => queued') /\ (requeue => queued')
      BY <1>6, Zenon DEF patchStatus, Forget
    <2>2. ASSUME ~queued', ~pending', ~paused \/ obj'.del
          PROVE  FALSE
      <3>1. ~requeue /\ ~queued /\ ~pending /\ obj' = obj /\ obj = before
        BY <1>1, <1>2, <2>1, <2>2 DEF WakeInv
      <3> QED
        BY <1>1, <2>1, <2>2, <3>1 DEF WakeInv
    <2> QED
      BY <1>1, <1>3, <2>1, <2>2 DEF WakeInv, NoLostWakeup
  <1> QED
    BY <1>4, <1>5, <1>6

\* Every step keeps a reason for another reconcile, whatever fails.
LEMMA WakeStep == IInv /\ WakeInv /\ [Next]_vars => WakeInv'
  <1> SUFFICES ASSUME IInv, WakeInv, [Next]_vars
               PROVE  WakeInv'
    OBVIOUS
  <1>1. CASE ReconcileGone
    BY <1>1 DEF WakeInv, NoLostWakeup, ReconcileGone, Exists, api, local, owner
  <1>2. CASE WatchEvent \/ MachineEvent \/ Crash
    BY <1>2, Zenon DEF WakeInv, NoLostWakeup, WatchEvent, MachineEvent, Crash,
       Forget, api, local, owner
  <1>3. CASE CreateObject \/ DeleteObject \/ Move
    BY <1>3, ZenonT(30) DEF WakeInv, NoLostWakeup, CreateObject, DeleteObject, Move,
       local, owner
  <1>4. CASE PauseOrUnpause
    <2>1. /\ UNCHANGED <<api, pc, local>> /\ paused' = ~paused
          /\ (queued => queued') /\ (paused => queued')
      BY <1>4, Zenon DEF PauseOrUnpause
    <2> QED
      BY <2>1 DEF WakeInv, NoLostWakeup, api, local
  <1>5. CASE \/ PrerequisitesChange \/ EditLibvirtCluster \/ HostChangesDomain
             \/ HostChangesLease \/ UNCHANGED vars
    BY <1>5, Zenon DEF WakeInv, NoLostWakeup, PrerequisitesChange, EditLibvirtCluster,
       HostChangesDomain, HostChangesLease, vars, api, local, owner
  <1> QED
    BY <1>1, <1>2, <1>3, <1>4, <1>5, BeginWake, CallWake, PatchWake
    DEF Next, Reconciler, Environment

\* The returns of Reconcile and the three writes of its patch: an object that
\* is not paused, or is being deleted, never waits for an event that does not
\* come, whichever of the writes fails.
THEOREM WakeupNeverLost == Spec => []NoLostWakeup
  <1>1. Init => WakeInv
    BY DEF Init, WakeInv, NoLostWakeup
  <1>2. WakeInv => NoLostWakeup
    BY DEF WakeInv
  <1> QED
    BY <1>1, <1>2, Invariance, WakeStep, PTL DEF Spec
=============================================================================
