------------------------ MODULE LibvirtMachineProofs ------------------------
(***************************************************************************)
(* Proofs about module LibvirtMachine, for every set of UIDs.              *)
(*                                                                         *)
(* The safety properties are not inductive: that nothing is orphaned       *)
(* depends on what the cache and the reconcile in flight may still believe *)
(* about the object.  The argument in one sentence: a cached or            *)
(* snapshotted object that carries the finalizer and is not being deleted  *)
(* proves that the finalizer is in the API server, and one that is being   *)
(* deleted proves that no live object has taken its place.                 *)
(*                                                                         *)
(* This much (ApiInv) holds with every fault of the host; so do LeftInv    *)
(* and WakeInv.  IInv is for a host that neither fails in IsActive nor     *)
(* starts a domain behind the back of deleteDomain.                        *)
(***************************************************************************)
EXTENDS LibvirtMachine, TLAPS

-----------------------------------------------------------------------------
(* The inductive invariant.                                                *)

\* An object that is being deleted is kept by the finalizer.
HeldByFinalizer(o) == (o # NoObj /\ o.del) => o.fin

\* The object in the API server still backs the older version o of it.
Backs(o) == Live(o) => /\ obj # NoObj /\ obj.fin
                       /\ domainUUID(obj) = domainUUID(o)

CacheInv ==
    /\ HeldByFinalizer(obj)
    /\ HeldByFinalizer(cached)
    /\ ~pending => cached = obj
    /\ Backs(cached)
    /\ (cached # NoObj /\ cached.del) => ~Live(obj)

\* What the snapshot of the reconcile in flight still guarantees.
SnapshotInv ==
    pc # "idle" =>
      /\ HeldByFinalizer(before)
      /\ Backs(before)
      /\ before.del => ~Live(obj) /\ ~Live(cached)
      /\ (~before.fin /\ cached # NoObj /\ cached.del)
            => obj # NoObj /\ obj.del
      /\ pc \in DeleteSteps => before.del
      /\ pc \notin DeleteSteps \cup {"Patch"} => before.fin /\ ~before.del

\* How far the copy that the reconcile changes is from the snapshot.
WorkInv ==
    pc # "idle" =>
      /\ work.uid = before.uid /\ work.del = before.del
      /\ pc # "Patch" => work = before
      /\ work.pid # before.pid
            => Live(before) /\ before.pid = None /\ work.pid = before.uid
      /\ (before.fin /\ ~work.fin) => before.del
      /\ (~before.fin /\ work.fin) => ~before.del

\* deleteVolume finds the pool of every volume it is to delete.
PoolsStay == "poolGone" \notin Faults

\* What deletion leaves on the host: nothing, or volumes of a pool it missed.
Cleared == dom = NoDom /\ ~resv /\ (PoolsStay => ~disk /\ iso = "absent")

\* How far CreateMachine and DeleteMachine have got on the host.
HostInv ==
    /\ pc \in CreateSteps \ {"createRootDisk"} => disk
    /\ pc \in {"storageVolUpload", "reserveMachineIP", "DomainDefineXML",
               "SetAutostart", "Create"} => iso # "absent"
    /\ pc \in {"DomainDefineXML", "SetAutostart", "Create"} => resv
    /\ dom # NoDom => dom.persistent
    /\ pc = "Undefine" => ~IsActive(dom)
    /\ pc \in {"deleteRootDisk", "deleteISODisk", "releaseMachineReservation"}
         => dom = NoDom
    /\ (PoolsStay /\ pc \in {"deleteISODisk", "releaseMachineReservation"})
         => ~disk
    /\ (PoolsStay /\ pc = "releaseMachineReservation") => iso = "absent"
    /\ (pc = "Patch" /\ before.fin /\ ~work.fin) => Cleared

\* Without an object that has the finalizer, deletion has cleared the host.
ClearedInv == (obj = NoObj \/ (obj # NoObj /\ ~obj.fin)) => Cleared

\* The domain, and a cloud-init ISO that no deletion overlooked, have the identity
\* of the object in the API server.
IdentityInv ==
    obj # NoObj => /\ dom # NoDom => dom.uuid = domainUUID(obj)
                   /\ (PoolsStay /\ iso \in UIDs) => iso = domainUUID(obj)

\* What holds of the object and its copies, whatever the host does.
ApiInv == TypeOK /\ CacheInv /\ SnapshotInv /\ WorkInv

IInv == /\ TypeOK /\ CacheInv /\ SnapshotInv /\ WorkInv
        /\ HostInv /\ ClearedInv /\ DomainBacked /\ IdentityInv

\* The steps of DeleteMachine after the domain.
VolumeSteps == {"deleteRootDisk", "deleteISODisk", "releaseMachineReservation"}

\* A domain that is left goes away when it stops.
Unpersistent == dom # NoDom => ~dom.persistent

\* What deletion has made sure of before it goes on, with every fault.
LeftInv ==
    /\ LeftoverIsTransient
    /\ pc \in VolumeSteps => Unpersistent
    /\ (pc = "Patch" /\ before.fin /\ ~work.fin) => ~resv /\ Unpersistent

\* Why a reconcile that ends without a requeue is not the last one.
WakeInv ==
    /\ ~pending => cached = obj
    /\ (pc # "idle" /\ ~pending /\ ~queued) => before = cached
    /\ (pc = "Patch" /\ ~requeue /\ work = before) =>
         queued \/ (paused /\ ~before.del)
    /\ pc # "idle" => work.uid = before.uid /\ work.del = before.del
    /\ pc \notin {"idle", "Patch"} => work = before
    /\ pc \in CreateSteps => before.pid = None
    /\ NoLostWakeup
-----------------------------------------------------------------------------
(* Type correctness.                                                       *)

\* The operators on objects stay within their type.
LEMMA ObjectFacts ==
  /\ \A o \in Object : domainUUID(o) \in UIDs /\ setProviderID(o) \in Object
  /\ \A o \in Object : \A b \in BOOLEAN :
       [o EXCEPT !.fin = b] \in Object /\ [o EXCEPT !.del = b] \in Object
  /\ \A u \in UIDs : NewObject(u) \in Object
  /\ \A o \in Object : \A u \in UIDs :
       [NewObject(u) EXCEPT !.fin = TRUE, !.pid = o.pid] \in Object
  BY Zenon DEF Object, domainUUID, setProviderID, NewObject

\* The operators on domains stay within their type.
LEMMA DomainFacts ==
  /\ \A u \in UIDs : [uuid |-> u, auto |-> FALSE, persistent |-> TRUE,
                      state |-> "SHUTOFF"] \in Domain
  /\ \A d \in Domain : /\ Stopped(d) \in Domain \cup {NoDom}
                       /\ [d EXCEPT !.auto = TRUE] \in Domain
                       /\ [d EXCEPT !.persistent = FALSE] \in Domain
                       /\ [d EXCEPT !.state = "RUNNING"] \in Domain
                       /\ \A s \in {"RUNNING", "SHUTDOWN", "PAUSED"} :
                            [d EXCEPT !.state = s] \in Domain
  BY Zenon DEF Domain, Stopped

\* The object that Patch stores has the type of objects.
LEMMA MergedType ==
  ASSUME obj \in Object, before \in Object, work \in Object
  PROVE  Merged \in Object
  BY ZenonT(60) DEF Object, Merged, Merge

\* Every step of the reconciler, the manager, the users and the host keeps
\* the types.
LEMMA TypeStep == TypeOK /\ [Next]_vars => TypeOK'
  <1> SUFFICES ASSUME TypeOK, [Next]_vars PROVE TypeOK'
    OBVIOUS
  <1> USE DEF TypeOK, api, local, host
  <1>1. CASE ReconcileGone
    BY <1>1, Zenon DEF ReconcileGone
  <1>2. CASE ReconcileDelete
    BY <1>2, Zenon DEF ReconcileDelete, Begin, Steps, DeleteSteps
  <1>3. CASE ReconcilePaused
    BY <1>3, Zenon DEF ReconcilePaused, Begin, Finish, Steps
  <1>4. CASE AddFinalizer
    BY <1>4, ObjectFacts, Zenon DEF AddFinalizer, Begin, Finish, Steps
  <1>5. CASE AwaitInfrastructure
    BY <1>5, Zenon DEF AwaitInfrastructure, Begin, Finish, Steps
  <1>6. CASE ReconcileNormal
    BY <1>6, ZenonT(60) DEF ReconcileNormal, Begin, Steps
  <1>7. CASE GetMachineState
    <2>1. pc' \in Steps /\ pc' # "idle" /\ work' \in Object
      BY <1>7, ObjectFacts, Zenon
      DEF GetMachineState, DomainMissing, reconcileLostDomain,
        getCloudInitDataFails, observeMachineAddress, DomainStopped, DomainRunning,
          DomainUnknown, Goto, Flaky, Fail, Finish, Steps, CreateSteps
    <2>2. requeue' \in BOOLEAN
      BY <1>7, Zenon DEF GetMachineState, DomainMissing, reconcileLostDomain,
        getCloudInitDataFails, observeMachineAddress, DomainStopped, DomainRunning,
               DomainUnknown, Goto, Flaky, Fail, Finish
    <2> QED
      BY <1>7, <2>1, <2>2 DEF GetMachineState
  <1>8. CASE StartMachine
    BY <1>8, ObjectFacts, DomainFacts, ZenonT(60)
      DEF StartMachine, CanStart, IsActive, Flaky, Fail, Finish, Steps
  <1>9. CASE createRootDisk
    BY <1>9, ZenonT(60) DEF createRootDisk, Goto, Flaky, Fail, Finish, Steps, CreateSteps
  <1>10. CASE createISODisk
    <2>1. iso' \in IsoStates
      BY <1>10 DEF createISODisk, writeCloudInitISOFails, IsoStates
    <2>2. pc' \in Steps /\ pc' # "idle" /\ work' \in Object
      BY <1>10
        DEF createISODisk, writeCloudInitISOFails, Goto, Flaky, Fail, Finish, Steps, CreateSteps, DeleteSteps
    <2>3. requeue' \in BOOLEAN
      BY <1>10, Zenon DEF createISODisk, writeCloudInitISOFails, Goto, Flaky, Fail, Finish
    <2> QED
      BY <1>10, <2>1, <2>2, <2>3 DEF createISODisk, writeCloudInitISOFails
  <1>11. CASE storageVolUpload
    <2>1. iso' \in IsoStates
      BY <1>11, ObjectFacts, Zenon DEF storageVolUpload, instanceID, IsoStates
    <2>2. pc' \in Steps /\ pc' # "idle" /\ work' \in Object
      BY <1>11 DEF storageVolUpload, Goto, Flaky, Fail, Finish, Steps, CreateSteps, DeleteSteps
    <2>3. requeue' \in BOOLEAN
      BY <1>11, Zenon DEF storageVolUpload, Goto, Flaky, Fail, Finish
    <2> QED
      BY <1>11, <2>1, <2>2, <2>3 DEF storageVolUpload
  <1>12. CASE reserveMachineIP
    BY <1>12, ZenonT(60) DEF reserveMachineIP, Goto, Flaky, Fail, Finish, Steps, CreateSteps
  <1>13. CASE DomainDefineXML
    <2>1. dom' \in Domain \cup {NoDom}
      BY <1>13, ObjectFacts, DomainFacts, Zenon DEF DomainDefineXML
    <2>2. pc' \in Steps /\ pc' # "idle" /\ work' \in Object
      BY <1>13 DEF DomainDefineXML, Goto, Flaky, Fail, Finish, Steps, CreateSteps
    <2>3. requeue' \in BOOLEAN
      BY <1>13, Zenon DEF DomainDefineXML, Goto, Flaky, Fail, Finish
    <2> QED
      BY <1>13, <2>1, <2>2, <2>3 DEF DomainDefineXML
  <1>14. CASE SetAutostart
    <2>1. dom' \in Domain \cup {NoDom}
      BY <1>14, ObjectFacts, DomainFacts, Zenon DEF SetAutostart
    <2>2. pc' \in Steps /\ pc' # "idle" /\ work' \in Object
      BY <1>14 DEF SetAutostart, Goto, Flaky, Fail, Finish, Steps, CreateSteps
    <2>3. requeue' \in BOOLEAN
      BY <1>14, Zenon DEF SetAutostart, Goto, Flaky, Fail, Finish
    <2> QED
      BY <1>14, <2>1, <2>2, <2>3 DEF SetAutostart
  <1>15. CASE Create
    BY <1>15, ObjectFacts, DomainFacts, ZenonT(60)
      DEF Create, CanStart, IsActive, Flaky, Fail, Finish, Steps
  <1>16. CASE deleteDomain
    <2>1. pc' \in Steps /\ pc' # "idle" /\ work' \in Object
      BY <1>16 DEF deleteDomain, Goto, Flaky, Fail, Finish, Steps, DeleteSteps
    <2>2. requeue' \in BOOLEAN
      BY <1>16, Zenon DEF deleteDomain, Goto, Flaky, Fail, Finish
    <2> QED
      BY <1>16, <2>1, <2>2 DEF deleteDomain
  <1>17. CASE Destroy
    BY <1>17, DomainFacts, ZenonT(60)
      DEF Destroy, IsActive, Goto, Flaky, Fail, Finish, Steps, DeleteSteps
  <1>18. CASE Undefine
    BY <1>18, DomainFacts, ZenonT(60)
      DEF Undefine, CanUndefine, IsActive, Goto, Flaky, Fail, Finish, Steps, DeleteSteps
  <1>19. CASE deleteRootDisk
    <2>1. disk' \in BOOLEAN
      BY <1>19, Zenon DEF deleteRootDisk
    <2>2. pc' \in Steps /\ pc' # "idle" /\ work' \in Object
      BY <1>19 DEF deleteRootDisk, Goto, Flaky, Fail, Finish, Steps, CreateSteps, DeleteSteps
    <2>3. requeue' \in BOOLEAN
      BY <1>19, Zenon DEF deleteRootDisk, Goto, Flaky, Fail, Finish
    <2> QED
      BY <1>19, <2>1, <2>2, <2>3 DEF deleteRootDisk
  <1>20. CASE deleteISODisk
    <2>1. iso' \in IsoStates
      BY <1>20 DEF deleteISODisk, IsoStates
    <2>2. pc' \in Steps /\ pc' # "idle" /\ work' \in Object
      BY <1>20 DEF deleteISODisk, Goto, Flaky, Fail, Finish, Steps, CreateSteps, DeleteSteps
    <2>3. requeue' \in BOOLEAN
      BY <1>20, Zenon DEF deleteISODisk, Goto, Flaky, Fail, Finish
    <2> QED
      BY <1>20, <2>1, <2>2, <2>3 DEF deleteISODisk
  <1>21. CASE releaseMachineReservation
    BY <1>21, ObjectFacts, ZenonT(60) DEF releaseMachineReservation, Flaky, Fail, Finish, Steps
  <1>22. CASE Patch
    BY <1>22, MergedType, ZenonT(60) DEF Patch, Stored, Accepted
  <1>23. CASE WatchEvent
    BY <1>23, Zenon DEF WatchEvent
  <1>24. CASE ShutdownCompletes
    BY <1>24, DomainFacts, ZenonT(60) DEF ShutdownCompletes
  <1>25. CASE Crash
    BY <1>25, Zenon DEF Crash
  <1>26. CASE CreateObject
    BY <1>26, ObjectFacts, ZenonT(60) DEF CreateObject
  <1>27. CASE DeleteObject
    BY <1>27, ObjectFacts, Zenon DEF DeleteObject, Stored
  <1>28. CASE Pause
    BY <1>28 DEF Pause
  <1>29. CASE Unpause
    BY <1>29, ZenonT(60) DEF Unpause
  <1>30. CASE Move
    <2>1. PICK u \in UIDs :
            obj' = [NewObject(u) EXCEPT !.fin = TRUE, !.pid = obj.pid]
      BY <1>30, Zenon DEF Move
    <2>2. obj \in Object
      BY <1>30, SMTT(30) DEF Move
    <2>3. obj' \in Object
      BY <2>1, <2>2, ObjectFacts, Zenon
    <2> QED
      BY <1>30, <2>3, Zenon DEF Move
  <1>31. CASE HostChangesState
    <2>1. dom' \in Domain
      BY <1>31, DomainFacts, Zenon DEF HostChangesState
    <2> QED
      BY <1>31, <2>1 DEF HostChangesState
  <1>32. CASE HostStops
    BY <1>32, DomainFacts, ZenonT(60) DEF HostStops, IsActive
  <1>33. CASE HostRemoves
    BY <1>33 DEF HostRemoves
  <1>34. CASE Calm
    BY <1>34 DEF Calm
  <1>35. CASE UNCHANGED vars
    BY <1>35 DEF vars
  <1>36. CASE MachineEvent
    BY <1>36 DEF MachineEvent
  <1> QED
    BY <1>1, <1>2, <1>3, <1>4, <1>5, <1>6, <1>7, <1>8, <1>9, <1>10, <1>11, ZenonT(60),
       <1>12, <1>13, <1>14, <1>15, <1>16, <1>17, <1>18, <1>19, <1>20,
       <1>21, <1>22, <1>23, <1>24, <1>25, <1>26, <1>27, <1>28, <1>29,
       <1>30, <1>31, <1>32, <1>33, <1>34, <1>35, <1>36
    DEF Next, Reconciler, Environment

\* The initial state has the types.
LEMMA TypeInit == Init => TypeOK
  BY Zenon DEF Init, TypeOK, IsoStates

\* The state of the object, cache, queue, reconcile and host is well typed.
THEOREM TypeCorrect == Spec => []TypeOK
  BY TypeInit, TypeStep, PTL DEF Spec
-----------------------------------------------------------------------------
(* The object and its copies in the cache and in the reconcile, with every *)
(* fault of the host.                                                      *)

\* The initial state satisfies the invariant.
LEMMA ApiInit == Init => ApiInv
  BY TypeInit DEF Init, ApiInv, CacheInv, SnapshotInv, WorkInv, HeldByFinalizer,
     Backs, Live, CreateSteps, DeleteSteps

\* setProviderID changes the provider ID only, and only when it is unset.
LEMMA SetProviderID ==
  ASSUME NEW o \in Object
  PROVE  LET q == setProviderID(o)
         IN  /\ q.uid = o.uid /\ q.del = o.del /\ q.fin = o.fin
             /\ q.pid # o.pid => o.pid = None /\ q.pid = o.uid
  BY DEF Object, setProviderID, domainUUID

\* A step that touches neither the object nor the cache.
LEMMA CacheFrame ==
  ASSUME CacheInv, UNCHANGED api
  PROVE  CacheInv'
  BY DEF CacheInv, HeldByFinalizer, Backs, Live, domainUUID, api

\* A call within a reconcile keeps what is known of the snapshot.
LEMMA SnapshotFrame ==
  ASSUME SnapshotInv, UNCHANGED <<api, before>>,
         pc # "idle", pc # "Patch",
         pc' = "Patch" \/ (pc' # "idle" /\ (pc' \in DeleteSteps <=> pc \in DeleteSteps))
  PROVE  SnapshotInv'
  BY DEF SnapshotInv, HeldByFinalizer, Backs, Live, domainUUID, api, DeleteSteps

\* A call that leaves the object to the next call, or to Patch, as it is.
LEMMA WorkFrame ==
  ASSUME WorkInv, UNCHANGED <<before, work>>, pc # "idle", pc # "Patch"
  PROVE  WorkInv'
  BY DEF WorkInv

\* A machine that is being created has its finalizer in the API server, and
\* the domain is to get its identity.
LEMMA ApiCreating ==
  ASSUME ApiInv, pc \in CreateSteps \cup {"GetMachineState", "StartMachine"}
  PROVE  /\ obj # NoObj /\ obj.fin
         /\ domainUUID(obj) = domainUUID(before)
         /\ pc # "idle" /\ pc # "Patch" /\ pc \notin DeleteSteps
         /\ Live(before) /\ work = before
         /\ before \in Object
  BY MachineAssumption
     DEF ApiInv, TypeOK, SnapshotInv, WorkInv, Backs, Live, CreateSteps, DeleteSteps

\* A call of a machine that is being deleted.
LEMMA ApiDeleting ==
  ASSUME ApiInv, pc \in DeleteSteps
  PROVE  /\ pc # "idle" /\ pc # "Patch" /\ pc \notin CreateSteps
         /\ before.del /\ work = before
         /\ before \in Object
  BY DEF ApiInv, TypeOK, SnapshotInv, WorkInv, CreateSteps, DeleteSteps

\* The calls of the reconcile keep the snapshot and change the finalizer and
\* the provider ID of their copy only.
LEMMA CallApi ==
  ASSUME ApiInv,
         \/ GetMachineState \/ StartMachine \/ createRootDisk
         \/ createISODisk \/ storageVolUpload \/ reserveMachineIP
         \/ DomainDefineXML \/ SetAutostart \/ Create \/ deleteDomain
         \/ Destroy \/ Undefine \/ deleteRootDisk \/ deleteISODisk
         \/ releaseMachineReservation
  PROVE  CacheInv' /\ SnapshotInv' /\ WorkInv'
  <1> USE DEF Goto, Flaky, Fail, Finish
  <1>1. CASE \/ createRootDisk \/ createISODisk \/ storageVolUpload
             \/ reserveMachineIP \/ DomainDefineXML \/ SetAutostart
    <2>1. /\ pc \in CreateSteps /\ UNCHANGED <<api, before, work>>
          /\ pc' = "Patch" \/ pc' \in CreateSteps
      BY <1>1
      DEF createRootDisk, createISODisk, writeCloudInitISOFails, storageVolUpload,
          reserveMachineIP, DomainDefineXML, SetAutostart, CreateSteps
    <2> QED
      BY <2>1, ApiCreating, CacheFrame, SnapshotFrame, WorkFrame
      DEF ApiInv, CreateSteps, DeleteSteps
  <1>2. CASE GetMachineState \/ StartMachine \/ Create
    <2>1. /\ pc \in CreateSteps \cup {"GetMachineState", "StartMachine"}
          /\ UNCHANGED <<api, before>>
          /\ pc' \in {"Patch", "createRootDisk", "StartMachine"}
          /\ work' = work \/ (work' = setProviderID(work) /\ pc' = "Patch")
      BY <1>2
      DEF GetMachineState, DomainMissing, reconcileLostDomain,
          getCloudInitDataFails, observeMachineAddress, DomainStopped,
          DomainRunning, DomainUnknown, StartMachine, Create, CreateSteps
    <2>2. CacheInv' /\ SnapshotInv'
      BY <2>1, ApiCreating, CacheFrame, SnapshotFrame DEF ApiInv, DeleteSteps
    <2>3. WorkInv'
      BY <2>1, ApiCreating, SetProviderID DEF WorkInv
    <2> QED
      BY <2>2, <2>3
  <1>3. CASE \/ deleteDomain \/ Destroy \/ Undefine \/ deleteRootDisk
             \/ deleteISODisk
    <2>1. /\ pc \in DeleteSteps /\ UNCHANGED <<api, before, work>>
          /\ pc' = "Patch" \/ pc' \in DeleteSteps
      BY <1>3
      DEF deleteDomain, Destroy, Undefine, deleteRootDisk, deleteISODisk, DeleteSteps
    <2> QED
      BY <2>1, ApiDeleting, CacheFrame, SnapshotFrame, WorkFrame
      DEF ApiInv, DeleteSteps
  <1>4. CASE releaseMachineReservation
    <2>1. /\ pc \in DeleteSteps /\ pc' = "Patch" /\ UNCHANGED <<api, before>>
          /\ work' = work \/ work' = [work EXCEPT !.fin = FALSE]
      BY <1>4 DEF releaseMachineReservation, DeleteSteps
    <2>2. CacheInv' /\ SnapshotInv'
      BY <2>1, ApiDeleting, CacheFrame, SnapshotFrame DEF ApiInv
    <2>3. WorkInv'
      BY <2>1, ApiDeleting DEF WorkInv, Object
    <2> QED
      BY <2>2, <2>3
  <1> QED
    BY <1>1, <1>2, <1>3, <1>4

\* A reconcile begins from the cache.
LEMMA BeginApi ==
  ASSUME ApiInv, ReconcileDelete \/ ReconcilePaused \/ AddFinalizer
           \/ AwaitInfrastructure \/ ReconcileNormal
  PROVE  CacheInv' /\ SnapshotInv' /\ WorkInv'
  <1> USE DEF Begin, Finish, ReconcileDelete, ReconcilePaused, AddFinalizer,
              AwaitInfrastructure, ReconcileNormal
  <1>1. UNCHANGED api /\ before' = cached /\ cached # NoObj
    OBVIOUS
  <1>2. CASE ReconcileDelete
    BY <1>1, <1>2, CacheFrame, Zenon
    DEF ApiInv, CacheInv, SnapshotInv, WorkInv, HeldByFinalizer, Backs, Live,
        domainUUID, DeleteSteps, api
  <1>3. CASE ReconcilePaused \/ AwaitInfrastructure
    BY <1>1, <1>3, CacheFrame
    DEF ApiInv, CacheInv, SnapshotInv, WorkInv, HeldByFinalizer, Backs, Live,
        domainUUID, DeleteSteps, api
  <1>4. CASE AddFinalizer
    <2>1. /\ work'.uid = cached.uid /\ work'.del = cached.del
          /\ work'.pid = cached.pid /\ work'.fin
      BY <1>1, <1>4 DEF ApiInv, TypeOK, Object
    <2> QED
      BY <1>1, <1>4, <2>1, CacheFrame
      DEF ApiInv, CacheInv, SnapshotInv, WorkInv, HeldByFinalizer, Backs, Live,
          domainUUID, DeleteSteps, api
  <1>5. CASE ReconcileNormal
    BY <1>1, <1>5, CacheFrame
    DEF ApiInv, CacheInv, SnapshotInv, WorkInv, HeldByFinalizer, Backs, Live,
        domainUUID, DeleteSteps, api
  <1> QED
    BY <1>2, <1>3, <1>4, <1>5, Zenon

\* What Patch writes: the fields that the reconcile changed, over the others as
\* they are now, and never another identity.
LEMMA PatchWrites ==
  ASSUME ApiInv, Patch, Accepted
  PROVE  /\ obj \in Object /\ before \in Object /\ work \in Object
         /\ pc = "Patch" /\ obj # NoObj
         /\ Merged.uid = obj.uid /\ Merged.del = obj.del
         /\ Merged \in Object /\ Merged # NoObj
         /\ Merged.fin = Merge(before.fin, work.fin, obj.fin)
         /\ domainUUID(Merged) = domainUUID(obj)
  <1> DEFINE m == Merged
  <1>1. /\ obj \in Object /\ before \in Object /\ work \in Object
        /\ pc = "Patch" /\ obj # NoObj
    BY MachineAssumption DEF ApiInv, TypeOK, Patch, Accepted
  <1>2. /\ m.uid = obj.uid /\ m.del = obj.del /\ m \in Object
        /\ m.fin = Merge(before.fin, work.fin, obj.fin)
        /\ m.pid = Merge(before.pid, work.pid, obj.pid)
        /\ m # NoObj
    BY <1>1, MachineAssumption, ZenonT(60) DEF Object, Merged, Merge
  <1>3. obj.pid \in {None, m.pid}
    BY DEF Accepted
  <1> HIDE DEF m
  <1>4. domainUUID(m) = domainUUID(obj)
    BY <1>1, <1>2, <1>3, MachineAssumption
    DEF ApiInv, WorkInv, SnapshotInv, Backs, Live, domainUUID, Merge, Object
  <1> QED
    BY <1>1, <1>2, <1>4, Zenon DEF m

\* Patch never brings back a finalizer that a deletion took off, and never takes
\* it off an object that is not being deleted.
LEMMA PatchApi ==
  ASSUME ApiInv, Patch
  PROVE  CacheInv' /\ SnapshotInv' /\ WorkInv'
  <1>1. /\ pc' = "idle" /\ UNCHANGED cached
        /\ obj' = obj \/ (Accepted /\ obj' = Stored(Merged))
        /\ obj' # obj => pending'
        /\ pending => pending'
    BY Zenon DEF ApiInv, TypeOK, Patch
  <1>2. SnapshotInv' /\ WorkInv'
    BY <1>1 DEF SnapshotInv, WorkInv
  <1>3. CASE obj' = obj
    BY <1>1, <1>2, <1>3
    DEF ApiInv, CacheInv, HeldByFinalizer, Backs, Live, domainUUID
  <1>4. CASE Accepted /\ obj' = Stored(Merged)
    <2> DEFINE m == Merged
    <2>1. /\ obj \in Object /\ before \in Object /\ work \in Object
          /\ pc = "Patch" /\ obj # NoObj
          /\ m.uid = obj.uid /\ m.del = obj.del /\ m \in Object /\ m # NoObj
          /\ m.fin = Merge(before.fin, work.fin, obj.fin)
          /\ domainUUID(m) = domainUUID(obj)
      BY <1>4, PatchWrites
    <2>2. obj' = IF m.del /\ ~m.fin THEN NoObj ELSE m
      BY <1>4 DEF Stored
    <2> HIDE DEF m
    <2>3. HeldByFinalizer(obj)' /\ HeldByFinalizer(cached)'
      BY <1>1, <2>1, <2>2 DEF ApiInv, CacheInv, HeldByFinalizer
    <2>4. ~pending' => cached' = obj'
      BY <1>1 DEF ApiInv, CacheInv
    <2>5. Backs(cached)'
      <3> SUFFICES ASSUME Live(cached)
                   PROVE  obj' # NoObj /\ obj'.fin
                          /\ domainUUID(obj') = domainUUID(cached)
        BY <1>1 DEF Backs, Live, domainUUID
      <3>1. obj.fin /\ domainUUID(obj) = domainUUID(cached)
        BY DEF ApiInv, CacheInv, Backs
      <3>2. ~(before.fin /\ ~work.fin)
        BY <2>1 DEF ApiInv, SnapshotInv, WorkInv
      <3>3. m.fin
        BY <2>1, <3>1, <3>2 DEF Merge, Object
      <3> QED
        BY <2>1, <2>2, <3>1, <3>3, Zenon
    <2>6. (cached # NoObj /\ cached.del)' => ~Live(obj)'
      BY <1>1, <2>1, <2>2, Zenon
      DEF ApiInv, CacheInv, SnapshotInv, WorkInv, HeldByFinalizer, Live, Merge
    <2> QED
      BY <1>2, <2>3, <2>4, <2>5, <2>6 DEF CacheInv
  <1> QED
    BY <1>1, <1>3, <1>4

\* The watch and a restart bring the cache up to date.
LEMMA FreshApi ==
  ASSUME ApiInv, WatchEvent \/ Crash
  PROVE  CacheInv' /\ SnapshotInv' /\ WorkInv'
  <1>1. /\ cached' = obj /\ UNCHANGED obj
        /\ pc' = "idle" \/ UNCHANGED <<pc, local>>
    BY SMTT(30) DEF WatchEvent, Crash
  <1>2. CacheInv'
    BY <1>1, SMTT(30) DEF ApiInv, CacheInv, HeldByFinalizer, Backs, Live, domainUUID
  <1>3. SnapshotInv' /\ WorkInv'
    BY <1>1
    DEF ApiInv, SnapshotInv, WorkInv, HeldByFinalizer, Backs, Live, domainUUID, local
  <1> QED
    BY <1>2, <1>3

\* A new object has no finalizer yet.
LEMMA CreateObjectApi ==
  ASSUME ApiInv, CreateObject
  PROVE  CacheInv' /\ SnapshotInv' /\ WorkInv'
  <1>1. /\ obj = NoObj /\ obj' # NoObj
        /\ ~obj'.fin /\ ~obj'.del
        /\ pending'
        /\ UNCHANGED <<cached, pc, local>>
    <2>1. PICK u \in UIDs : obj' = NewObject(u)
      BY DEF CreateObject
    <2> QED
      BY <2>1, MachineAssumption, ObjectFacts, Zenon DEF CreateObject, NewObject
  <1>2. CacheInv'
    BY <1>1, ZenonT(60) DEF ApiInv, CacheInv, HeldByFinalizer, Backs, Live
  <1>3. SnapshotInv' /\ WorkInv'
    BY <1>1, ZenonT(60)
    DEF ApiInv, SnapshotInv, WorkInv, HeldByFinalizer, Backs, Live, local
  <1> QED
    BY <1>2, <1>3

\* A deleted object stays until the finalizer is taken off.
LEMMA DeleteObjectApi ==
  ASSUME ApiInv, DeleteObject
  PROVE  CacheInv' /\ SnapshotInv' /\ WorkInv'
  <1>1. /\ obj \in Object /\ obj # NoObj /\ ~obj.del /\ pending'
        /\ UNCHANGED <<cached, pc, local>>
        /\ obj' = IF obj.fin THEN [obj EXCEPT !.del = TRUE] ELSE NoObj
    BY DEF ApiInv, TypeOK, DeleteObject, Stored, Object
  <1>2. obj' = NoObj \/ /\ obj' # NoObj /\ obj.fin
                        /\ obj'.fin /\ obj'.del
                        /\ domainUUID(obj') = domainUUID(obj)
    BY <1>1, MachineAssumption, ObjectFacts, ZenonT(60) DEF Object, domainUUID
  <1>3. obj' = NoObj => ~obj.fin
    BY <1>1, MachineAssumption, ObjectFacts, Zenon
  <1>4. CacheInv'
    BY <1>1, <1>2, <1>3
    DEF ApiInv, CacheInv, HeldByFinalizer, Backs, Live, domainUUID
  <1>5. SnapshotInv' /\ WorkInv'
    BY <1>1, <1>2, <1>3
    DEF ApiInv, CacheInv, SnapshotInv, WorkInv, HeldByFinalizer, Backs, Live,
        domainUUID, local
  <1> QED
    BY <1>4, <1>5

\* clusterctl move keeps the finalizer and the identity of the domain.
LEMMA MoveApi ==
  ASSUME ApiInv, Move
  PROVE  CacheInv' /\ SnapshotInv' /\ WorkInv'
  <1>1. pc = "idle" /\ pc' = "idle" /\ cached' = obj'
    BY SMTT(30) DEF Move
  <1>2. obj' # NoObj /\ obj'.fin /\ ~obj'.del
    <2>1. PICK u \in UIDs :
            obj' = [NewObject(u) EXCEPT !.fin = TRUE, !.pid = obj.pid]
      BY Zenon DEF Move
    <2>2. obj \in Object
      BY SMTT(30) DEF ApiInv, TypeOK, Move
    <2> QED
      BY <2>1, <2>2, MachineAssumption, ObjectFacts, ZenonT(60) DEF NewObject
  <1> QED
    BY <1>1, <1>2, SMTT(30)
    DEF CacheInv, SnapshotInv, WorkInv, HeldByFinalizer, Backs, Live, domainUUID

\* Steps that touch neither the object, the cache nor the reconcile.
LEMMA OtherApi ==
  ASSUME ApiInv, \/ ReconcileGone \/ Pause \/ Unpause \/ Calm \/ MachineEvent
                 \/ HostChangesState \/ HostStops \/ HostRemoves
                 \/ ShutdownCompletes \/ UNCHANGED vars
  PROVE  CacheInv' /\ SnapshotInv' /\ WorkInv'
  <1>1. UNCHANGED <<obj, cached, pending, pc, local>>
    BY SMTT(30)
    DEF ReconcileGone, Pause, Unpause, Calm, MachineEvent, HostChangesState,
        HostStops, HostRemoves, ShutdownCompletes, vars, api
  <1> QED
    BY <1>1, ZenonT(60)
    DEF ApiInv, CacheInv, SnapshotInv, WorkInv, HeldByFinalizer, Backs, Live,
        domainUUID, local

\* Every step preserves the invariant, whatever the host does.
LEMMA ApiStep == ApiInv /\ [Next]_vars => ApiInv'
  <1> SUFFICES ASSUME ApiInv, [Next]_vars
               PROVE  ApiInv'
    OBVIOUS
  <1>1. TypeOK'
    BY TypeStep DEF ApiInv
  <1>2. CASE Reconciler
    BY <1>1, <1>2, CallApi, BeginApi, PatchApi, OtherApi DEF Reconciler, ApiInv
  <1>3. CASE WatchEvent \/ ShutdownCompletes
    BY <1>1, <1>3, FreshApi, OtherApi DEF ApiInv
  <1>4. CASE Environment
    BY <1>1, <1>4, FreshApi, CreateObjectApi, DeleteObjectApi, MoveApi, OtherApi
    DEF Environment, ApiInv
  <1>5. CASE UNCHANGED vars
    BY <1>1, <1>5, OtherApi DEF ApiInv
  <1> QED
    BY <1>2, <1>3, <1>4, <1>5 DEF Next

-----------------------------------------------------------------------------
(* Safety.  The host may hide a pool, and otherwise behaves while a domain *)
(* is deleted.                                                             *)

\* The initial state satisfies the inductive invariant.
LEMMA InvInit == Init => IInv
  BY TypeInit DEF Init, IInv, CacheInv, SnapshotInv, WorkInv, HostInv,
     ClearedInv, DomainBacked, IdentityInv, HeldByFinalizer, Backs, Live,
     Cleared, CreateSteps, DeleteSteps, IsActive

\* What the host does to a domain keeps its identity.
LEMMA DomainUpdate ==
  ASSUME NEW d \in Domain
  PROVE  /\ d # NoDom
         /\ \A s \in {"RUNNING", "SHUTDOWN", "PAUSED"} :
              LET q == [d EXCEPT !.state = s]
              IN  q.uuid = d.uuid /\ q.persistent = d.persistent /\ q # NoDom
         /\ LET q == [d EXCEPT !.auto = TRUE]
            IN  /\ q.uuid = d.uuid /\ q.persistent = d.persistent
                /\ q # NoDom /\ q.state = d.state
         /\ d.persistent => /\ Stopped(d).uuid = d.uuid
                            /\ Stopped(d).persistent = d.persistent
                            /\ Stopped(d) # NoDom
                            /\ Stopped(d).state = "SHUTOFF"
  BY MachineAssumption, Zenon DEF Domain, Stopped

\* A step that does not touch the host.
LEMMA HostFrame ==
  ASSUME UNCHANGED <<obj, host>>
  PROVE  /\ ClearedInv => ClearedInv'
         /\ DomainBacked => DomainBacked'
         /\ IdentityInv => IdentityInv'
  BY DEF ClearedInv, DomainBacked, IdentityInv, Cleared, domainUUID, host

\* What the object guarantees to a machine that is being created.
LEMMA Creating ==
  ASSUME IInv, pc \in CreateSteps \cup {"GetMachineState", "StartMachine"}
  PROVE  /\ obj # NoObj /\ obj.fin
         /\ domainUUID(obj) = domainUUID(before)
         /\ pc # "idle" /\ pc # "Patch" /\ pc \notin DeleteSteps
         /\ Live(before) /\ work = before
         /\ before \in Object
  BY ApiCreating DEF IInv, ApiInv

\* What the snapshot guarantees to a machine that is being deleted.
LEMMA Deleting ==
  ASSUME IInv, pc \in DeleteSteps
  PROVE  /\ pc # "idle" /\ pc # "Patch" /\ pc \notin CreateSteps
         /\ before.del /\ work = before
         /\ before \in Object
  BY ApiDeleting DEF IInv, ApiInv

\* createRootDisk adds the root disk of an object with the finalizer.
LEMMA CreateRootDiskInv ==
  ASSUME Faults \subseteq {"poolGone"}, IInv, ApiInv',
         createRootDisk
  PROVE  IInv'
  <1> USE DEF Goto, Flaky, Fail, Finish
  <1>1. pc \in CreateSteps /\ UNCHANGED <<api, before, work>>
    BY DEF createRootDisk, CreateSteps
  <1>2. HostInv'
    BY <1>1, Creating DEF IInv, HostInv, createRootDisk, CreateSteps, IsActive
  <1>3. ClearedInv' /\ DomainBacked'
    BY <1>1, Creating DEF IInv, createRootDisk, ClearedInv, DomainBacked, api
  <1>4. IdentityInv'
    BY <1>1 DEF IInv, createRootDisk, IdentityInv, domainUUID, api
  <1> QED
    BY <1>2, <1>3, <1>4 DEF IInv, ApiInv

\* createISODisk adds the ISO volume, or uses the one it finds.
LEMMA CreateISODiskInv ==
  ASSUME Faults \subseteq {"poolGone"}, IInv, ApiInv',
         createISODisk
  PROVE  IInv'
  <1> USE DEF Goto, Flaky, Fail, Finish
  <1>1. pc \in CreateSteps /\ UNCHANGED <<api, before, work>>
    BY DEF createISODisk, writeCloudInitISOFails, CreateSteps
  <1>2. HostInv'
    BY <1>1, Creating
      DEF IInv, HostInv, createISODisk, writeCloudInitISOFails, CreateSteps, IsActive
  <1>3. ClearedInv' /\ DomainBacked'
    BY <1>1, Creating DEF IInv, createISODisk, writeCloudInitISOFails, ClearedInv, DomainBacked, api
  <1>4. IdentityInv'
    BY <1>1, MachineAssumption
    DEF IInv, createISODisk, writeCloudInitISOFails, IdentityInv, domainUUID, api
  <1> QED
    BY <1>2, <1>3, <1>4 DEF IInv, ApiInv

\* storageVolUpload fills the ISO volume.
LEMMA StorageVolUploadInv ==
  ASSUME Faults \subseteq {"poolGone"}, IInv, ApiInv',
         storageVolUpload
  PROVE  IInv'
  <1> USE DEF Goto, Flaky, Fail, Finish
  <1>1. pc \in CreateSteps /\ UNCHANGED <<api, before, work>>
    BY DEF storageVolUpload, CreateSteps
  <1>2. iso' = iso \/ (iso' = domainUUID(before) /\ iso' # "absent")
    BY <1>1, Creating, ObjectFacts, MachineAssumption, Zenon
    DEF storageVolUpload, instanceID
  <1>3. HostInv'
    BY <1>1, <1>2, Creating
    DEF IInv, HostInv, storageVolUpload, CreateSteps, IsActive
  <1>4. ClearedInv' /\ DomainBacked'
    BY <1>1, <1>2, Creating
    DEF IInv, storageVolUpload, ClearedInv, DomainBacked, api
  <1>5. IdentityInv'
    BY <1>1, <1>2, Creating DEF IInv, storageVolUpload, IdentityInv, domainUUID, api
  <1> QED
    BY <1>3, <1>4, <1>5 DEF IInv, ApiInv

\* reserveMachineIP adds the DHCP host entry.
LEMMA ReserveMachineIPInv ==
  ASSUME Faults \subseteq {"poolGone"}, IInv, ApiInv',
         reserveMachineIP
  PROVE  IInv'
  <1> USE DEF Goto, Flaky, Fail, Finish
  <1>1. pc \in CreateSteps /\ UNCHANGED <<api, before, work>>
    BY DEF reserveMachineIP, CreateSteps
  <1>2. HostInv'
    BY <1>1, Creating DEF IInv, HostInv, reserveMachineIP, CreateSteps, IsActive
  <1>3. ClearedInv' /\ DomainBacked'
    BY <1>1, Creating DEF IInv, reserveMachineIP, ClearedInv, DomainBacked, api
  <1>4. IdentityInv'
    BY <1>1 DEF IInv, reserveMachineIP, IdentityInv, domainUUID, api
  <1> QED
    BY <1>2, <1>3, <1>4 DEF IInv, ApiInv

\* DomainDefineXML defines the domain when everything it needs is there,
\* with the identity of the object.
LEMMA DomainDefineXMLInv ==
  ASSUME Faults \subseteq {"poolGone"}, IInv, ApiInv',
         DomainDefineXML
  PROVE  IInv'
  <1> USE DEF Goto, Flaky, Fail, Finish
  <1>1. pc \in CreateSteps /\ UNCHANGED <<api, before, work>>
    BY DEF DomainDefineXML, CreateSteps
  <1>2. dom' = dom \/ /\ dom' # NoDom
                      /\ dom'.uuid = domainUUID(before)
                      /\ dom'.persistent
    <2>1. domainUUID(before) \in UIDs
      BY <1>1, Creating, ObjectFacts, Zenon
    <2> DEFINE d == [uuid |-> domainUUID(before), auto |-> FALSE,
                     persistent |-> TRUE, state |-> "SHUTOFF"]
    <2>2. d # NoDom /\ d.uuid = domainUUID(before) /\ d.persistent
      BY <2>1, DomainFacts, MachineAssumption
    <2>3. dom' = dom \/ dom' = d
      BY DEF DomainDefineXML
    <2> HIDE DEF d
    <2> QED
      BY <2>2, <2>3, SMTT(30)
  <1>3. HostInv' /\ ClearedInv' /\ DomainBacked'
    BY <1>1, <1>2, Creating
    DEF IInv, HostInv, DomainDefineXML, CreateSteps, ClearedInv, DomainBacked, api
  <1>4. IdentityInv'
    BY <1>1, <1>2, Creating DEF IInv, DomainDefineXML, IdentityInv, domainUUID, api
  <1> QED
    BY <1>2, <1>3, <1>4 DEF IInv, ApiInv

\* SetAutostart changes the domain in place.
LEMMA SetAutostartInv ==
  ASSUME Faults \subseteq {"poolGone"}, IInv, ApiInv',
         SetAutostart
  PROVE  IInv'
  <1> USE DEF Goto, Flaky, Fail, Finish
  <1>1. pc \in CreateSteps /\ UNCHANGED <<api, before, work>>
    BY DEF SetAutostart, CreateSteps
  <1>2. dom' = dom \/ /\ dom # NoDom /\ dom' # NoDom
                      /\ dom'.uuid = dom.uuid
                      /\ dom'.persistent = dom.persistent
    <2>1. dom # NoDom => dom \in Domain
      BY DEF IInv, TypeOK
    <2>2. dom' = dom \/ (dom # NoDom /\ dom' = [dom EXCEPT !.auto = TRUE])
      BY DEF SetAutostart
    <2>3. LET q == [dom EXCEPT !.auto = TRUE]
          IN  dom # NoDom => /\ q \in Domain /\ q.uuid = dom.uuid
                             /\ q.persistent = dom.persistent
      BY <2>1, Zenon DEF Domain
    <2> QED
      BY <2>2, <2>3, MachineAssumption, Zenon
  <1>3. HostInv' /\ ClearedInv' /\ DomainBacked'
    BY <1>1, <1>2, Creating
    DEF IInv, HostInv, SetAutostart, CreateSteps, ClearedInv, DomainBacked, api
  <1>4. IdentityInv'
    BY <1>1, <1>2 DEF IInv, SetAutostart, IdentityInv, domainUUID, api
  <1> QED
    BY <1>2, <1>3, <1>4 DEF IInv, ApiInv

\* Create starts the domain and records its identity.
LEMMA CreateInv ==
  ASSUME Faults \subseteq {"poolGone"}, IInv, ApiInv',
         Create
  PROVE  IInv'
  <1> USE DEF Goto, Flaky, Fail, Finish
  <1>1. /\ pc \in CreateSteps \cup {"GetMachineState", "StartMachine"}
        /\ UNCHANGED <<api, before, disk, iso, resv>>
        /\ pc' = "Patch"
        /\ work' = work \/ work' = setProviderID(work)
    BY DEF Create, CreateSteps
  <1>2. dom' = dom \/ /\ dom # NoDom /\ dom' # NoDom
                      /\ dom'.uuid = dom.uuid
                      /\ dom'.persistent = dom.persistent
    <2>1. dom # NoDom => dom \in Domain
      BY DEF IInv, TypeOK
    <2>2. dom' = dom \/ (dom # NoDom /\ dom' = [dom EXCEPT !.state = "RUNNING"])
      BY DEF Create, CanStart
    <2> QED
      BY <2>1, <2>2, DomainFacts, MachineAssumption DEF Domain
  <1>3. HostInv'
    BY <1>1, <1>2, Creating, SetProviderID
    DEF IInv, HostInv, CreateSteps, ApiInv
  <1>4. ClearedInv' /\ DomainBacked' /\ IdentityInv'
    BY <1>1, <1>2, Creating
    DEF IInv, ClearedInv, DomainBacked, IdentityInv, domainUUID, api
  <1> QED
    BY <1>3, <1>4 DEF IInv, ApiInv

\* StartMachine starts the domain it finds and records its identity.
LEMMA StartMachineInv ==
  ASSUME Faults \subseteq {"poolGone"}, IInv, ApiInv',
         StartMachine
  PROVE  IInv'
  <1> USE DEF Goto, Flaky, Fail, Finish
  <1>1. /\ pc \in CreateSteps \cup {"GetMachineState", "StartMachine"}
        /\ UNCHANGED <<api, before, disk, iso, resv>>
        /\ pc' = "Patch"
        /\ work' = work \/ work' = setProviderID(work)
    BY DEF StartMachine, CreateSteps
  <1>2. dom' = dom \/ /\ dom # NoDom /\ dom' # NoDom
                      /\ dom'.uuid = dom.uuid
                      /\ dom'.persistent = dom.persistent
    <2>1. dom # NoDom => dom \in Domain
      BY DEF IInv, TypeOK
    <2>2. dom' = dom \/ (dom # NoDom /\ dom' = [dom EXCEPT !.state = "RUNNING"])
      BY DEF StartMachine, CanStart
    <2> QED
      BY <2>1, <2>2, DomainFacts, MachineAssumption DEF Domain
  <1>3. HostInv'
    BY <1>1, <1>2, Creating, SetProviderID
    DEF IInv, HostInv, CreateSteps, ApiInv
  <1>4. ClearedInv' /\ DomainBacked' /\ IdentityInv'
    BY <1>1, <1>2, Creating
    DEF IInv, ClearedInv, DomainBacked, IdentityInv, domainUUID, api
  <1> QED
    BY <1>3, <1>4 DEF IInv, ApiInv

\* GetMachineState reads the host and picks the case of reconcileNormal.
LEMMA GetMachineStateInv ==
  ASSUME Faults \subseteq {"poolGone"}, IInv, ApiInv',
         GetMachineState
  PROVE  IInv'
  <1> USE DEF Goto, Flaky, Fail, Finish, DomainMissing, reconcileLostDomain,
        getCloudInitDataFails, observeMachineAddress, DomainStopped,
              DomainRunning, DomainUnknown
  <1>1. /\ pc \in CreateSteps \cup {"GetMachineState", "StartMachine"}
        /\ UNCHANGED <<api, before, host>>
    BY DEF GetMachineState
  <1>2. /\ pc' \in {"Patch", "createRootDisk", "StartMachine"}
        /\ work' = work \/ (work' = setProviderID(work) /\ pc' = "Patch")
    BY DEF GetMachineState
  <1>3. HostInv'
    BY <1>1, <1>2, Creating, SetProviderID
    DEF IInv, HostInv, CreateSteps, host, ApiInv
  <1>4. ClearedInv' /\ DomainBacked' /\ IdentityInv'
    BY <1>1, HostFrame DEF IInv, api
  <1> QED
    BY <1>3, <1>4 DEF IInv, ApiInv

\* deleteDomain goes on to Undefine with an inactive domain.
LEMMA DeleteDomainInv ==
  ASSUME Faults \subseteq {"poolGone"}, IInv, ApiInv',
         deleteDomain
  PROVE  IInv'
  <1> USE DEF Goto, Flaky, Fail, Finish
  <1>1. pc \in DeleteSteps /\ UNCHANGED <<api, before, work>>
    BY DEF deleteDomain, DeleteSteps
  <1>2. HostInv'
    BY <1>1, Deleting DEF IInv, HostInv, deleteDomain, CreateSteps, host
  <1>3. ClearedInv' /\ DomainBacked' /\ IdentityInv'
    BY <1>1, HostFrame DEF IInv, deleteDomain, api
  <1> QED
    BY <1>2, <1>3 DEF IInv, ApiInv

\* Destroy stops the domain; it stays defined.
LEMMA DestroyInv ==
  ASSUME Faults \subseteq {"poolGone"}, IInv, ApiInv',
         Destroy
  PROVE  IInv'
  <1> USE DEF Goto, Flaky, Fail, Finish
  <1>1. pc \in DeleteSteps /\ UNCHANGED <<api, before, work>>
    BY DEF Destroy, DeleteSteps
  <1>2. \/ dom' = dom /\ pc' = "Patch"
        \/ /\ dom # NoDom /\ dom' # NoDom
           /\ dom'.uuid = dom.uuid
           /\ dom'.persistent /\ dom'.state = "SHUTOFF"
    BY DomainUpdate DEF IInv, TypeOK, HostInv, Destroy, IsActive
  <1>3. HostInv'
    BY <1>1, <1>2, Deleting DEF IInv, HostInv, Destroy, CreateSteps, IsActive
  <1>4. ClearedInv' /\ DomainBacked' /\ IdentityInv'
    BY <1>1, <1>2
    DEF IInv, Destroy, ClearedInv, DomainBacked, Cleared, IdentityInv,
        domainUUID, api
  <1> QED
    BY <1>3, <1>4 DEF IInv, ApiInv

\* Undefine removes an inactive domain altogether.
LEMMA UndefineInv ==
  ASSUME Faults \subseteq {"poolGone"}, IInv, ApiInv',
         Undefine
  PROVE  IInv'
  <1> USE DEF Goto, Flaky, Fail, Finish
  <1>1. pc \in DeleteSteps /\ UNCHANGED <<api, before, work>>
    BY DEF Undefine, DeleteSteps
  <1>2. HostInv'
    BY <1>1, Deleting DEF IInv, HostInv, Undefine, CreateSteps, IsActive
  <1>3. ClearedInv' /\ DomainBacked' /\ IdentityInv'
    BY <1>1
    DEF IInv, HostInv, Undefine, ClearedInv, DomainBacked, Cleared, IdentityInv,
        domainUUID, IsActive, api
  <1> QED
    BY <1>2, <1>3 DEF IInv, ApiInv

\* deleteRootDisk runs when the domain is gone.
LEMMA DeleteRootDiskInv ==
  ASSUME Faults \subseteq {"poolGone"}, IInv, ApiInv',
         deleteRootDisk
  PROVE  IInv'
  <1> USE DEF PoolGone, Goto, Flaky, Fail, Finish
  <1>1. pc \in DeleteSteps /\ UNCHANGED <<api, before, work>>
    BY DEF deleteRootDisk, DeleteSteps
  <1>2. HostInv'
    BY <1>1, Deleting
    DEF IInv, HostInv, deleteRootDisk, CreateSteps, IsActive, PoolsStay
  <1>3. ClearedInv' /\ DomainBacked' /\ IdentityInv'
    BY <1>1
    DEF IInv, HostInv, deleteRootDisk, ClearedInv, DomainBacked, Cleared, IdentityInv,
        domainUUID, IsActive, api
  <1> QED
    BY <1>2, <1>3 DEF IInv, ApiInv

\* deleteISODisk runs when the domain and the root disk are gone.
LEMMA DeleteISODiskInv ==
  ASSUME Faults \subseteq {"poolGone"}, IInv, ApiInv',
         deleteISODisk
  PROVE  IInv'
  <1> USE DEF PoolGone, Goto, Flaky, Fail, Finish
  <1>1. pc \in DeleteSteps /\ UNCHANGED <<api, before, work>>
    BY DEF deleteISODisk, DeleteSteps
  <1>2. HostInv'
    BY <1>1, Deleting
    DEF IInv, HostInv, deleteISODisk, CreateSteps, IsActive, PoolsStay
  <1>3. ClearedInv' /\ DomainBacked' /\ IdentityInv'
    BY <1>1, MachineAssumption
    DEF IInv, HostInv, deleteISODisk, ClearedInv, DomainBacked, Cleared, IdentityInv,
        domainUUID, IsActive, api
  <1> QED
    BY <1>2, <1>3 DEF IInv, ApiInv

\* releaseMachineReservation ends with a clean host, and only then is the
\* finalizer taken off.
LEMMA ReleaseMachineReservationInv ==
  ASSUME Faults \subseteq {"poolGone"}, IInv, ApiInv',
         releaseMachineReservation
  PROVE  IInv'
  <1> USE DEF Goto, Flaky, Fail, Finish
  <1>1. /\ pc \in DeleteSteps
        /\ pc' = "Patch"
        /\ UNCHANGED <<api, before, dom, disk, iso>>
    BY DEF releaseMachineReservation, DeleteSteps
  <1>2. \/ work' = work
        \/ work' = [work EXCEPT !.fin = FALSE] /\ ~resv'
    BY DEF releaseMachineReservation
  <1>3. HostInv'
    BY <1>1, <1>2, Deleting
    DEF IInv, HostInv, Cleared, CreateSteps, releaseMachineReservation
  <1>4. ClearedInv' /\ DomainBacked' /\ IdentityInv'
    BY <1>1
    DEF IInv, HostInv, releaseMachineReservation, ClearedInv, DomainBacked,
        Cleared, IdentityInv, domainUUID, api
  <1> QED
    BY <1>3, <1>4 DEF IInv, ApiInv

\* A reconcile begins with what the cache says.
LEMMA BeginInv ==
  ASSUME Faults \subseteq {"poolGone"}, IInv, ApiInv',
         ReconcileDelete \/ ReconcilePaused \/ AddFinalizer
           \/ AwaitInfrastructure \/ ReconcileNormal
  PROVE  IInv'
  <1>1. UNCHANGED <<api, host>>
    BY Zenon DEF Begin, ReconcileDelete, ReconcilePaused, AddFinalizer,
       AwaitInfrastructure, ReconcileNormal
  <1>2. pc' \in {"deleteDomain", "GetMachineState"}
          \/ (pc' = "Patch" /\ (work'.fin \/ ~before'.fin))
    BY DEF IInv, TypeOK, Object, Begin, Finish, ReconcileDelete, ReconcilePaused,
       AddFinalizer, AwaitInfrastructure, ReconcileNormal
  <1>3. HostInv'
    BY <1>1, <1>2 DEF IInv, HostInv, CreateSteps, IsActive, host
  <1> QED
    BY <1>1, <1>3, HostFrame DEF IInv, ApiInv, api

\* Patch takes the finalizer off a clean host only, records the identity the
\* domain has, and never brings back a finalizer that a deletion took off.
LEMMA PatchInv ==
  ASSUME Faults \subseteq {"poolGone"}, IInv, ApiInv',
         Patch
  PROVE  IInv'
  <1>1. /\ pc' = "idle" /\ UNCHANGED host
        /\ obj' = obj \/ (Accepted /\ obj' = Stored(Merged))
    BY DEF IInv, TypeOK, Patch
  <1>2. HostInv'
    BY <1>1 DEF IInv, HostInv, CreateSteps, IsActive, host
  <1>3. CASE obj' = obj
    BY <1>1, <1>2, <1>3, HostFrame DEF IInv, ApiInv
  <1>4. CASE Accepted /\ obj' = Stored(Merged)
    <2> DEFINE m == Merged
    <2>1. /\ obj \in Object /\ before \in Object /\ work \in Object
          /\ pc = "Patch" /\ obj # NoObj /\ m # NoObj
          /\ m.fin = Merge(before.fin, work.fin, obj.fin)
          /\ domainUUID(m) = domainUUID(obj)
      BY <1>4, PatchWrites DEF IInv, ApiInv
    <2>2. obj' = IF m.del /\ ~m.fin THEN NoObj ELSE m
      BY <1>4 DEF Stored
    <2> HIDE DEF m
    <2>3. UNCHANGED host /\ (Cleared' <=> Cleared)
      BY <1>1 DEF Cleared, host
    <2>4. ~m.fin => Cleared
      BY <2>1 DEF IInv, HostInv, ClearedInv, Merge, Object
    <2>5. ClearedInv'
      BY <2>1, <2>2, <2>3, <2>4 DEF ClearedInv
    <2>6. DomainBacked'
      BY <2>3 DEF IInv, DomainBacked, host
    <2>7. IdentityInv'
      <3> SUFFICES ASSUME obj' # NoObj
                   PROVE  /\ dom # NoDom => dom.uuid = domainUUID(obj')
                          /\ (PoolsStay /\ iso \in UIDs) => iso = domainUUID(obj')
        BY <2>3 DEF IdentityInv, host, domainUUID
      <3> QED
        BY <2>1, <2>2 DEF IInv, IdentityInv
    <2> QED
      BY <1>2, <2>5, <2>6, <2>7 DEF IInv, ApiInv
  <1> QED
    BY <1>1, <1>3, <1>4

\* WatchEvent brings the cache up to date.
LEMMA WatchEventInv ==
  ASSUME Faults \subseteq {"poolGone"}, IInv, ApiInv',
         WatchEvent
  PROVE  IInv'
  <1>1. /\ cached' = obj /\ pending' = FALSE
        /\ UNCHANGED <<obj, paused, pc, local, host>>
    BY DEF WatchEvent
  <1>2. HostInv' /\ ClearedInv' /\ DomainBacked' /\ IdentityInv'
    BY <1>1, HostFrame DEF IInv, HostInv, Cleared, IsActive, local, host
  <1> QED
    BY <1>2 DEF IInv, ApiInv

\* Crash forgets the reconcile and the cache.
LEMMA CrashInv ==
  ASSUME Faults \subseteq {"poolGone"}, IInv, ApiInv',
         Crash
  PROVE  IInv'
  <1>1. /\ cached' = obj /\ pending' = FALSE /\ pc' = "idle"
        /\ UNCHANGED <<obj, host>>
    BY SMTT(30) DEF Crash
  <1>2. HostInv' /\ ClearedInv' /\ DomainBacked' /\ IdentityInv'
    BY <1>1, HostFrame, SMTT(30) DEF IInv, HostInv, CreateSteps, IsActive, host
  <1> QED
    BY <1>2 DEF IInv, ApiInv

\* A new object finds a clean host.
LEMMA CreateObjectInv ==
  ASSUME Faults \subseteq {"poolGone"}, IInv, ApiInv',
         CreateObject
  PROVE  IInv'
  <1>1. /\ obj = NoObj /\ obj' # NoObj
        /\ ~obj'.fin /\ ~obj'.del /\ obj'.pid = None
        /\ pending'
        /\ UNCHANGED <<cached, pc, local, host>>
    <2>1. PICK u \in UIDs : obj' = NewObject(u)
      BY DEF CreateObject
    <2> QED
      BY <2>1, MachineAssumption, ObjectFacts, Zenon DEF CreateObject, NewObject
  <1>2. Cleared
    BY <1>1, SMTT(30) DEF IInv, ClearedInv
  <1>3. HostInv' /\ ClearedInv' /\ DomainBacked' /\ IdentityInv'
    BY <1>1, <1>2, MachineAssumption
    DEF IInv, HostInv, ClearedInv, DomainBacked, IdentityInv, Cleared, IsActive,
        local, host
  <1> QED
    BY <1>3 DEF IInv, ApiInv

\* A deleted object stays until the finalizer is taken off.
LEMMA DeleteObjectInv ==
  ASSUME Faults \subseteq {"poolGone"}, IInv, ApiInv',
         DeleteObject
  PROVE  IInv'
  <1>1. /\ obj \in Object /\ obj # NoObj /\ ~obj.del /\ pending'
        /\ UNCHANGED <<cached, pc, local, host>>
        /\ obj' = IF obj.fin THEN [obj EXCEPT !.del = TRUE] ELSE NoObj
    BY DEF IInv, TypeOK, DeleteObject, Stored, Object
  <1>2. obj' = NoObj \/ /\ obj' # NoObj /\ obj.fin
                        /\ obj'.fin /\ obj'.del
                        /\ domainUUID(obj') = domainUUID(obj)
    BY <1>1, MachineAssumption, ObjectFacts, ZenonT(60) DEF Object, domainUUID
  <1>3. obj' = NoObj => ~obj.fin
    BY <1>1, MachineAssumption, ObjectFacts, Zenon
  <1>4. HostInv' /\ ClearedInv' /\ DomainBacked' /\ IdentityInv'
    BY <1>1, <1>2, <1>3
    DEF IInv, HostInv, ClearedInv, DomainBacked, IdentityInv, Cleared, IsActive,
        domainUUID, local, host
  <1> QED
    BY <1>4 DEF IInv, ApiInv

\* clusterctl move keeps the finalizer and the identity of the domain.
LEMMA MoveInv ==
  ASSUME Faults \subseteq {"poolGone"}, IInv, ApiInv',
         Move
  PROVE  IInv'
  <1>1. /\ pc = "idle" /\ obj # NoObj /\ obj.fin /\ obj.pid # None
        /\ cached' = obj' /\ pending' = FALSE
        /\ UNCHANGED <<pc, local, host>>
    BY SMTT(30) DEF Move
  <1>2. obj' # NoObj /\ obj'.fin /\ ~obj'.del /\ obj'.pid = obj.pid
    <2>1. PICK u \in UIDs :
            obj' = [NewObject(u) EXCEPT !.fin = TRUE, !.pid = obj.pid]
      BY Zenon DEF Move
    <2>2. obj \in Object
      BY <1>1, SMTT(30) DEF IInv, TypeOK
    <2> QED
      BY <2>1, <2>2, MachineAssumption, ObjectFacts, ZenonT(60) DEF NewObject
  <1>3. HostInv' /\ ClearedInv' /\ DomainBacked' /\ IdentityInv'
    BY <1>1, <1>2
    DEF IInv, HostInv, ClearedInv, DomainBacked, IdentityInv, Cleared, IsActive,
        CreateSteps, domainUUID, local, host
  <1> QED
    BY <1>3 DEF IInv, ApiInv

\* The host stops, starts or removes a domain, and never makes one.
LEMMA HostStepInv ==
  ASSUME Faults \subseteq {"poolGone"}, IInv, ApiInv',
         HostChangesState \/ HostStops \/ HostRemoves
           \/ ShutdownCompletes
  PROVE  IInv'
  <1>1. UNCHANGED <<api, pc, local, disk, iso, resv>>
    BY DEF HostChangesState, HostStops, HostRemoves, ShutdownCompletes
  <1>2. dom # NoDom /\ dom \in Domain /\ dom.persistent
    BY DEF IInv, TypeOK, HostInv, HostChangesState, HostStops, HostRemoves,
       ShutdownCompletes, IsActive
  <1>3. dom' = NoDom \/ /\ dom' # NoDom
                        /\ dom'.uuid = dom.uuid /\ dom'.persistent
    <2>1. CASE HostChangesState
      <3>1. PICK t \in {"RUNNING", "SHUTDOWN", "PAUSED"} :
              dom' = [dom EXCEPT !.state = t]
        BY <2>1 DEF HostChangesState
      <3> QED
        BY <1>2, <3>1, DomainFacts, MachineAssumption DEF Domain
    <2>2. CASE HostStops \/ ShutdownCompletes \/ HostRemoves
      BY <1>2, <2>2, DomainUpdate DEF HostStops, ShutdownCompletes, HostRemoves
    <2> QED
      BY <2>1, <2>2
  <1>4. pc = "Undefine" => ~IsActive(dom')
    BY <1>2 DEF IInv, HostInv, HostChangesState, HostStops, HostRemoves,
       ShutdownCompletes, IsActive
  <1>5. HostInv'
    BY <1>1, <1>2, <1>3, <1>4
    DEF IInv, HostInv, Cleared, IsActive, local
  <1>6. ClearedInv' /\ DomainBacked' /\ IdentityInv'
    BY <1>1, <1>2, <1>3
    DEF IInv, ClearedInv, DomainBacked, IdentityInv, Cleared, domainUUID, api
  <1> QED
    BY <1>5, <1>6 DEF IInv, ApiInv

\* Steps that touch neither the object, the cache, the reconcile nor the host.
LEMMA OtherInv ==
  ASSUME Faults \subseteq {"poolGone"}, IInv, ApiInv',
         ReconcileGone \/ Pause \/ Unpause \/ Calm
           \/ MachineEvent \/ UNCHANGED vars
  PROVE  IInv'
  <1>1. UNCHANGED <<obj, cached, pending, pc, local, host>>
    BY SMTT(30) DEF ReconcileGone, Pause, Unpause, Calm, MachineEvent, vars, api
  <1>2. HostInv' /\ ClearedInv' /\ DomainBacked' /\ IdentityInv'
    BY <1>1, HostFrame DEF IInv, HostInv, Cleared, IsActive, local, host
  <1> QED
    BY <1>2 DEF IInv, ApiInv

\* Every step preserves the invariant, when IsActive does not fail and the
\* host does not start a domain that deleteDomain found inactive.
LEMMA InvStep ==
  ASSUME Faults \subseteq {"poolGone"}
  PROVE  IInv /\ [Next]_vars => IInv'
  <1> SUFFICES ASSUME IInv, [Next]_vars
               PROVE  IInv'
    OBVIOUS
  <1>0. ApiInv'
    BY ApiStep DEF IInv, ApiInv
  <1>1. CASE Reconciler
    BY <1>0, <1>1, OtherInv, BeginInv, GetMachineStateInv, StartMachineInv,
       CreateRootDiskInv, CreateISODiskInv, StorageVolUploadInv,
       ReserveMachineIPInv, DomainDefineXMLInv, SetAutostartInv, CreateInv,
       DeleteDomainInv, DestroyInv, UndefineInv, DeleteRootDiskInv,
       DeleteISODiskInv, ReleaseMachineReservationInv, PatchInv
    DEF Reconciler
  <1>2. CASE WatchEvent
    BY <1>0, <1>2, WatchEventInv
  <1>3. CASE ShutdownCompletes
    BY <1>0, <1>3, HostStepInv
  <1>4. CASE Environment
    BY <1>0, <1>4, CrashInv, CreateObjectInv, DeleteObjectInv, MoveInv,
       HostStepInv, OtherInv
    DEF Environment
  <1>5. CASE UNCHANGED vars
    BY <1>0, <1>5, OtherInv
  <1> QED
    BY <1>1, <1>2, <1>3, <1>4, <1>5 DEF Next

\* The inductive invariant holds in every reachable state.
LEMMA Invariance ==
  ASSUME Faults \subseteq {"poolGone"}
  PROVE  Spec => []IInv
  <1>1. IInv /\ [Next]_vars => IInv'
    BY InvStep
  <1> QED
    BY <1>1, InvInit, PTL DEF Spec

\* When every pool is found as well, a cleared host is a clean one.
LEMMA FaultFree ==
  ASSUME Faults = {}, IInv
  PROVE  NoOrphan /\ PoolsStay /\ (Cleared <=> HostClean)
  BY DEF IInv, ClearedInv, Cleared, PoolsStay, NoOrphan, HostClean

\* reconcileDelete and AddFinalizer: an object that is gone or without the
\* finalizer has left nothing on the host.
THEOREM NothingOrphaned ==
  ASSUME Faults = {}
  PROVE  Spec => []NoOrphan
  <1>1. IInv => NoOrphan
    BY FaultFree
  <1>2. Spec => []IInv
    BY Invariance
  <1> QED
    BY <1>1, <1>2, PTL

\* createDomain and DeleteMachine: a domain on the host always has its root
\* disk, its ISO volume and its reservation, volumes left behind or not.
THEOREM DomainAlwaysBacked ==
  ASSUME Faults \subseteq {"poolGone"}
  PROVE  Spec => []DomainBacked
  <1>1. IInv => DomainBacked
    BY DEF IInv
  <1> QED
    BY <1>1, Invariance, PTL

\* setProviderID and domainUUID: a recorded provider ID is the UUID of the
\* domain, across retries, crashes and clusterctl move, volumes left behind or not.
THEOREM IdentityPreserved ==
  ASSUME Faults \subseteq {"poolGone"}
  PROVE  Spec => []IdentityAgrees
  <1>1. IInv => IdentityAgrees
    BY DEF IInv, IdentityInv, IdentityAgrees, domainUUID
  <1> QED
    BY <1>1, Invariance, PTL

\* createISODisk and domainUUID: the instance-id in the cloud-init ISO is the
\* recorded provider ID, although an existing volume is never written again.
THEOREM InstanceIdPreserved ==
  ASSUME Faults = {}
  PROVE  Spec => []InstanceIdAgrees
  <1>1. IInv => InstanceIdAgrees
    BY FaultFree DEF IInv, IdentityInv, InstanceIdAgrees, domainUUID
  <1>2. Spec => []IInv
    BY Invariance
  <1> QED
    BY <1>1, <1>2, PTL

\* The steps of DeleteMachine are the only ones that undefine the domain or
\* remove a volume or the reservation.
LEMMA Removers ==
  ASSUME TypeOK, Next,
         \/ pc = "Undefine" /\ pc' = "deleteRootDisk"
         \/ disk /\ ~disk'
         \/ iso # "absent" /\ iso' = "absent"
         \/ resv /\ ~resv'
  PROVE  \/ Undefine /\ pc' = "deleteRootDisk"
         \/ deleteRootDisk /\ disk
         \/ deleteISODisk /\ iso # "absent"
         \/ releaseMachineReservation /\ resv
  <1>1. CASE Reconciler
    BY <1>1, ObjectFacts, MachineAssumption, ZenonT(60)
    DEF TypeOK, instanceID, Reconciler, ReconcileGone, ReconcileDelete,
        ReconcilePaused, AddFinalizer, AwaitInfrastructure, ReconcileNormal,
        Begin, GetMachineState, StartMachine, createRootDisk, createISODisk,
        writeCloudInitISOFails, storageVolUpload, reserveMachineIP,
        DomainDefineXML, SetAutostart, Create, deleteDomain, Destroy, Undefine,
        deleteRootDisk, deleteISODisk, releaseMachineReservation, Patch, host
  <1>2. CASE Environment \/ WatchEvent \/ ShutdownCompletes
    BY <1>2, Zenon
    DEF Environment, WatchEvent, Crash, CreateObject, DeleteObject, Pause,
        Unpause, Move, HostChangesState, HostStops, HostRemoves,
        ShutdownCompletes, Calm, MachineEvent, host
  <1> QED
    BY <1>1, <1>2, SMTT(30) DEF Next

\* DeleteMachine: whatever a step takes from the host belongs to an object
\* that is being deleted in the API server.
THEOREM OnlyDeletedIsDismantled ==
  ASSUME Faults = {}
  PROVE  Spec => DismantleOnlyDeleted
  <1> DEFINE Removes == \/ pc = "Undefine" /\ pc' = "deleteRootDisk"
                        \/ disk /\ ~disk'
                        \/ iso # "absent" /\ iso' = "absent"
                        \/ resv /\ ~resv'
  <1>1. IInv /\ [Next]_vars => [Removes => obj # NoObj /\ obj.del]_vars
    <2> SUFFICES ASSUME IInv, Next, Removes
                 PROVE  obj # NoObj /\ obj.del
      BY DEF vars, host
    <2>1. \/ Undefine /\ pc' = "deleteRootDisk"
          \/ deleteRootDisk /\ disk
          \/ deleteISODisk /\ iso # "absent"
          \/ releaseMachineReservation /\ resv
      BY Removers DEF IInv
    <2>2. pc \in DeleteSteps /\ ~HostClean
      BY <2>1 DEF Undefine, deleteRootDisk, deleteISODisk,
         releaseMachineReservation, DeleteSteps, HostClean, CanUndefine, Goto,
         Flaky, Fail, Finish
    <2> QED
      BY <2>2, Deleting, FaultFree
      DEF IInv, SnapshotInv, NoOrphan, Live
  <1>2. Spec => []IInv
    BY Invariance
  <1> QED
    BY <1>1, <1>2, PTL DEF Spec, DismantleOnlyDeleted

-----------------------------------------------------------------------------
(* No lost wake-up, with every fault.                                      *)

\* A call of the reconcile that goes on, or ends with an error or a requeue.
LEMMA WakeFrame ==
  ASSUME WakeInv, UNCHANGED <<api, queued, before>>, pc # "idle",
         work'.uid = work.uid, work'.del = work.del,
         \/ /\ pc' # "idle" /\ pc' # "Patch" /\ work' = work /\ pc # "Patch"
            /\ pc' \in CreateSteps => pc \in CreateSteps \/ work.pid = None
         \/ pc' = "Patch" /\ (requeue' \/ work' # before)
  PROVE  WakeInv'
  BY DEF WakeInv, NoLostWakeup, CreateSteps, api

\* The calls of the reconcile go on, fail, ask for a requeue or change the
\* object.
LEMMA CallWake ==
  ASSUME TypeOK, WakeInv,
         \/ GetMachineState \/ StartMachine \/ createRootDisk
         \/ createISODisk \/ storageVolUpload \/ reserveMachineIP
         \/ DomainDefineXML \/ SetAutostart \/ Create \/ deleteDomain
         \/ Destroy \/ Undefine \/ deleteRootDisk \/ deleteISODisk
         \/ releaseMachineReservation
  PROVE  WakeInv'
  <1> USE DEF Goto, Flaky, Fail, Finish
  <1>1. CASE \/ createRootDisk \/ createISODisk \/ storageVolUpload
             \/ reserveMachineIP \/ DomainDefineXML \/ SetAutostart
             \/ deleteDomain \/ Destroy \/ Undefine \/ deleteRootDisk
             \/ deleteISODisk
    BY <1>1, WakeFrame
    DEF createRootDisk, createISODisk, writeCloudInitISOFails, storageVolUpload, reserveMachineIP,
        DomainDefineXML, SetAutostart, deleteDomain, Destroy, Undefine,
        deleteRootDisk, deleteISODisk, CreateSteps
  <1>2. CASE GetMachineState \/ StartMachine
    BY <1>2, WakeFrame
    DEF TypeOK, GetMachineState, DomainMissing, reconcileLostDomain,
        getCloudInitDataFails, observeMachineAddress, DomainStopped, DomainRunning,
        DomainUnknown, StartMachine, setProviderID, Object, CreateSteps
  <1>3. CASE Create
    <2>1. /\ work \in Object /\ work = before /\ before.pid = None
          /\ pc # "idle" /\ UNCHANGED <<api, queued, before>>
      BY <1>3 DEF TypeOK, WakeInv, Create, CreateSteps
    <2>2. LET w == setProviderID(work)
          IN  w.uid = work.uid /\ w.del = work.del /\ w # work
      BY <2>1, MachineAssumption DEF setProviderID, domainUUID, Object
    <2>3. pc' = "Patch" /\ (work' = setProviderID(work) \/ (work' = work /\ requeue'))
      BY <1>3 DEF Create
    <2> QED
      BY <2>1, <2>2, <2>3, WakeFrame
  <1>4. CASE releaseMachineReservation
    <2>1. /\ work \in Object /\ work = before
          /\ pc # "idle" /\ UNCHANGED <<api, queued, before>>
      BY <1>4 DEF TypeOK, WakeInv, releaseMachineReservation
    <2>2. LET w == [work EXCEPT !.fin = FALSE]
          IN  w.uid = work.uid /\ w.del = work.del /\ (work.fin => w # work)
      BY <2>1 DEF Object
    <2>3. pc' = "Patch" /\ \/ work' = work /\ requeue'
                           \/ /\ work' = [work EXCEPT !.fin = FALSE]
                              /\ work.fin \/ requeue'
      BY <1>4, <2>1, Zenon DEF releaseMachineReservation, Object
    <2> QED
      BY <2>1, <2>2, <2>3, WakeFrame, Zenon
  <1> QED
    BY <1>1, <1>2, <1>3, <1>4, SMTT(30)

\* Every step keeps a reason for another reconcile, whatever fails.
LEMMA WakeStep == TypeOK /\ WakeInv /\ [Next]_vars => WakeInv'
  <1> SUFFICES ASSUME TypeOK, WakeInv, [Next]_vars
               PROVE  WakeInv'
    OBVIOUS
  <1>1. CASE ReconcileGone
    BY <1>1 DEF WakeInv, NoLostWakeup, ReconcileGone, CreateSteps, api,
           local
  <1>2. CASE \/ ReconcileDelete \/ ReconcilePaused \/ AddFinalizer
             \/ AwaitInfrastructure \/ ReconcileNormal
    BY <1>2
    DEF TypeOK, Object, WakeInv, NoLostWakeup, Begin, Finish, ReconcileDelete,
        ReconcilePaused, AddFinalizer, AwaitInfrastructure, ReconcileNormal,
        CreateSteps, api
  <1>3. CASE Patch
    <2>1. /\ pc' = "idle" /\ cached' = cached /\ paused' = paused
          /\ before \in Object /\ work \in Object /\ pc = "Patch"
      BY <1>3 DEF Patch, TypeOK
    <2>2. (obj' # obj => pending') /\ (pending => pending')
      BY <1>3, Zenon DEF Patch, TypeOK
    <2>3. ASSUME obj' # NoObj, ~paused \/ obj'.del
          PROVE  queued' \/ pending'
      <3>1. CASE work = before
        <4>1. UNCHANGED <<obj, pending>> /\ queued' = (queued \/ requeue)
          BY <1>3, <3>1, Zenon DEF Patch
        <4> QED
          BY <2>1, <2>3, <3>1, <4>1 DEF WakeInv, TypeOK
      <3>2. CASE /\ work # before /\ Accepted /\ obj' = Stored(Merged)
                 /\ queued' = (queued \/ requeue)
        <4> SUFFICES ASSUME ~queued, ~pending
                     PROVE  obj' # obj
          BY <2>2, <3>2, Zenon
        <4>1. before = obj /\ obj \in Object
          BY <2>1, <2>3 DEF WakeInv
        <4>2. work.fin # before.fin \/ work.pid # before.pid
          BY <2>1, <3>2 DEF WakeInv, Object
        <4>3. Merged # obj
          BY <2>1, <4>1, <4>2, Zenon DEF Merged, Merge, Object
        <4> QED
          BY <2>3, <3>2, <4>3 DEF Stored
      <3>3. CASE queued' = TRUE
        BY <3>3
      <3> QED
        BY <1>3, <3>1, <3>2, <3>3 DEF Patch
    <2> QED
      BY <2>1, <2>2, <2>3 DEF WakeInv, NoLostWakeup, CreateSteps
  <1>4. CASE WatchEvent \/ MachineEvent \/ Crash
    BY <1>4, Zenon
    DEF WakeInv, NoLostWakeup, WatchEvent, MachineEvent, Crash, local, api,
        CreateSteps
  <1>5. CASE CreateObject \/ DeleteObject \/ Pause \/ Unpause \/ Move
    BY <1>5, Zenon
    DEF WakeInv, NoLostWakeup, CreateObject, DeleteObject, Pause, Unpause,
        Move, local, CreateSteps
  <1>6. CASE \/ HostChangesState \/ HostStops \/ HostRemoves
             \/ ShutdownCompletes \/ Calm \/ UNCHANGED vars
    BY <1>6
    DEF WakeInv, NoLostWakeup, HostChangesState, HostStops, HostRemoves,
        ShutdownCompletes, Calm, vars, api, local, CreateSteps
  <1> QED
    BY <1>1, <1>2, <1>3, <1>4, <1>5, <1>6, CallWake
    DEF Next, Reconciler, Environment

\* The returns of Reconcile: an object that is not paused, or is being deleted,
\* never waits for an event that does not come.
THEOREM WakeupNeverLost == Spec => []NoLostWakeup
  <1>1. Init => WakeInv
    BY DEF Init, WakeInv, NoLostWakeup, CreateSteps
  <1>2. WakeInv => NoLostWakeup
    BY DEF WakeInv
  <1> QED
    BY <1>1, <1>2, TypeCorrect, WakeStep, PTL DEF Spec

-----------------------------------------------------------------------------
(* What deletion may overlook, with every fault of the host.               *)

\* The object and its copies keep their invariant in every reachable state.
LEMMA ApiInvariance == Spec => []ApiInv
  BY ApiInit, ApiStep, PTL DEF Spec

\* A step that keeps the object, and brings neither a reservation nor a defined
\* domain, keeps what is left transient.
LEMMA LeftFrame ==
  ASSUME LeftInv, UNCHANGED obj, resv' => resv, Unpersistent => Unpersistent',
         pc' \in VolumeSteps => Unpersistent',
         pc' = "Patch" /\ before'.fin /\ ~work'.fin => ~resv' /\ Unpersistent'
  PROVE  LeftInv'
  BY DEF LeftInv, LeftoverIsTransient, Unpersistent

\* CreateMachine and StartMachine act for an object with the finalizer.
LEMMA CreateLeft ==
  ASSUME ApiInv, LeftInv,
         \/ GetMachineState \/ StartMachine \/ createRootDisk
         \/ createISODisk \/ storageVolUpload \/ reserveMachineIP
         \/ DomainDefineXML \/ SetAutostart \/ Create
  PROVE  LeftInv'
  <1> USE DEF Goto, Flaky, Fail, Finish
  <1>1. /\ pc \in CreateSteps \cup {"GetMachineState", "StartMachine"}
        /\ UNCHANGED <<obj, before>>
        /\ work' = work \/ work' = setProviderID(work)
        /\ pc' \notin VolumeSteps
    <2>1. CASE GetMachineState \/ StartMachine \/ Create
      BY <2>1
      DEF GetMachineState, DomainMissing, reconcileLostDomain,
          getCloudInitDataFails, observeMachineAddress, DomainStopped,
          DomainRunning, DomainUnknown, StartMachine, Create, CreateSteps,
          VolumeSteps, api
    <2>2. CASE \/ createRootDisk \/ createISODisk \/ storageVolUpload
               \/ reserveMachineIP \/ DomainDefineXML \/ SetAutostart
      BY <2>2
      DEF createRootDisk, createISODisk, writeCloudInitISOFails, storageVolUpload,
          reserveMachineIP, DomainDefineXML, SetAutostart, CreateSteps,
          VolumeSteps, api
    <2> QED
      BY <2>1, <2>2
  <1>2. work'.fin = before'.fin
    BY <1>1, ApiCreating, SetProviderID
  <1> QED
    BY <1>1, <1>2, ApiCreating DEF LeftInv, LeftoverIsTransient

\* DeleteMachine goes on to the volumes when the domain is gone or undefined, and
\* removes the finalizer when the reservation is gone as well.
LEMMA DeleteLeft ==
  ASSUME ApiInv, LeftInv,
         \/ deleteDomain \/ Destroy \/ Undefine \/ deleteRootDisk
         \/ deleteISODisk \/ releaseMachineReservation
  PROVE  LeftInv'
  <1> USE DEF Goto, Flaky, Fail, Finish
  <1>1. pc \in DeleteSteps /\ UNCHANGED <<obj, before>>
    BY DEF deleteDomain, Destroy, Undefine, deleteRootDisk, deleteISODisk,
       releaseMachineReservation, DeleteSteps, api
  <1>2. work = before
    BY <1>1, ApiDeleting
  <1>3. CASE deleteDomain
    <2>1. /\ UNCHANGED <<dom, resv, work>>
          /\ pc' \in VolumeSteps => dom = NoDom
      BY <1>3 DEF deleteDomain, VolumeSteps, host
    <2> QED
      BY <1>1, <1>2, <2>1, LeftFrame DEF Unpersistent
  <1>4. CASE Destroy
    <2>1. /\ UNCHANGED <<resv, work>> /\ pc' \notin VolumeSteps
          /\ dom' = dom \/ (dom # NoDom /\ dom' = Stopped(dom))
      BY <1>4 DEF Destroy, VolumeSteps, IsActive
    <2>2. Unpersistent => Unpersistent'
      BY <2>1 DEF Unpersistent, Stopped
    <2> QED
      BY <1>1, <1>2, <2>1, <2>2, LeftFrame
  <1>5. CASE Undefine
    <2>1. /\ UNCHANGED <<resv, work>>
          /\ \/ UNCHANGED dom /\ pc' \notin VolumeSteps
             \/ dom' = NoDom
             \/ dom # NoDom /\ dom' = [dom EXCEPT !.persistent = FALSE]
      BY <1>5 DEF Undefine, VolumeSteps, CanUndefine
    <2>2. dom # NoDom => dom \in Domain
      BY DEF ApiInv, TypeOK
    <2>3. Unpersistent' \/ (UNCHANGED dom /\ pc' \notin VolumeSteps)
      BY <2>1, <2>2 DEF Unpersistent, Domain
    <2> QED
      BY <1>1, <1>2, <2>1, <2>3, LeftFrame DEF Unpersistent
  <1>6. CASE deleteRootDisk \/ deleteISODisk
    <2>1. UNCHANGED <<dom, resv, work>> /\ pc \in VolumeSteps
      BY <1>6 DEF deleteRootDisk, deleteISODisk, VolumeSteps
    <2> QED
      BY <1>1, <1>2, <2>1, LeftFrame DEF LeftInv, Unpersistent
  <1>7. CASE releaseMachineReservation
    <2>1. /\ UNCHANGED dom /\ pc \in VolumeSteps /\ pc' = "Patch"
          /\ resv' = FALSE \/ (resv' = resv /\ work' = work)
      BY <1>7 DEF releaseMachineReservation, VolumeSteps
    <2> QED
      BY <1>1, <1>2, <2>1, LeftFrame DEF LeftInv, Unpersistent, VolumeSteps
  <1> QED
    BY <1>3, <1>4, <1>5, <1>6, <1>7

\* A reconcile begins with a copy that has every finalizer of the snapshot.
LEMMA BeginLeft ==
  ASSUME ApiInv, LeftInv, ReconcileDelete \/ ReconcilePaused \/ AddFinalizer
           \/ AwaitInfrastructure \/ ReconcileNormal
  PROVE  LeftInv'
  <1>1. /\ UNCHANGED <<obj, host>> /\ pc' \notin VolumeSteps
        /\ work'.fin \/ ~before'.fin
    BY DEF ApiInv, TypeOK, Object, Begin, Finish, ReconcileDelete,
       ReconcilePaused, AddFinalizer, AwaitInfrastructure, ReconcileNormal,
       VolumeSteps, api
  <1> QED
    BY <1>1, LeftFrame DEF Unpersistent, host

\* Patch takes the finalizer off when the reservation and the defined domain are
\* gone.
LEMMA PatchLeft ==
  ASSUME ApiInv, LeftInv, Patch
  PROVE  LeftInv'
  <1>1. /\ pc = "Patch" /\ pc' = "idle" /\ UNCHANGED host
        /\ obj' = obj \/ (Accepted /\ obj' = Stored(Merged))
    BY DEF ApiInv, TypeOK, Patch
  <1>2. CASE obj' = obj
    BY <1>1, <1>2, LeftFrame DEF Unpersistent, VolumeSteps, host
  <1>3. CASE Accepted /\ obj' = Stored(Merged)
    <2> DEFINE m == Merged
    <2>1. /\ obj \in Object /\ before \in Object /\ work \in Object
          /\ obj # NoObj /\ m # NoObj
          /\ m.fin = Merge(before.fin, work.fin, obj.fin)
      BY <1>3, PatchWrites
    <2>2. obj' = IF m.del /\ ~m.fin THEN NoObj ELSE m
      BY <1>3 DEF Stored
    <2> HIDE DEF m
    <2>3. ~m.fin => ~resv /\ Unpersistent
      BY <1>1, <2>1
      DEF LeftInv, LeftoverIsTransient, Unpersistent, Merge, Object
    <2> QED
      BY <1>1, <2>1, <2>2, <2>3
      DEF LeftInv, LeftoverIsTransient, Unpersistent, VolumeSteps, host
  <1> QED
    BY <1>1, <1>2, <1>3

\* The API server, the manager and the host bring neither a reservation nor a
\* defined domain, and take off no finalizer.
LEMMA EnvironmentLeft ==
  ASSUME ApiInv, LeftInv,
         \/ Environment \/ WatchEvent \/ ShutdownCompletes \/ ReconcileGone
         \/ UNCHANGED vars
  PROVE  LeftInv'
  <1>1. CASE CreateObject \/ DeleteObject \/ Move
    <2>1. UNCHANGED <<pc, local, host>>
      BY <1>1, Zenon DEF CreateObject, DeleteObject, Move
    <2>2. (obj = NoObj \/ ~obj.fin) \/ (obj' # NoObj /\ obj'.fin)
      <3>1. CASE CreateObject
        BY <3>1 DEF CreateObject
      <3>2. CASE DeleteObject
        <4>1. /\ obj \in Object
              /\ obj' = IF obj.fin THEN [obj EXCEPT !.del = TRUE] ELSE NoObj
          BY <3>2 DEF ApiInv, TypeOK, DeleteObject, Stored, Object
        <4>2. LET d == [obj EXCEPT !.del = TRUE]
              IN  d \in Object /\ d.fin = obj.fin
          BY <4>1, Zenon DEF Object
        <4> QED
          BY <4>1, <4>2, MachineAssumption, Zenon
      <3>3. CASE Move
        <4>1. PICK u \in UIDs :
                obj' = [NewObject(u) EXCEPT !.fin = TRUE, !.pid = obj.pid]
          BY <3>3, Zenon DEF Move
        <4>2. obj \in Object
          BY <3>3, SMTT(30) DEF ApiInv, TypeOK, Move
        <4> QED
          BY <4>1, <4>2, MachineAssumption, ObjectFacts, ZenonT(60) DEF NewObject
      <3> QED
        BY <1>1, <3>1, <3>2, <3>3
    <2> QED
      BY <2>1, <2>2, SMTT(30)
      DEF LeftInv, LeftoverIsTransient, Unpersistent, local, host
  <1>2. CASE HostChangesState \/ HostStops \/ HostRemoves \/ ShutdownCompletes
    <2>1. /\ UNCHANGED <<obj, pc, local, resv>>
          /\ dom # NoDom /\ dom \in Domain
          /\ \/ dom' = NoDom \/ dom' = Stopped(dom)
             \/ \E s \in {"RUNNING", "SHUTDOWN", "PAUSED"} :
                   dom' = [dom EXCEPT !.state = s]
      BY <1>2 DEF ApiInv, TypeOK, HostChangesState, HostStops, HostRemoves,
         ShutdownCompletes, IsActive, api
    <2>2. Unpersistent => Unpersistent'
      BY <2>1 DEF Unpersistent, Stopped, Domain
    <2> QED
      BY <2>1, <2>2, LeftFrame DEF LeftInv, local, Unpersistent
  <1>3. CASE \/ WatchEvent \/ Crash \/ ReconcileGone \/ Pause \/ Unpause
             \/ Calm \/ MachineEvent \/ UNCHANGED vars
    <2>1. UNCHANGED <<obj, host>> /\ (pc' = "idle" \/ UNCHANGED <<pc, local>>)
      BY <1>3, SMTT(30)
      DEF WatchEvent, Crash, ReconcileGone, Pause, Unpause, Calm, MachineEvent,
          vars, api
    <2> QED
      BY <2>1, LeftFrame DEF LeftInv, Unpersistent, VolumeSteps, local, host
  <1> QED
    BY <1>1, <1>2, <1>3 DEF Environment

\* deleteDomain and deleteVolume: what deletion overlooks when IsActive fails,
\* the host starts the domain behind its back, or the pool is gone, is never a
\* reservation, and never a domain that survives its next stop.
THEOREM LeftoverAlwaysTransient == Spec => []LeftoverIsTransient
  <1>1. Init => LeftInv
    BY DEF Init, LeftInv, LeftoverIsTransient, Unpersistent, VolumeSteps
  <1>2. ApiInv /\ LeftInv /\ [Next]_vars => LeftInv'
    BY CreateLeft, DeleteLeft, BeginLeft, PatchLeft, EnvironmentLeft
    DEF Next, Reconciler
  <1>3. LeftInv => LeftoverIsTransient
    BY DEF LeftInv
  <1> QED
    BY <1>1, <1>2, <1>3, ApiInvariance, PTL DEF Spec

\* reconcileDelete and DeleteMachine, with every fault: a live object never loses
\* its domain, a volume or its reservation to a deletion, although the deletion
\* acts on a cached object and may find what an earlier one left behind.
THEOREM LiveIsNeverDismantled == Spec => LiveNeverDismantled
  <1> DEFINE Removes == \/ pc = "Destroy" /\ pc' = "Undefine"
                        \/ pc = "Undefine" /\ pc' = "deleteRootDisk"
                        \/ disk /\ ~disk'
                        \/ iso # "absent" /\ iso' = "absent"
                        \/ resv /\ ~resv'
  <1>1. ApiInv /\ [Next]_vars => [Removes => ~Live(obj)]_vars
    <2> SUFFICES ASSUME ApiInv, Next, Removes
                 PROVE  ~Live(obj)
      BY DEF vars, host
    <2>1. pc \in DeleteSteps
      BY Removers, Zenon
      DEF ApiInv, Undefine, deleteRootDisk, deleteISODisk,
          releaseMachineReservation, DeleteSteps
    <2> QED
      BY <2>1, ApiDeleting DEF ApiInv, SnapshotInv
  <1> QED
    BY <1>1, ApiInvariance, PTL DEF Spec, LiveNeverDismantled

\* setProviderID, domainUUID and clusterctl move, with every fault: while an
\* object holds the name with its finalizer, the UUID that its domain is to
\* have never changes, before, when and after it is recorded.
THEOREM IdentityNeverChanges ==
  Spec => [][(Held /\ Held') => domainUUID(obj') = domainUUID(obj)]_vars
  <1>1. ASSUME ApiInv, [Next]_vars, Held, Held'
        PROVE  domainUUID(obj') = domainUUID(obj)
    <2>1. obj \in Object /\ obj # NoObj
      BY <1>1, MachineAssumption DEF ApiInv, TypeOK, Held
    <2>2. CASE Patch
      <3>1. obj' = obj \/ (Accepted /\ obj' = Stored(Merged))
        BY <1>1, <2>2 DEF ApiInv, TypeOK, Patch
      <3>2. ASSUME Accepted
            PROVE  domainUUID(Merged) = domainUUID(obj)
        BY <1>1, <2>2, <3>2, PatchWrites
      <3> QED
        BY <1>1, <3>1, <3>2, Zenon DEF Stored, Held
    <2>3. CASE DeleteObject
      <3>1. obj' = NoObj \/ obj' = [obj EXCEPT !.del = TRUE]
        BY <2>1, <2>3 DEF DeleteObject, Stored
      <3> QED
        BY <1>1, <2>1, <3>1 DEF Held, domainUUID, Object
    <2>4. CASE Move
      <3>1. PICK u \in UIDs :
              obj' = [NewObject(u) EXCEPT !.fin = TRUE, !.pid = obj.pid]
        BY <2>4, Zenon DEF Move
      <3>2. obj'.pid = obj.pid
        BY <2>1, <3>1, MachineAssumption, ObjectFacts, ZenonT(60) DEF NewObject
      <3>3. obj.pid # None
        BY <2>4 DEF Move
      <3> QED
        BY <3>2, <3>3 DEF domainUUID
    <2>5. Patch \/ DeleteObject \/ Move \/ obj' = obj
      <3>1. CASE Reconciler
        BY <3>1, Zenon
        DEF Reconciler, ReconcileGone, ReconcileDelete, ReconcilePaused,
            AddFinalizer, AwaitInfrastructure, ReconcileNormal, Begin,
            GetMachineState, StartMachine, createRootDisk, createISODisk,
            storageVolUpload, reserveMachineIP, DomainDefineXML, SetAutostart,
            Create, deleteDomain, Destroy, Undefine, deleteRootDisk,
            deleteISODisk, releaseMachineReservation, api
      <3>2. CASE Environment \/ WatchEvent \/ ShutdownCompletes
        BY <2>1, <3>2, Zenon
        DEF Environment, WatchEvent, Crash, CreateObject, Pause, Unpause,
            HostChangesState, HostStops, HostRemoves, ShutdownCompletes, Calm,
            MachineEvent, api
      <3> QED
        BY <1>1, <3>1, <3>2, Zenon DEF Next, vars, api
    <2> QED
      BY <2>2, <2>3, <2>4, <2>5
  <1>2. ApiInv /\ [Next]_vars
          => [(Held /\ Held') => domainUUID(obj') = domainUUID(obj)]_vars
    BY <1>1
  <1> QED
    BY <1>2, ApiInvariance, PTL DEF Spec
=============================================================================
