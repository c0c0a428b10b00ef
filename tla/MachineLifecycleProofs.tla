----------------------- MODULE MachineLifecycleProofs -----------------------
(***************************************************************************)
(* LibvirtMachine implements MachineLifecycle, for every set of UIDs, on a *)
(* host without the faults that DeleteMachine does not notice.             *)
(*                                                                         *)
(* The refinement mapping of module LibvirtMachine reads the lifecycle off *)
(* the API server and the host.  Each step is one step of the lifecycle or *)
(* leaves it alone; which one it is follows from the inductive invariant   *)
(* of LibvirtMachineProofs, and from one more fact: an object that does    *)
(* not carry the finalizer has no provider ID yet.                         *)
(***************************************************************************)
EXTENDS LibvirtMachineProofs

PidInv == (obj # NoObj /\ ~obj.fin) => obj.pid = None

LInv == IInv /\ PidInv

\* A step that leaves what the mapping reads alone leaves the lifecycle alone.
LEMMA Stutter ==
  ASSUME UNCHANGED <<Phase, Identity, Recorded, DomainOnHost, PartsOnHost>>
  PROVE  [Lifecycle!Next]_(Lifecycle!vars)
  BY DEF Lifecycle!vars

\* The mapping reads only the object's phase on the API side.
LEMMA ApiFrame ==
  ASSUME obj' = obj
  PROVE  UNCHANGED <<Phase, Identity, Recorded>>
  BY DEF Phase, Identity, Recorded, Held, domainUUID

\* The parts depend on the three things below the domain only.
LEMMA PartsFrame ==
  ASSUME disk' = disk, resv' = resv,
         (iso' # "absent") = (iso # "absent")
  PROVE  PartsOnHost' = PartsOnHost
  BY DEF PartsOnHost

\* A machine that is being built is held, and its domain gets its identity.
LEMMA Building ==
  ASSUME IInv, pc \in CreateSteps \cup {"GetMachineState", "StartMachine"}
  PROVE  /\ Phase # "free" /\ Held
         /\ Identity = domainUUID(before)
  BY Creating DEF Phase, Identity, Held

\* Adding a part, or one that is there already, is Build or nothing.
LEMMA BuildStep ==
  ASSUME NEW p \in {"rootDisk", "isoDisk", "reservation"}, Phase # "free",
         UNCHANGED <<Phase, Identity, Recorded, DomainOnHost>>,
         PartsOnHost' = PartsOnHost \cup {p}
  PROVE  [Lifecycle!Next]_(Lifecycle!vars)
  <1>1. CASE p \in PartsOnHost
    BY <1>1, Stutter
  <1>2. CASE p \notin PartsOnHost
    BY <1>2 DEF Lifecycle!Next, Lifecycle!Build, Lifecycle!Parts
  <1> QED
    BY <1>1, <1>2

\* Taking a part away, or one that is gone already, is Dismantle or nothing.
LEMMA DismantleStep ==
  ASSUME NEW p, Phase = "deleting" \/ p \notin PartsOnHost,
         DomainOnHost = None,
         UNCHANGED <<Phase, Identity, Recorded, DomainOnHost>>,
         PartsOnHost' = PartsOnHost \ {p}
  PROVE  [Lifecycle!Next]_(Lifecycle!vars)
  <1>1. CASE p \notin PartsOnHost
    BY <1>1, Stutter
  <1>2. CASE p \in PartsOnHost
    BY <1>2 DEF Lifecycle!Next, Lifecycle!Dismantle
  <1> QED
    BY <1>1, <1>2

\* The domain goes, or was not there.
LEMMA LoseStep ==
  ASSUME UNCHANGED <<Phase, Identity, Recorded, PartsOnHost>>,
         DomainOnHost' = None
  PROVE  [Lifecycle!Next]_(Lifecycle!vars)
  <1>1. CASE DomainOnHost = None
    BY <1>1, Stutter
  <1>2. CASE DomainOnHost # None
    BY <1>2 DEF Lifecycle!Next, Lifecycle!Lose
  <1> QED
    BY <1>1, <1>2

\* The calls of CreateMachine before the domain is defined are Build.
LEMMA CreateCalls ==
  ASSUME IInv, createRootDisk \/ createISODisk \/ storageVolUpload
                 \/ reserveMachineIP
  PROVE  [Lifecycle!Next]_(Lifecycle!vars)
  <1>1. pc \in CreateSteps /\ obj' = obj /\ dom' = dom
    BY DEF createRootDisk, createISODisk, storageVolUpload, reserveMachineIP,
       CreateSteps, api
  <1>2. UNCHANGED <<Phase, Identity, Recorded, DomainOnHost>> /\ Phase # "free"
    BY <1>1, ApiFrame, Building DEF DomainOnHost
  <1>3. CASE createRootDisk
    <2>1. disk' = disk \/ disk'
      BY <1>3 DEF createRootDisk
    <2>2. PartsOnHost' = PartsOnHost \/ PartsOnHost' = PartsOnHost \cup {"rootDisk"}
      BY <1>3, <2>1 DEF createRootDisk, PartsOnHost
    <2> QED
      BY <1>2, <2>2, Stutter, BuildStep
  <1>4. CASE createISODisk
    <2>1. iso' = iso \/ iso' # "absent"
      BY <1>4 DEF createISODisk, writeCloudInitISOFails
    <2>2. PartsOnHost' = PartsOnHost \/ PartsOnHost' = PartsOnHost \cup {"isoDisk"}
      BY <1>4, <2>1 DEF createISODisk, PartsOnHost
    <2> QED
      BY <1>2, <2>2, Stutter, BuildStep
  <1>5. CASE storageVolUpload
    <2>1. iso # "absent" /\ iso' # "absent"
      BY <1>1, <1>5, Creating, ObjectFacts, MachineAssumption, Zenon
      DEF IInv, HostInv, storageVolUpload, instanceID
    <2> QED
      BY <1>2, <1>5, <2>1, PartsFrame, Stutter, SMTT(30) DEF storageVolUpload
  <1>6. CASE reserveMachineIP
    <2>1. resv' = resv \/ resv'
      BY <1>6 DEF reserveMachineIP
    <2>2. PartsOnHost' = PartsOnHost \/ PartsOnHost' = PartsOnHost \cup {"reservation"}
      BY <1>6, <2>1 DEF reserveMachineIP, PartsOnHost
    <2> QED
      BY <1>2, <2>2, Stutter, BuildStep
  <1> QED
    BY <1>3, <1>4, <1>5, <1>6

\* DomainDefineXML is Define: all parts are there, and the UUID that Reconcile
\* computed is still the identity of the object.
LEMMA DefineCall ==
  ASSUME IInv, IInv', DomainDefineXML
  PROVE  [Lifecycle!Next]_(Lifecycle!vars)
  <1>1. pc \in CreateSteps /\ obj' = obj /\ UNCHANGED <<disk, iso, resv>>
    BY DEF DomainDefineXML, CreateSteps, api
  <1>2. /\ UNCHANGED <<Phase, Identity, Recorded, PartsOnHost>>
        /\ Phase # "free" /\ Held
    BY <1>1, ApiFrame, PartsFrame, Building
  <1>3. PartsOnHost = {"rootDisk", "isoDisk", "reservation"}
    BY <1>1 DEF IInv, HostInv, DomainDefineXML, CreateSteps, PartsOnHost
  <1>4. dom' # NoDom => DomainOnHost' = Identity
    BY <1>1, <1>2 DEF IInv, IdentityInv, DomainOnHost, Identity, Held, domainUUID
  <1>5. dom # NoDom => DomainOnHost = Identity
    BY <1>2 DEF IInv, IdentityInv, DomainOnHost, Identity, Held
  <1>6. CASE dom' = dom
    BY <1>2, <1>6, Stutter DEF DomainOnHost
  <1>7. CASE dom' # dom /\ dom' # NoDom
    BY <1>2, <1>3, <1>4, <1>5, <1>7, Stutter, SMTT(30)
    DEF DomainOnHost, Lifecycle!Next, Lifecycle!Define, Lifecycle!Parts
  <1>8. dom' = dom \/ dom' # NoDom
    BY <1>1, Creating, ObjectFacts, DomainFacts, MachineAssumption, Zenon
    DEF DomainDefineXML
  <1> QED
    BY <1>6, <1>7, <1>8

\* Starting, stopping and autostart keep the domain and its UUID.
LEMMA DomainCalls ==
  ASSUME IInv, SetAutostart \/ Create \/ StartMachine \/ Destroy
                 \/ HostChangesState \/ HostStops \/ ShutdownCompletes
  PROVE  [Lifecycle!Next]_(Lifecycle!vars)
  <1>1. obj' = obj /\ UNCHANGED <<disk, iso, resv>>
    BY Zenon DEF SetAutostart, Create, StartMachine, Destroy, HostChangesState,
       HostStops, ShutdownCompletes, api
  <1>2. dom' = dom \/ (dom # NoDom /\ dom' # NoDom /\ dom'.uuid = dom.uuid)
    <2>1. dom # NoDom => dom \in Domain /\ dom.persistent
      BY DEF IInv, TypeOK, HostInv
    <2>2. CASE SetAutostart \/ Create \/ StartMachine
      BY <2>1, <2>2, DomainUpdate, ZenonT(60) DEF SetAutostart, Create, StartMachine, CanStart
    <2>3. CASE Destroy \/ HostStops \/ ShutdownCompletes
      BY <2>1, <2>3, DomainUpdate DEF Destroy, HostStops, ShutdownCompletes, IsActive
    <2>4. CASE HostChangesState
      <3>1. PICK t \in {"RUNNING", "SHUTDOWN", "PAUSED"} :
              dom' = [dom EXCEPT !.state = t] /\ dom # NoDom
        BY <2>4 DEF HostChangesState
      <3> QED
        BY <2>1, <3>1, DomainUpdate
    <2> QED
      BY <2>2, <2>3, <2>4
  <1>3. DomainOnHost' = DomainOnHost
    BY <1>2 DEF DomainOnHost
  <1> QED
    BY <1>1, <1>3, ApiFrame, PartsFrame, Stutter

\* Undefine, and a removal on the host, are Lose.
LEMMA RemoveCalls ==
  ASSUME IInv, Undefine \/ HostRemoves
  PROVE  [Lifecycle!Next]_(Lifecycle!vars)
  <1>1. obj' = obj /\ UNCHANGED <<disk, iso, resv>>
    BY DEF Undefine, HostRemoves, api
  <1>2. dom' = dom \/ dom' = NoDom
    BY DEF IInv, HostInv, Undefine, HostRemoves
  <1>3. DomainOnHost' = DomainOnHost \/ DomainOnHost' = None
    BY <1>2 DEF DomainOnHost
  <1> QED
    BY <1>1, <1>3, ApiFrame, PartsFrame, Stutter, LoseStep

\* The calls of DeleteMachine after the domain is gone are Dismantle: what is
\* on the host is held by an object, and a deletion in flight means that it
\* is being deleted.
LEMMA DeleteCalls ==
  ASSUME Faults = {}, IInv,
         deleteRootDisk \/ deleteISODisk \/ releaseMachineReservation
  PROVE  [Lifecycle!Next]_(Lifecycle!vars)
  <1>1. pc \in DeleteSteps /\ obj' = obj /\ dom' = dom /\ dom = NoDom
    BY DEF IInv, HostInv, deleteRootDisk, deleteISODisk,
       releaseMachineReservation, DeleteSteps, api
  <1>2. UNCHANGED <<Phase, Identity, Recorded, DomainOnHost>> /\ DomainOnHost = None
    BY <1>1, ApiFrame DEF DomainOnHost
  <1>3. Phase = "deleting" \/ PartsOnHost = {}
    <2>1. CASE ~Held
      BY <2>1, FaultFree DEF NoOrphan, HostClean, Held, PartsOnHost
    <2>2. CASE Held
      BY <1>1, <2>2, Deleting DEF IInv, SnapshotInv, Live, Held, Phase
    <2> QED
      BY <2>1, <2>2
  <1>4. CASE deleteRootDisk
    <2>1. disk' = disk \/ ~disk'
      BY <1>4 DEF deleteRootDisk
    <2>2. PartsOnHost' = PartsOnHost \/ PartsOnHost' = PartsOnHost \ {"rootDisk"}
      BY <1>4, <2>1 DEF deleteRootDisk, PartsOnHost
    <2> QED
      BY <1>2, <1>3, <2>2, Stutter, DismantleStep
  <1>5. CASE deleteISODisk
    <2>1. iso' = iso \/ iso' = "absent"
      BY <1>5 DEF deleteISODisk
    <2>2. PartsOnHost' = PartsOnHost \/ PartsOnHost' = PartsOnHost \ {"isoDisk"}
      BY <1>5, <2>1 DEF deleteISODisk, PartsOnHost
    <2> QED
      BY <1>2, <1>3, <2>2, Stutter, DismantleStep
  <1>6. CASE releaseMachineReservation
    <2>1. resv' = resv \/ ~resv'
      BY <1>6 DEF releaseMachineReservation
    <2>2. PartsOnHost' = PartsOnHost \/ PartsOnHost' = PartsOnHost \ {"reservation"}
      BY <1>6, <2>1 DEF releaseMachineReservation, PartsOnHost
    <2> QED
      BY <1>2, <1>3, <2>2, Stutter, DismantleStep
  <1> QED
    BY <1>4, <1>5, <1>6

\* Steps that touch neither the object nor the host.
LEMMA OtherSteps ==
  ASSUME UNCHANGED <<obj, host>>
  PROVE  [Lifecycle!Next]_(Lifecycle!vars)
  <1>1. UNCHANGED <<dom, disk, iso, resv>> /\ obj' = obj
    BY DEF host
  <1>2. DomainOnHost' = DomainOnHost
    BY <1>1 DEF DomainOnHost
  <1> QED
    BY <1>1, <1>2, ApiFrame, PartsFrame, Stutter

\* A step that changes the object only.
LEMMA HostUnchanged ==
  ASSUME UNCHANGED host
  PROVE  UNCHANGED <<DomainOnHost, PartsOnHost>>
  BY PartsFrame DEF DomainOnHost, host

\* Patch takes the name (Hold), records the identity (Record), or gives the
\* name up on a clean host (Release).
LEMMA PatchStep ==
  ASSUME Faults = {}, LInv, Patch
  PROVE  [Lifecycle!Next]_(Lifecycle!vars) /\ PidInv'
  <1>1. UNCHANGED host /\ (obj' = obj \/ (Accepted /\ obj' = Stored(Merged)))
    BY DEF LInv, IInv, TypeOK, Patch
  <1>2. UNCHANGED <<DomainOnHost, PartsOnHost>>
    BY <1>1, HostUnchanged
  <1>3. CASE obj' = obj
    BY <1>1, <1>3, OtherSteps DEF LInv, PidInv
  <1>4. CASE Accepted /\ obj' = Stored(Merged)
    <2> DEFINE m == Merged
    <2>1. /\ obj \in Object /\ before \in Object /\ work \in Object
          /\ pc = "Patch" /\ obj # NoObj
      BY <1>4, MachineAssumption DEF LInv, IInv, TypeOK, Patch, Accepted
    <2>2. /\ m.uid = obj.uid /\ m.del = obj.del /\ m \in Object
          /\ m.fin = Merge(before.fin, work.fin, obj.fin)
          /\ m.pid = Merge(before.pid, work.pid, obj.pid)
          /\ m # NoObj
      BY <2>1, MachineAssumption, ZenonT(60) DEF Object, Merged, Merge
    <2>3. obj.pid \in {None, m.pid}
      BY <1>4 DEF Accepted
    <2>4. obj' = IF m.del /\ ~m.fin THEN NoObj ELSE m
      BY <1>4 DEF Stored
    <2> HIDE DEF m
    <2>5. m.pid # obj.pid => /\ obj.fin /\ m.fin /\ obj.pid = None
                             /\ m.pid = domainUUID(obj)
      BY <2>1, <2>2, <2>3, MachineAssumption
      DEF LInv, IInv, WorkInv, SnapshotInv, Backs, Live, domainUUID, Merge, Object
    <2>6. ~obj.fin => ~obj.del /\ obj.pid = None
      BY <2>1 DEF LInv, IInv, CacheInv, HeldByFinalizer, PidInv
    <2>7. (obj.fin /\ ~m.fin) => obj.del /\ HostClean
      BY <2>1, <2>2, FaultFree
      DEF LInv, IInv, WorkInv, SnapshotInv, HostInv, Live, Merge, Object
    <2>8. PidInv'
      BY <2>2, <2>4, <2>5, <2>6, <2>7 DEF PidInv
    <2>9. CASE ~obj.fin /\ ~m.fin
      BY <1>2, <2>1, <2>2, <2>4, <2>8, <2>9, Stutter
      DEF Phase, Identity, Recorded, Held
    <2>10. CASE ~obj.fin /\ m.fin
      <3>1. Phase = "free" /\ Phase' = "held"
        BY <2>2, <2>4, <2>6, <2>10, SMTT(30) DEF Phase, Held
      <3>2. Identity' \in UIDs
        BY <2>2, <2>4, <2>10, ObjectFacts, Zenon DEF Identity, Held, domainUUID
      <3>3. ~Recorded /\ ~Recorded'
        BY <2>2, <2>4, <2>5, <2>6, <2>10 DEF Recorded, Held
      <3>4. Recorded' = Recorded
        BY <3>3, Zenon DEF Recorded, Held
      <3>5. Lifecycle!Hold
        BY <1>2, <3>1, <3>2, <3>4 DEF Lifecycle!Hold
      <3> QED
        BY <2>8, <3>5 DEF Lifecycle!Next
    <2>11. CASE obj.fin /\ m.fin
      <3>1. obj' = m
        BY <2>4, <2>11
      <3>2. Phase' = Phase /\ Phase # "free"
        BY <2>1, <2>2, <2>11, <3>1 DEF Phase, Held
      <3>3. Identity' = Identity
        BY <2>1, <2>2, <2>5, <2>11, <3>1, MachineAssumption, Zenon
        DEF Identity, Held, domainUUID, Object
      <3>4. CASE m.pid = obj.pid
        <4>1. Recorded' = Recorded
          BY <2>1, <2>2, <2>11, <3>1, <3>4 DEF Recorded, Held
        <4> QED
          BY <1>2, <2>8, <3>2, <3>3, <4>1, Stutter
      <3>5. CASE m.pid # obj.pid
        <4>1. ~Recorded /\ Recorded' = TRUE
          BY <2>1, <2>2, <2>5, <2>11, <3>1, <3>5, MachineAssumption
          DEF Recorded, Held, Object
        <4>2. Lifecycle!Record
          BY <1>2, <3>2, <3>3, <4>1 DEF Lifecycle!Record
        <4> QED
          BY <2>8, <4>2 DEF Lifecycle!Next
      <3> QED
        BY <3>4, <3>5
    <2>12. CASE obj.fin /\ ~m.fin
      <3>1. obj' = NoObj
        BY <2>2, <2>4, <2>7, <2>12
      <3>2. Phase = "deleting" /\ Phase' = "free" /\ Identity' = None
        BY <2>1, <2>7, <2>12, <3>1 DEF Phase, Identity, Held
      <3>3. Recorded' = FALSE
        BY <3>1 DEF Recorded, Held
      <3>4. DomainOnHost = None /\ PartsOnHost = {}
        BY <2>7, <2>12 DEF HostClean, DomainOnHost, PartsOnHost
      <3>5. Lifecycle!Release
        BY <1>2, <3>2, <3>3, <3>4 DEF Lifecycle!Release
      <3> QED
        BY <2>8, <3>5 DEF Lifecycle!Next
    <2> QED
      BY <2>1, <2>2, <2>8, <2>9, <2>10, <2>11, <2>12 DEF Object
  <1> QED
    BY <1>1, <1>3, <1>4

\* A new object does not hold the name yet.
LEMMA CreateObjectStep ==
  ASSUME LInv, CreateObject
  PROVE  [Lifecycle!Next]_(Lifecycle!vars) /\ PidInv'
  <1>1. obj = NoObj /\ ~obj'.fin /\ obj'.pid = None /\ UNCHANGED host
    BY DEF CreateObject, NewObject
  <1>2. UNCHANGED <<Phase, Identity, Recorded>>
    BY <1>1 DEF Phase, Identity, Recorded, Held
  <1> QED
    BY <1>1, <1>2, HostUnchanged, Stutter DEF PidInv

\* A deletion is requested of a held machine, or removes an object that never
\* held the name.
LEMMA DeleteObjectStep ==
  ASSUME LInv, DeleteObject
  PROVE  [Lifecycle!Next]_(Lifecycle!vars) /\ PidInv'
  <1>1. /\ obj \in Object /\ obj # NoObj /\ ~obj.del /\ UNCHANGED host
        /\ obj' = IF obj.fin THEN [obj EXCEPT !.del = TRUE] ELSE NoObj
    BY DEF LInv, IInv, TypeOK, DeleteObject, Stored, Object
  <1>2. UNCHANGED <<DomainOnHost, PartsOnHost>>
    BY <1>1, HostUnchanged
  <1>3. CASE obj.fin
    <2>1. /\ obj' # NoObj /\ obj'.fin /\ obj'.del
          /\ obj'.pid = obj.pid /\ obj'.uid = obj.uid
      <3>1. obj' = [obj EXCEPT !.del = TRUE]
        BY <1>1, <1>3, SMTT(30)
      <3>2. obj' # NoObj
        BY <1>1, <3>1, MachineAssumption, ObjectFacts, Zenon
      <3> QED
        BY <1>1, <1>3, <3>1, <3>2 DEF Object
    <2>2. Phase = "held" /\ Phase' = "deleting" /\ UNCHANGED <<Identity, Recorded>>
      BY <1>1, <1>3, <2>1 DEF Phase, Identity, Recorded, Held, domainUUID
    <2>3. Lifecycle!RequestDeletion
      BY <1>2, <2>2 DEF Lifecycle!RequestDeletion
    <2> QED
      BY <2>1, <2>3 DEF Lifecycle!Next, PidInv
  <1>4. CASE ~obj.fin
    <2>1. UNCHANGED <<Phase, Identity, Recorded>>
      BY <1>1, <1>4 DEF Phase, Identity, Recorded, Held
    <2> QED
      BY <1>1, <1>2, <1>4, <2>1, Stutter DEF PidInv
  <1> QED
    BY <1>3, <1>4

\* clusterctl move changes the UID of the object, not what it stands for.
LEMMA MoveStep ==
  ASSUME LInv, Move
  PROVE  [Lifecycle!Next]_(Lifecycle!vars) /\ PidInv'
  <1>1. /\ obj \in Object /\ obj # NoObj /\ obj.fin /\ ~obj.del
        /\ obj.pid # None /\ UNCHANGED host
    BY SMTT(30) DEF LInv, IInv, TypeOK, Move
  <1>2. obj' # NoObj /\ obj'.fin /\ ~obj'.del /\ obj'.pid = obj.pid
    <2>1. PICK u \in UIDs :
            obj' = [NewObject(u) EXCEPT !.fin = TRUE, !.pid = obj.pid]
      BY Zenon DEF Move
    <2> QED
      BY <1>1, <2>1, MachineAssumption, ObjectFacts, ZenonT(60) DEF NewObject
  <1>3. UNCHANGED <<Phase, Identity, Recorded>>
    BY <1>1, <1>2 DEF Phase, Identity, Recorded, Held, domainUUID
  <1> QED
    BY <1>1, <1>2, <1>3, HostUnchanged, Stutter DEF PidInv

\* Every step is a step of the lifecycle or leaves it alone.
LEMMA LifecycleStep ==
  ASSUME Faults = {}, LInv, [Next]_vars
  PROVE  [Lifecycle!Next]_(Lifecycle!vars) /\ PidInv'
  <1> USE DEF LInv
  <1>1. CASE obj' = obj
    <2>1. PidInv'
      BY <1>1 DEF PidInv
    <2>2. CASE UNCHANGED host
      BY <1>1, <2>1, <2>2, OtherSteps
    <2>3. CASE ~UNCHANGED host
      <3>1. \/ createRootDisk \/ createISODisk \/ storageVolUpload
            \/ reserveMachineIP \/ DomainDefineXML \/ SetAutostart \/ Create
            \/ StartMachine \/ Destroy \/ HostChangesState \/ HostStops
            \/ ShutdownCompletes \/ Undefine \/ HostRemoves
            \/ deleteRootDisk \/ deleteISODisk \/ releaseMachineReservation
        <4>1. CASE Reconciler
          <5>1. ~(ReconcileGone \/ ReconcileDelete \/ ReconcilePaused
                    \/ AddFinalizer \/ AwaitInfrastructure \/ ReconcileNormal)
            BY <2>3, Zenon DEF ReconcileGone, ReconcileDelete, ReconcilePaused,
               AddFinalizer, AwaitInfrastructure, ReconcileNormal, Begin
          <5>2. ~(GetMachineState \/ deleteDomain \/ Patch)
            BY <2>3 DEF GetMachineState, deleteDomain, Patch
          <5> QED
            BY <4>1, <5>1, <5>2 DEF Reconciler
        <4>2. CASE Environment
          BY <2>3, <4>2, Zenon
          DEF Environment, MachineEvent, Crash, CreateObject, DeleteObject,
              Pause, Unpause, Move, Calm
        <4>3. CASE WatchEvent \/ ShutdownCompletes \/ UNCHANGED vars
          BY <2>3, <4>3 DEF WatchEvent, vars
        <4> QED
          BY <4>1, <4>2, <4>3 DEF Next
      <3>2. CASE createRootDisk \/ createISODisk \/ storageVolUpload
                   \/ reserveMachineIP
        BY <2>1, <3>2, CreateCalls
      <3>3. CASE DomainDefineXML
        <4>1. IInv'
          BY InvStep
        <4> QED
          BY <2>1, <3>3, <4>1, DefineCall
      <3>4. CASE SetAutostart \/ Create \/ StartMachine \/ Destroy
                   \/ HostChangesState \/ HostStops \/ ShutdownCompletes
        BY <2>1, <3>4, DomainCalls
      <3>5. CASE Undefine \/ HostRemoves
        BY <2>1, <3>5, RemoveCalls
      <3>6. CASE deleteRootDisk \/ deleteISODisk \/ releaseMachineReservation
        BY <2>1, <3>6, DeleteCalls
      <3> QED
        BY <3>1, <3>2, <3>3, <3>4, <3>5, <3>6
    <2> QED
      BY <2>2, <2>3
  <1>2. CASE obj' # obj
    <2>1. Patch \/ CreateObject \/ DeleteObject \/ Move
      <3>1. CASE Reconciler
        <4>1. ~(ReconcileGone \/ ReconcileDelete \/ ReconcilePaused
                  \/ AddFinalizer \/ AwaitInfrastructure \/ ReconcileNormal)
          BY <1>2, Zenon DEF ReconcileGone, ReconcileDelete, ReconcilePaused,
             AddFinalizer, AwaitInfrastructure, ReconcileNormal, Begin, api
        <4>2. ~(GetMachineState \/ StartMachine \/ createRootDisk \/ createISODisk
                  \/ storageVolUpload \/ reserveMachineIP \/ DomainDefineXML
                  \/ SetAutostart \/ Create \/ deleteDomain \/ Destroy \/ Undefine
                  \/ deleteRootDisk \/ deleteISODisk \/ releaseMachineReservation)
          BY <1>2, Zenon DEF GetMachineState, StartMachine, createRootDisk,
             createISODisk, storageVolUpload, reserveMachineIP,
             DomainDefineXML, SetAutostart, Create, deleteDomain, Destroy,
             Undefine, deleteRootDisk, deleteISODisk,
             releaseMachineReservation, api
        <4> QED
          BY <3>1, <4>1, <4>2 DEF Reconciler
      <3>2. CASE Environment
        BY <1>2, <3>2
        DEF Environment, MachineEvent, Crash, Pause, Unpause, Calm,
            HostChangesState, HostStops, HostRemoves, api
      <3>3. CASE WatchEvent \/ ShutdownCompletes \/ UNCHANGED vars
        BY <1>2, <3>3 DEF WatchEvent, ShutdownCompletes, vars, api
      <3> QED
        BY <3>1, <3>2, <3>3 DEF Next
    <2> QED
      BY <2>1, PatchStep, CreateObjectStep, DeleteObjectStep, MoveStep
  <1> QED
    BY <1>1, <1>2

\* Reconcile with the Provider implements the lifecycle: on a host that
\* behaves while a domain is deleted, what caches, retries, failed calls,
\* crashes and clusterctl move do is a lifecycle of the machine.
THEOREM LifecycleImplemented ==
  ASSUME Faults = {}
  PROVE  Spec => ImplementsLifecycle
  <1>1. Init => LInv /\ Lifecycle!Init
    <2>1. Init => LInv
      BY InvInit DEF LInv, PidInv, Init
    <2>2. Init => Lifecycle!Init
      BY DEF Init, Lifecycle!Init, Phase, Identity, Recorded, Held,
         DomainOnHost, PartsOnHost
    <2> QED
      BY <2>1, <2>2
  <1>2. LInv /\ [Next]_vars => LInv' /\ [Lifecycle!Next]_(Lifecycle!vars)
    BY InvStep, LifecycleStep DEF LInv
  <1> QED
    BY <1>1, <1>2, PTL DEF Spec, ImplementsLifecycle, Lifecycle!Spec
=============================================================================
