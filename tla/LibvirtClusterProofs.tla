------------------------ MODULE LibvirtClusterProofs ------------------------
(***************************************************************************)
(* Proofs about module LibvirtCluster, for every set of reasons and every  *)
(* number of edits.                                                        *)
(*                                                                         *)
(* That a finalizer stays depends on what the cache and the snapshot of    *)
(* the reconcile in flight may still believe: one that is being deleted    *)
(* proves that no live object has taken its place.  That nothing is left   *)
(* half written depends on the events: while there is none, the object is  *)
(* the snapshot, so a write that changes anything raises one.              *)
(***************************************************************************)
EXTENDS LibvirtCluster, TLAPS

PatchSteps == {"patchStatusConditions", "patch", "patchStatus"}

\* The finalizer of this object must stay.
Live(o) == o # NoObj /\ o.fin /\ ~o.del

\* An object that is being deleted is kept by the finalizer.
HeldByFinalizer(o) == (o # NoObj /\ o.del) => o.fin

CacheInv ==
    /\ HeldByFinalizer(obj)
    /\ HeldByFinalizer(cached)
    /\ ~pending => cached = obj
    /\ (cached # NoObj /\ cached.del) => ~Live(obj)

\* What the snapshot of the reconcile in flight still guarantees.
SnapshotInv ==
    pc # "idle" =>
      /\ HeldByFinalizer(before)
      /\ before.del => ~Live(obj) /\ ~Live(cached)
      /\ (~before.fin /\ cached # NoObj /\ cached.del)
            => obj # NoObj /\ obj.del

\* How far the copy that the reconcile changes is from the snapshot.
WorkInv ==
    pc # "idle" =>
      /\ work.del = before.del /\ work.owner = before.owner /\ work.ep = before.ep
      /\ (before.fin /\ ~work.fin) => before.del
      /\ (~before.fin /\ work.fin) => ~before.del
      /\ pc \in {"Load", "EnsureInfra"} =>
           work.owner /\ work.fin /\ ~work.del /\ work.epCond = "True"

FinInv == TypeOK /\ CacheInv /\ SnapshotInv /\ WorkInv

\* The status that a reconcile may leave alone.
Settled(o) ==
    /\ o.fin /\ ~o.del
    /\ \/ o.epCond = "False" /\ ~o.ready
       \/ o.epCond = "True" /\ o.infraCond = "True" /\ o.ready

\* No event, request or requeue tells that the object is to be looked at again.
Unnoticed == ~pending /\ ~queued /\ ~requeue

RestInv ==
    /\ (pc # "idle" /\ ~pending /\ ~queued) => before = cached
    /\ (pc \in {"patch", "patchStatus"} /\ Unnoticed) =>
         work.epCond = before.epCond /\ work.infraCond = before.infraCond
    /\ (pc = "patchStatus" /\ Unnoticed) => work.fin = before.fin
    /\ (pc \in PatchSteps /\ Unnoticed) =>
         ~work.owner \/ paused \/ work.fin # before.fin \/ Settled(work)
    /\ StatusAtRest

IInv == FinInv /\ RestInv

-----------------------------------------------------------------------------
(* Type correctness.                                                       *)

\* The objects that the reconciler and the users make have their type.
LEMMA ObjectFacts ==
  /\ \A owner, ep \in BOOLEAN :
       /\ NewObject(owner, ep) \in Object
       /\ ~NewObject(owner, ep).fin /\ ~NewObject(owner, ep).del
  /\ \A o \in Object : \A b \in BOOLEAN :
       /\ [o EXCEPT !.fin = b] \in Object
       /\ [o EXCEPT !.ready = b] \in Object
       /\ [o EXCEPT !.owner = b] \in Object
       /\ [o EXCEPT !.del = b] \in Object
       /\ [o EXCEPT !.ep = b] \in Object
  /\ \A o \in Object : \A b \in BOOLEAN :
       [o EXCEPT !.epCond = "False", !.ready = b] \in Object
  /\ \A o \in Object : \A b \in BOOLEAN :
       [o EXCEPT !.infraCond = "True", !.ready = b] \in Object
  /\ \A o \in Object : [o EXCEPT !.epCond = "True"] \in Object
  /\ \A o \in Object : \A r \in Reasons : [o EXCEPT !.infraCond = r] \in Object
  <1>1. \A owner, ep \in BOOLEAN :
          /\ NewObject(owner, ep) \in Object
          /\ ~NewObject(owner, ep).fin /\ ~NewObject(owner, ep).del
    BY DEF Object, NewObject
  <1>2. \A o \in Object : \A b \in BOOLEAN :
          /\ [o EXCEPT !.fin = b] \in Object
          /\ [o EXCEPT !.ready = b] \in Object
          /\ [o EXCEPT !.owner = b] \in Object
          /\ [o EXCEPT !.del = b] \in Object
          /\ [o EXCEPT !.ep = b] \in Object
    BY DEF Object
  <1>3. \A o \in Object : \A b \in BOOLEAN :
          [o EXCEPT !.epCond = "False", !.ready = b] \in Object
    BY Zenon DEF Object
  <1>4. \A o \in Object : \A b \in BOOLEAN :
          [o EXCEPT !.infraCond = "True", !.ready = b] \in Object
    BY Zenon DEF Object
  <1>5. \A o \in Object : [o EXCEPT !.epCond = "True"] \in Object
    BY DEF Object
  <1>6. \A o \in Object : \A r \in Reasons : [o EXCEPT !.infraCond = r] \in Object
    BY DEF Object
  <1> QED
    BY <1>1, <1>2, <1>3, <1>4, <1>5, <1>6, Zenon

\* What the conditions part of the patch stores.
ConditionsMerged ==
    [obj EXCEPT !.epCond = Merge(before.epCond, work.epCond, @),
                !.infraCond = Merge(before.infraCond, work.infraCond, @)]

\* It changes the conditions only.
LEMMA MergedFacts ==
  ASSUME obj \in Object, before \in Object, work \in Object
  PROVE  LET m == ConditionsMerged
         IN  /\ m \in Object
             /\ m.del = obj.del /\ m.fin = obj.fin /\ m.owner = obj.owner
             /\ m.epCond = Merge(before.epCond, work.epCond, obj.epCond)
             /\ m.infraCond = Merge(before.infraCond, work.infraCond, obj.infraCond)
  BY Zenon DEF Object, ConditionsMerged, Merge

\* The finalizer part of the patch.
LEMMA FinFacts ==
  ASSUME NEW o \in Object, NEW b \in BOOLEAN
  PROVE  LET m == [o EXCEPT !.fin = b]
         IN  /\ m \in Object /\ m.del = o.del /\ m.fin = b /\ m.owner = o.owner
             /\ m.ep = o.ep /\ m.ready = o.ready /\ m.epCond = o.epCond
             /\ m.infraCond = o.infraCond
  BY DEF Object

\* The status part of the patch.
LEMMA ReadyFacts ==
  ASSUME NEW o \in Object, NEW b \in BOOLEAN
  PROVE  LET m == [o EXCEPT !.ready = b]
         IN  m \in Object /\ m.del = o.del /\ m.fin = o.fin /\ m.ready = b
  BY DEF Object
-----------------------------------------------------------------------------
(* Each step preserves the invariant.                                      *)

\* A step that ends a reconcile or happens without one.
LEMMA IdleInv ==
  ASSUME pc' = "idle"
  PROVE  SnapshotInv' /\ WorkInv' /\ (StatusAtRest' => RestInv')
  BY DEF SnapshotInv, WorkInv, RestInv, PatchSteps

\* A step that touches neither the object nor the cache.
LEMMA CacheFrame ==
  ASSUME CacheInv, UNCHANGED api
  PROVE  CacheInv'
  BY DEF CacheInv, HeldByFinalizer, Live, api

\* The start of a reconcile: the snapshot is the cached object.
LEMMA BeginInv ==
  ASSUME IInv, Begin, pc' \in PatchSteps \cup {"Load"}, work' \in Object,
         requeue' \in BOOLEAN,
         work'.del = cached.del, work'.owner = cached.owner, work'.ep = cached.ep,
         (cached.fin /\ ~work'.fin) => cached.del,
         (~cached.fin /\ work'.fin) => ~cached.del,
         pc' = "Load" => work'.owner /\ work'.fin /\ ~work'.del /\ work'.epCond = "True",
         pc' # "Load" => pc' = "patchStatusConditions"
  PROVE  FinInv' /\ (before = cached)'
                 /\ (RestInv' <=>
                       ((pc' = "patchStatusConditions" /\ Unnoticed') =>
                          ~work'.owner \/ paused \/ work'.fin # cached.fin
                            \/ Settled(work')))
  <1>1. /\ pc = "idle" /\ cached # NoObj /\ cached \in Object /\ before' = cached
        /\ UNCHANGED <<api, env>> /\ queued' = FALSE /\ cached' = cached
    BY DEF Begin, IInv, FinInv, TypeOK, api
  <1>2. TypeOK'
    BY <1>1, Zenon DEF IInv, FinInv, TypeOK, api, env, Steps, PatchSteps
  <1>3. CacheInv'
    BY <1>1, CacheFrame DEF IInv, FinInv
  <1>4. SnapshotInv'
    BY <1>1 DEF IInv, FinInv, CacheInv, SnapshotInv, HeldByFinalizer, Live, api
  <1>5. WorkInv'
    BY <1>1 DEF WorkInv, PatchSteps
  <1>6. StatusAtRest'
    BY DEF StatusAtRest, Quiet, PatchSteps
  <1>7. RestInv' <=> ((pc' = "patchStatusConditions" /\ Unnoticed') =>
                        ~work'.owner \/ paused \/ work'.fin # cached.fin
                          \/ Settled(work'))
    <2>1. paused' = paused
      BY <1>1 DEF env
    <2>2. Settled(work)' <=> Settled(work')
      BY DEF Settled
    <2> QED
      BY <1>1, <1>6, <2>1, <2>2 DEF RestInv, PatchSteps
  <1> QED
    BY <1>1, <1>2, <1>3, <1>4, <1>5, <1>7 DEF FinInv

\* The returns of Reconcile and reconcileNormal before the first call, and the
\* way to it.
LEMMA ReconcileInv ==
  ASSUME IInv, AwaitOwner \/ reconcileDelete \/ ReconcilePaused \/ AddFinalizer
                 \/ AwaitEndpoint \/ reconcileNormal
  PROVE  IInv'
  <1>0. Begin /\ cached \in Object /\ requeue \in BOOLEAN
    BY Zenon DEF AwaitOwner, reconcileDelete, ReconcilePaused, AddFinalizer,
       AwaitEndpoint, reconcileNormal, Begin, IInv, FinInv, TypeOK
  <1> DEFINE Fit ==
        /\ pc' \in PatchSteps \cup {"Load"} /\ work' \in Object
        /\ requeue' \in BOOLEAN
        /\ work'.del = cached.del /\ work'.owner = cached.owner /\ work'.ep = cached.ep
        /\ (cached.fin /\ ~work'.fin) => cached.del
        /\ (~cached.fin /\ work'.fin) => ~cached.del
        /\ pc' = "Load" => work'.owner /\ work'.fin /\ ~work'.del /\ work'.epCond = "True"
        /\ pc' # "Load" => pc' = "patchStatusConditions"
             Rest == (pc' = "patchStatusConditions" /\ Unnoticed') =>
                       ~work'.owner \/ paused \/ work'.fin # cached.fin \/ Settled(work')
  <1>1. CASE AwaitOwner
    <2>1. Fit
      BY <1>0, <1>1, Zenon DEF AwaitOwner, Finish, PatchSteps, Object
    <2>2. Rest
      BY <1>0, <1>1
      DEF AwaitOwner, Finish, Unnoticed, Settled, Object
    <2> QED
      BY <1>0, <2>1, <2>2, BeginInv DEF IInv
  <1>2. CASE reconcileDelete
    <2>1. Fit
      BY <1>0, <1>2, FinFacts, ZenonT(60) DEF reconcileDelete, Finish, PatchSteps, Object
    <2>2. Rest
      BY <1>0, <1>2, FinFacts, Zenon
      DEF reconcileDelete, Finish, Unnoticed, Settled, Object
    <2> QED
      BY <1>0, <2>1, <2>2, BeginInv DEF IInv
  <1>3. CASE ReconcilePaused
    <2>1. Fit
      BY <1>0, <1>3, Zenon DEF ReconcilePaused, Finish, PatchSteps, Object
    <2>2. Rest
      BY <1>0, <1>3
      DEF ReconcilePaused, Finish, Unnoticed, Settled, Object
    <2> QED
      BY <1>0, <2>1, <2>2, BeginInv DEF IInv
  <1>4. CASE AddFinalizer
    <2>1. Fit
      BY <1>0, <1>4, FinFacts, Zenon DEF AddFinalizer, Finish, PatchSteps, Object
    <2>2. Rest
      BY <1>0, <1>4, FinFacts, Zenon
      DEF AddFinalizer, Finish, Unnoticed, Settled, Object
    <2> QED
      BY <1>0, <2>1, <2>2, BeginInv DEF IInv
  <1>5. CASE AwaitEndpoint
    <2>1. Fit
      BY <1>0, <1>5, Zenon DEF AwaitEndpoint, Finish, PatchSteps, Object
    <2>2. Rest
      BY <1>0, <1>5, Zenon
      DEF AwaitEndpoint, Finish, Unnoticed, Settled, Object
    <2> QED
      BY <1>0, <2>1, <2>2, BeginInv DEF IInv
  <1>6. CASE reconcileNormal
    <2>1. Fit
      BY <1>0, <1>6, Zenon DEF reconcileNormal, Finish, PatchSteps, Object
    <2>2. Rest
      BY <1>0, <1>6
      DEF reconcileNormal, Finish, Unnoticed, Settled, Object
    <2> QED
      BY <1>0, <2>1, <2>2, BeginInv DEF IInv
  <1> QED
    BY <1>1, <1>2, <1>3, <1>4, <1>5, <1>6

\* Load and EnsureInfra change the copy only, and a success is settled.
LEMMA CallInv ==
  ASSUME IInv, Load \/ EnsureInfra
  PROVE  IInv'
  <1>0. /\ pc \in {"Load", "EnsureInfra"} /\ pc # "idle"
        /\ before \in Object /\ work \in Object /\ requeue \in BOOLEAN
        /\ UNCHANGED <<api, queued, before, env>>
        /\ work.owner /\ work.fin /\ ~work.del /\ work.epCond = "True"
        /\ work.del = before.del /\ work.owner = before.owner /\ work.ep = before.ep
        /\ (before.fin /\ ~work.fin) => before.del
        /\ (~before.fin /\ work.fin) => ~before.del
    BY Zenon DEF Load, EnsureInfra, IInv, FinInv, TypeOK, WorkInv
  <1>1. \/ pc' = "EnsureInfra" /\ UNCHANGED <<work, requeue>>
        \/ /\ pc' = "patchStatusConditions" /\ requeue' = TRUE
           /\ \E r \in Reasons : work' = [work EXCEPT !.infraCond = r]
        \/ /\ pc' = "patchStatusConditions" /\ requeue' = FALSE
           /\ work' = [work EXCEPT !.infraCond = "True", !.ready = TRUE]
    BY DEF Load, EnsureInfra, NotReady, Finish
  <1>2. /\ work' \in Object /\ requeue' \in BOOLEAN
        /\ work'.del = work.del /\ work'.owner = work.owner /\ work'.ep = work.ep
        /\ work'.fin = work.fin /\ work'.epCond = work.epCond
        /\ pc' = "patchStatusConditions" =>
             requeue' \/ (work'.infraCond = "True" /\ work'.ready)
    <2>1. CASE pc' = "EnsureInfra" /\ UNCHANGED <<work, requeue>>
      BY <1>0, <2>1, Zenon
    <2>2. CASE /\ pc' = "patchStatusConditions" /\ requeue' = TRUE
               /\ \E r \in Reasons : work' = [work EXCEPT !.infraCond = r]
      BY <1>0, <2>2, Zenon DEF Object
    <2>3. CASE /\ pc' = "patchStatusConditions" /\ requeue' = FALSE
               /\ work' = [work EXCEPT !.infraCond = "True", !.ready = TRUE]
      BY <1>0, <2>3, Zenon DEF Object
    <2> QED
      BY <1>1, <2>1, <2>2, <2>3, Zenon
  <1>3. pc' \in {"EnsureInfra", "patchStatusConditions"}
    BY <1>1
  <1>4. TypeOK'
    BY <1>0, <1>2, <1>3 DEF IInv, FinInv, TypeOK, api, env, Steps
  <1>5. CacheInv'
    BY <1>0, CacheFrame DEF IInv, FinInv
  <1>6. SnapshotInv'
    BY <1>0, <1>3 DEF IInv, FinInv, SnapshotInv, HeldByFinalizer, Live, api
  <1>7. WorkInv'
    BY <1>0, <1>2, <1>3 DEF WorkInv
  <1>8. (before = cached)' <=> before = cached
    BY <1>0 DEF api
  <1>9. (pc' = "patchStatusConditions" /\ Unnoticed') => Settled(work)'
    BY <1>0, <1>2 DEF Unnoticed, Settled
  <1>10. StatusAtRest'
    BY <1>3 DEF StatusAtRest, Quiet
  <1>11. RestInv'
    BY <1>0, <1>3, <1>8, <1>9, <1>10 DEF IInv, RestInv, PatchSteps, api
  <1> QED
    BY <1>4, <1>5, <1>6, <1>7, <1>11 DEF IInv, FinInv

\* What a write of the reconcile may do to the object: it keeps a deletion, and
\* touches the finalizer only as the reconcile did.
LEMMA WriteInv ==
  ASSUME IInv, pc \in PatchSteps, obj # NoObj, NEW o \in Object,
         o.del = obj.del, Write(o), UNCHANGED <<cached, before>>,
         o.fin = obj.fin \/ (o.fin = work.fin /\ work.fin # before.fin)
  PROVE  /\ CacheInv' /\ (pc' # "idle" => SnapshotInv')
         /\ obj' \in Object \cup {NoObj} /\ pending' \in BOOLEAN
         /\ Live(obj) => Live(obj')
  <1>0. /\ obj \in Object /\ before \in Object /\ work \in Object
        /\ o # NoObj /\ pc # "idle" /\ pending \in BOOLEAN
        /\ obj' = IF o.del /\ ~o.fin THEN NoObj ELSE o
        /\ pending' = (pending \/ obj' # obj)
    BY ClusterAssumption DEF IInv, FinInv, TypeOK, PatchSteps, Write
  <1>1. HeldByFinalizer(obj)' /\ HeldByFinalizer(cached)'
    BY <1>0 DEF IInv, FinInv, CacheInv, HeldByFinalizer
  <1>2. ~pending' => cached' = obj'
    BY <1>0, Zenon DEF IInv, FinInv, CacheInv
  <1>3. Live(obj) => o.fin
    <2>1. Live(obj) => ~(before.fin /\ ~work.fin)
      BY <1>0 DEF IInv, FinInv, SnapshotInv, WorkInv
    <2>2. before.fin \in BOOLEAN /\ work.fin \in BOOLEAN
      BY <1>0 DEF Object
    <2> QED
      BY <2>1, <2>2, Zenon DEF Live
  <1>4. Live(obj) => Live(obj')
    BY <1>0, <1>3 DEF Live
  <1>5. Live(obj') => \/ Live(obj)
                      \/ ~before.fin /\ ~before.del /\ ~obj.del
    BY <1>0 DEF IInv, FinInv, WorkInv, Live, Object
  <1>6. (cached # NoObj /\ cached.del)' => ~Live(obj)'
    BY <1>0, <1>5 DEF IInv, FinInv, CacheInv, SnapshotInv, Live
  <1>7. pc' # "idle" => SnapshotInv'
    <2>1. before.del => ~Live(obj') /\ ~Live(cached)
      BY <1>0, <1>5 DEF IInv, FinInv, SnapshotInv
    <2>2. (~before.fin /\ cached # NoObj /\ cached.del) => obj' # NoObj /\ obj'.del
      <3>1. (~before.fin /\ cached # NoObj /\ cached.del) => obj.del
        BY <1>0 DEF IInv, FinInv, SnapshotInv
      <3>2. (obj.del /\ ~before.fin) => o.fin
        BY <1>0 DEF IInv, FinInv, CacheInv, HeldByFinalizer, Object
      <3> QED
        BY <1>0, <3>1, <3>2
    <2>3. HeldByFinalizer(before)
      BY <1>0 DEF IInv, FinInv, SnapshotInv
    <2> QED
      BY <2>1, <2>2, <2>3 DEF SnapshotInv, HeldByFinalizer, Live
  <1> QED
    BY <1>0, <1>1, <1>2, <1>4, <1>6, <1>7 DEF CacheInv

\* A part of the patch that writes nothing.
LEMMA NoWriteInv ==
  ASSUME IInv, pc \in PatchSteps, UNCHANGED <<obj, pending, cached, before>>
  PROVE  /\ CacheInv' /\ (pc' # "idle" => SnapshotInv')
         /\ obj' \in Object \cup {NoObj} /\ pending' \in BOOLEAN
         /\ Live(obj) => Live(obj')
  BY DEF IInv, FinInv, TypeOK, CacheInv, SnapshotInv, HeldByFinalizer, Live, PatchSteps

\* patchStatusConditions: without an event the conditions are as they were.
LEMMA PatchConditionsInv ==
  ASSUME IInv, patchStatusConditions
  PROVE  IInv' /\ (Live(obj) => Live(obj'))
  <1> DEFINE changed == work.epCond # before.epCond \/ work.infraCond # before.infraCond
             m == ConditionsMerged
  <1>0. /\ pc = "patchStatusConditions" /\ pc' = "patch" /\ pc \in PatchSteps
        /\ before \in Object /\ work \in Object /\ requeue \in BOOLEAN
        /\ UNCHANGED <<cached, queued, before, work, env>>
    BY DEF patchStatusConditions, IInv, FinInv, TypeOK, PatchSteps
  <1>1. PICK err \in BOOLEAN :
          /\ \/ ~changed /\ ~err /\ UNCHANGED <<obj, pending>>
             \/ changed /\ obj # NoObj /\ ~err /\ Write(m)
             \/ changed /\ err /\ UNCHANGED <<obj, pending>>
          /\ requeue' = (requeue \/ err)
    BY DEF patchStatusConditions, PatchPart, ConditionsMerged
  <1>2. obj # NoObj => /\ obj \in Object /\ m \in Object /\ m.del = obj.del
                       /\ m.fin = obj.fin
                       /\ m.epCond = Merge(before.epCond, work.epCond, obj.epCond)
                       /\ m.infraCond = Merge(before.infraCond, work.infraCond, obj.infraCond)
    BY <1>0, MergedFacts DEF IInv, FinInv, TypeOK
  <1> HIDE DEF m
  <1>3. /\ CacheInv' /\ SnapshotInv' /\ obj' \in Object \cup {NoObj}
        /\ pending' \in BOOLEAN /\ (Live(obj) => Live(obj'))
    <2>1. CASE UNCHANGED <<obj, pending>>
      BY <1>0, <2>1, NoWriteInv
    <2>2. CASE obj # NoObj /\ Write(m)
      BY <1>0, <1>2, <2>2, WriteInv
    <2> QED
      BY <1>1, <2>1, <2>2
  <1>4. requeue' \in BOOLEAN /\ (requeue => requeue')
    BY <1>0, <1>1
  <1>5. TypeOK'
    BY <1>0, <1>3, <1>4 DEF IInv, FinInv, TypeOK, env, Steps
  <1>6. WorkInv'
    BY <1>0 DEF IInv, FinInv, WorkInv
  <1>7. ~pending' => ~pending /\ obj' = obj
    BY <1>1, Zenon DEF Write
  <1>8. (~pending' /\ ~queued') => before' = cached'
    BY <1>0, <1>7 DEF IInv, RestInv
  <1>9. Unnoticed' => ~changed
    <2> SUFFICES ASSUME Unnoticed', changed
                 PROVE  FALSE
      OBVIOUS
    <2>1. obj' = obj /\ before = obj /\ Write(m) /\ obj # NoObj
      BY <1>0, <1>1, <1>7 DEF Unnoticed, IInv, FinInv, CacheInv, RestInv
    <2>2. m # obj
      BY <1>2, <2>1 DEF Merge
    <2> QED
      BY <1>2, <2>1, <2>2, ClusterAssumption DEF Write
  <1>10. Unnoticed' => Unnoticed
    BY <1>0, <1>4, <1>7 DEF Unnoticed
  <1>11. Unnoticed' => ~work.owner \/ paused \/ work.fin # before.fin \/ Settled(work)
    BY <1>0, <1>10 DEF IInv, RestInv
  <1>12. StatusAtRest'
    BY <1>0 DEF StatusAtRest, Quiet
  <1>13. RestInv'
    BY <1>0, <1>8, <1>9, <1>11, <1>12 DEF RestInv, Settled, env, PatchSteps
  <1> QED
    BY <1>3, <1>5, <1>6, <1>13 DEF IInv, FinInv

\* patch: without an event the finalizer is as it was.
LEMMA PatchMetadataInv ==
  ASSUME IInv, patch
  PROVE  IInv' /\ (Live(obj) => Live(obj'))
  <1> DEFINE changed == work.fin # before.fin
             m == [obj EXCEPT !.fin = work.fin]
  <1>0. /\ pc = "patch" /\ pc' = "patchStatus" /\ pc \in PatchSteps
        /\ before \in Object /\ work \in Object /\ requeue \in BOOLEAN
        /\ UNCHANGED <<cached, queued, before, work, env>>
    BY DEF patch, IInv, FinInv, TypeOK, PatchSteps
  <1>1. PICK err \in BOOLEAN :
          /\ \/ ~changed /\ ~err /\ UNCHANGED <<obj, pending>>
             \/ changed /\ obj # NoObj /\ ~err /\ Write(m)
             \/ changed /\ err /\ UNCHANGED <<obj, pending>>
          /\ requeue' = (requeue \/ err)
    BY DEF patch, PatchPart
  <1>2. obj # NoObj => /\ obj \in Object /\ m \in Object /\ m.del = obj.del
                       /\ m.fin = work.fin
    <2>1. work.fin \in BOOLEAN
      BY <1>0 DEF Object
    <2> QED
      BY <2>1, FinFacts DEF IInv, FinInv, TypeOK
  <1> HIDE DEF m
  <1>3. /\ CacheInv' /\ SnapshotInv' /\ obj' \in Object \cup {NoObj}
        /\ pending' \in BOOLEAN /\ (Live(obj) => Live(obj'))
    <2>1. CASE UNCHANGED <<obj, pending>>
      BY <1>0, <2>1, NoWriteInv
    <2>2. CASE changed /\ obj # NoObj /\ Write(m)
      BY <1>0, <1>2, <2>2, WriteInv
    <2> QED
      BY <1>1, <2>1, <2>2
  <1>4. requeue' \in BOOLEAN /\ (requeue => requeue')
    BY <1>0, <1>1
  <1>5. TypeOK'
    BY <1>0, <1>3, <1>4 DEF IInv, FinInv, TypeOK, env, Steps
  <1>6. WorkInv'
    BY <1>0 DEF IInv, FinInv, WorkInv
  <1>7. ~pending' => ~pending /\ obj' = obj
    BY <1>1, Zenon DEF Write
  <1>8. (~pending' /\ ~queued') => before' = cached'
    BY <1>0, <1>7 DEF IInv, RestInv
  <1>9. Unnoticed' => ~changed
    <2> SUFFICES ASSUME Unnoticed', changed
                 PROVE  FALSE
      OBVIOUS
    <2>1. obj' = obj /\ before = obj /\ Write(m) /\ obj # NoObj
      BY <1>0, <1>1, <1>7 DEF Unnoticed, IInv, FinInv, CacheInv, RestInv
    <2> QED
      BY <1>2, <2>1, ClusterAssumption DEF Write
  <1>10. Unnoticed' => Unnoticed
    BY <1>0, <1>4, <1>7 DEF Unnoticed
  <1>11. Unnoticed' => /\ ~work.owner \/ paused \/ work.fin # before.fin \/ Settled(work)
                       /\ work.epCond = before.epCond
                       /\ work.infraCond = before.infraCond
    BY <1>0, <1>10 DEF IInv, RestInv
  <1>12. StatusAtRest'
    BY <1>0 DEF StatusAtRest, Quiet
  <1>13. RestInv'
    BY <1>0, <1>8, <1>9, <1>11, <1>12 DEF RestInv, Settled, env, PatchSteps
  <1> QED
    BY <1>3, <1>5, <1>6, <1>13 DEF IInv, FinInv

\* patchStatus: a reconcile that nothing will follow has left the object as it
\* read it, and settled.
LEMMA PatchStatusInv ==
  ASSUME IInv, patchStatus
  PROVE  IInv' /\ (Live(obj) => Live(obj'))
  <1> DEFINE changed == work.ready # before.ready
             m == [obj EXCEPT !.ready = work.ready]
  <1>0. /\ pc = "patchStatus" /\ pc' = "idle" /\ pc \in PatchSteps
        /\ before \in Object /\ work \in Object /\ requeue \in BOOLEAN
        /\ queued \in BOOLEAN
        /\ before' = NoObj /\ work' = NoObj /\ requeue' = FALSE
        /\ UNCHANGED <<cached, env>>
    BY DEF patchStatus, Forget, IInv, FinInv, TypeOK, PatchSteps
  <1>1. PICK err \in BOOLEAN :
          /\ \/ ~changed /\ ~err /\ UNCHANGED <<obj, pending>>
             \/ changed /\ obj # NoObj /\ ~err /\ Write(m)
             \/ changed /\ err /\ UNCHANGED <<obj, pending>>
          /\ queued' = (queued \/ requeue \/ err)
    BY DEF patchStatus, PatchPart
  <1>2. obj # NoObj => /\ obj \in Object /\ m \in Object /\ m.del = obj.del
                       /\ m.fin = obj.fin /\ m.ready = work.ready
    <2>1. work.ready \in BOOLEAN
      BY <1>0 DEF Object
    <2> QED
      BY <2>1, ReadyFacts DEF IInv, FinInv, TypeOK
  <1> HIDE DEF m
  <1>3. /\ CacheInv' /\ obj' \in Object \cup {NoObj}
        /\ pending' \in BOOLEAN /\ (Live(obj) => Live(obj'))
    <2>1. CASE UNCHANGED <<obj, pending>>
      BY <1>0, <2>1 DEF IInv, FinInv, TypeOK, CacheInv, HeldByFinalizer, Live
    <2>2. CASE obj # NoObj /\ Write(m)
      <3>0. /\ m # NoObj /\ obj' = IF m.del /\ ~m.fin THEN NoObj ELSE m
            /\ pending' = (pending \/ obj' # obj) /\ pending \in BOOLEAN
        BY <1>2, <2>2, ClusterAssumption DEF Write, IInv, FinInv, TypeOK
      <3>1. obj' = m
        BY <1>2, <2>2, <3>0 DEF IInv, FinInv, CacheInv, HeldByFinalizer
      <3> QED
        BY <1>0, <1>2, <2>2, <3>0, <3>1, Zenon
        DEF IInv, FinInv, CacheInv, HeldByFinalizer, Live
    <2> QED
      BY <1>1, <2>1, <2>2
  <1>4. TypeOK'
    BY <1>0, <1>1, <1>3, Zenon DEF IInv, FinInv, TypeOK, env
  <1>5. ~pending' => ~pending /\ obj' = obj
    BY <1>1, Zenon DEF Write
  <1>6. StatusAtRest'
    <2> SUFFICES ASSUME ~queued', ~pending', obj' # NoObj, obj'.owner, ~paused'
                 PROVE  Settled(obj')
      BY DEF StatusAtRest, Quiet, Settled
    <2>1. Unnoticed /\ obj' = obj
      BY <1>1, <1>5, Zenon DEF Unnoticed
    <2>2. before = obj /\ obj \in Object
      BY <1>0, <1>2, <2>1 DEF Unnoticed, IInv, FinInv, CacheInv, RestInv
    <2>3. ~changed
      <3> SUFFICES ASSUME changed
                   PROVE  FALSE
        OBVIOUS
      <3>1. Write(m)
        BY <1>1
      <3> QED
        BY <1>2, <2>1, <2>2, <3>1 DEF Write
    <2>4. /\ work.fin = before.fin /\ work.epCond = before.epCond
          /\ work.infraCond = before.infraCond
          /\ work.del = before.del /\ work.owner = before.owner
      BY <1>0, <2>1 DEF IInv, FinInv, WorkInv, RestInv
    <2>5. ~work.owner \/ paused \/ work.fin # before.fin \/ Settled(work)
      BY <1>0, <2>1 DEF IInv, RestInv
    <2> QED
      BY <1>0, <2>1, <2>2, <2>3, <2>4, <2>5 DEF Settled, env
  <1> QED
    BY <1>0, <1>3, <1>4, <1>6, IdleInv DEF IInv, FinInv

\* The watch delivers the newest object and queues a request.
LEMMA WatchEventInv ==
  ASSUME IInv, WatchEvent
  PROVE  IInv'
  <1>1. /\ cached' = obj /\ ~pending' /\ queued'
        /\ UNCHANGED <<obj, pc, before, work, requeue, paused>>
    BY DEF WatchEvent, local, env
  <1>2. TypeOK'
    BY Zenon DEF IInv, FinInv, TypeOK, WatchEvent, local, env
  <1>3. CacheInv'
    BY <1>1 DEF IInv, FinInv, CacheInv, HeldByFinalizer, Live
  <1>4. SnapshotInv' /\ WorkInv'
    BY <1>1 DEF IInv, FinInv, SnapshotInv, WorkInv, HeldByFinalizer, Live
  <1>5. RestInv'
    BY <1>1 DEF RestInv, Unnoticed, StatusAtRest, Quiet
  <1> QED
    BY <1>2, <1>3, <1>4, <1>5 DEF IInv, FinInv

\* A crash forgets the reconcile and the cache.
LEMMA CrashInv ==
  ASSUME IInv, Crash
  PROVE  IInv'
  <1>1. /\ cached' = obj /\ ~pending' /\ queued' = (obj # NoObj)
        /\ UNCHANGED obj /\ pc' = "idle"
    BY DEF Crash, Forget
  <1>2. TypeOK'
    BY Zenon DEF IInv, FinInv, TypeOK, Crash, Forget, env
  <1>3. CacheInv'
    BY <1>1 DEF IInv, FinInv, CacheInv, HeldByFinalizer, Live
  <1>4. StatusAtRest'
    BY <1>1, Zenon DEF StatusAtRest, Quiet
  <1> QED
    BY <1>1, <1>2, <1>3, <1>4, IdleInv DEF IInv, FinInv

\* Others create, own, change and delete the object, and never take off its
\* finalizer.
LEMMA EditObjectInv ==
  ASSUME IInv, EditObject
  PROVE  IInv' /\ (Live(obj) => obj' # NoObj /\ obj'.fin)
  <1>1. /\ pending' /\ UNCHANGED <<cached, queued, pc, before, work, requeue, paused>>
        /\ edits' \in 0..MaxEdits /\ pending' \in BOOLEAN
    BY ClusterAssumption DEF EditObject, local, IInv, FinInv, TypeOK
  <1>2. \/ /\ obj = NoObj /\ obj' \in Object /\ ~obj'.fin /\ ~obj'.del
        \/ /\ obj # NoObj /\ obj \in Object /\ obj' \in Object
           /\ obj'.fin = obj.fin /\ obj'.del = obj.del
        \/ /\ obj # NoObj /\ obj.fin /\ ~obj.del /\ obj' \in Object
           /\ obj'.fin /\ obj'.del
        \/ obj # NoObj /\ ~obj.fin /\ ~obj.del /\ obj' = NoObj
    <2>1. CASE obj = NoObj /\ \E owner, ep \in BOOLEAN : obj' = NewObject(owner, ep)
      BY <2>1, ObjectFacts, Zenon
    <2>2. CASE obj # NoObj /\ ~obj.owner /\ obj' = [obj EXCEPT !.owner = TRUE]
      BY <2>2, Zenon DEF IInv, FinInv, TypeOK, Object
    <2>3. CASE obj # NoObj /\ obj' = [obj EXCEPT !.ep = ~@]
      BY <2>3, Zenon DEF IInv, FinInv, TypeOK, Object
    <2>4. CASE /\ obj # NoObj /\ ~obj.del
               /\ obj' = IF obj.fin THEN [obj EXCEPT !.del = TRUE] ELSE NoObj
      BY <2>4, Zenon DEF IInv, FinInv, TypeOK, Object
    <2> QED
      BY <2>1, <2>2, <2>3, <2>4 DEF EditObject
  <1>3. TypeOK'
    BY <1>1, <1>2 DEF IInv, FinInv, TypeOK, EditObject, local
  <1>4. CacheInv'
    BY <1>1, <1>2 DEF IInv, FinInv, CacheInv, HeldByFinalizer, Live
  <1>5. SnapshotInv'
    BY <1>1, <1>2, ClusterAssumption
    DEF IInv, FinInv, SnapshotInv, HeldByFinalizer, Live
  <1>6. WorkInv'
    BY <1>1 DEF IInv, FinInv, WorkInv
  <1>7. RestInv'
    BY <1>1 DEF RestInv, Unnoticed, StatusAtRest, Quiet
  <1>8. Live(obj) => obj' # NoObj /\ obj'.fin
    BY <1>2, ClusterAssumption, Zenon DEF Live
  <1> QED
    BY <1>3, <1>4, <1>5, <1>6, <1>7, <1>8 DEF IInv, FinInv

\* clusterctl move keeps the finalizer.
LEMMA MoveInv ==
  ASSUME IInv, Move
  PROVE  IInv' /\ (Live(obj) => obj' # NoObj /\ obj'.fin)
  <1>1. /\ pc = "idle" /\ pc' = "idle" /\ cached' = obj' /\ ~pending' /\ queued'
        /\ obj # NoObj /\ obj \in Object
        /\ obj' = [NewObject(TRUE, obj.ep) EXCEPT !.fin = obj.fin]
        /\ edits' \in 0..MaxEdits
    BY ClusterAssumption DEF Move, IInv, FinInv, TypeOK
  <1>2. obj' \in Object /\ ~obj'.del /\ obj'.fin = obj.fin
    BY <1>1, Zenon DEF Object, NewObject
  <1>3. TypeOK'
    BY <1>1, <1>2, Zenon DEF IInv, FinInv, TypeOK, Move, local
  <1>4. CacheInv'
    BY <1>1, <1>2, Zenon DEF CacheInv, HeldByFinalizer
  <1>5. StatusAtRest'
    BY <1>1 DEF StatusAtRest, Quiet
  <1> QED
    BY <1>1, <1>2, <1>3, <1>4, <1>5, IdleInv, ClusterAssumption, Zenon
    DEF IInv, FinInv, Live

\* Requests, pauses and changes of the Cluster, and stuttering.
LEMMA OtherInv ==
  ASSUME IInv, ReconcileGone \/ ClusterEndpointChanges \/ Pause \/ Unpause
                 \/ secretToLibvirtClusters \/ Calm \/ UNCHANGED vars
  PROVE  IInv' /\ obj' = obj
  <1>1. UNCHANGED <<obj, cached, pending, pc, before, work, requeue>>
    BY DEF ReconcileGone, ClusterEndpointChanges, Pause, Unpause,
       secretToLibvirtClusters, Calm, vars, api, local
  <1>2. TypeOK'
    <2>1. /\ paused' = paused \/ paused' \in BOOLEAN
          /\ usable' = usable \/ usable' \in BOOLEAN
          /\ calm' = calm \/ calm' \in BOOLEAN
          /\ edits' = edits
      BY Zenon DEF ReconcileGone, ClusterEndpointChanges, Pause, Unpause,
         secretToLibvirtClusters, Calm, vars, env
    <2>2. queued' = queued \/ queued' \in BOOLEAN
      BY Zenon DEF ReconcileGone, ClusterEndpointChanges, Pause, Unpause,
         secretToLibvirtClusters, Calm, vars
    <2>3. clusterEndpoint' = clusterEndpoint \/ clusterEndpoint' \in BOOLEAN
      BY Zenon DEF ReconcileGone, ClusterEndpointChanges, Pause, Unpause,
         secretToLibvirtClusters, Calm, vars, env
    <2> QED
      BY <1>1, <2>1, <2>2, <2>3 DEF IInv, FinInv, TypeOK
  <1>3. CacheInv' /\ SnapshotInv' /\ WorkInv'
    BY <1>1 DEF IInv, FinInv, CacheInv, SnapshotInv, WorkInv, HeldByFinalizer, Live
  <1>4. /\ pc # "idle" => (queued => queued') /\ (~queued' => (paused => paused'))
        /\ pc = "idle" => queued' \/ cached = NoObj \/ (queued' = queued /\ (paused => paused'))
    BY DEF ReconcileGone, ClusterEndpointChanges, Pause, Unpause,
       secretToLibvirtClusters, Calm, vars, env
  <1>5. RestInv'
    <2>1. StatusAtRest'
      BY <1>1, <1>4 DEF IInv, FinInv, CacheInv, RestInv, StatusAtRest, Quiet
    <2> QED
      BY <1>1, <1>4, <2>1
      DEF IInv, RestInv, Unnoticed, Settled, PatchSteps
  <1> QED
    BY <1>1, <1>2, <1>3, <1>5 DEF IInv, FinInv
-----------------------------------------------------------------------------
\* Every step preserves the invariant and keeps the finalizer of a live object.
LEMMA InvStep ==
  ASSUME IInv, [Next]_vars
  PROVE  IInv' /\ (Live(obj) => obj' # NoObj /\ obj'.fin)
  <1>1. CASE ReconcileGone \/ ClusterEndpointChanges \/ Pause \/ Unpause
               \/ secretToLibvirtClusters \/ Calm \/ UNCHANGED vars
    BY <1>1, OtherInv DEF Live
  <1>2. CASE AwaitOwner \/ reconcileDelete \/ ReconcilePaused \/ AddFinalizer
               \/ AwaitEndpoint \/ reconcileNormal
    <2>1. obj' = obj
      BY <1>2, Zenon DEF AwaitOwner, reconcileDelete, ReconcilePaused, AddFinalizer,
         AwaitEndpoint, reconcileNormal, Begin, api
    <2> QED
      BY <1>2, <2>1, ReconcileInv DEF Live
  <1>3. CASE Load \/ EnsureInfra
    <2>1. obj' = obj
      BY <1>3, Zenon DEF Load, EnsureInfra, api
    <2> QED
      BY <1>3, <2>1, CallInv DEF Live
  <1>4. CASE patchStatusConditions \/ patch \/ patchStatus
    BY <1>4, PatchConditionsInv, PatchMetadataInv, PatchStatusInv DEF Live
  <1>5. CASE WatchEvent \/ Crash
    <2>1. obj' = obj
      BY <1>5 DEF WatchEvent, Crash
    <2> QED
      BY <1>5, <2>1, WatchEventInv, CrashInv DEF Live
  <1>6. CASE EditObject \/ Move
    BY <1>6, EditObjectInv, MoveInv
  <1> QED
    BY <1>1, <1>2, <1>3, <1>4, <1>5, <1>6 DEF Next, Reconciler, Environment

\* The inductive invariant holds in every reachable state.
LEMMA Invariance == Spec => []IInv
  <1>1. Init => IInv
    <2> SUFFICES ASSUME Init
                 PROVE  IInv
      OBVIOUS
    <2>1. edits \in 0..MaxEdits
      BY ClusterAssumption DEF Init
    <2>2. TypeOK
      BY <2>1, Zenon DEF Init, TypeOK
    <2>3. CacheInv /\ SnapshotInv /\ WorkInv
      BY DEF Init, CacheInv, SnapshotInv, WorkInv, HeldByFinalizer, Live
    <2>4. RestInv
      BY DEF Init, RestInv, StatusAtRest, PatchSteps
    <2> QED
      BY <2>2, <2>3, <2>4 DEF IInv, FinInv
  <1>2. IInv /\ [Next]_vars => IInv'
    BY InvStep
  <1> QED
    BY <1>1, <1>2, PTL DEF Spec

\* Every variable keeps its type, and a reconcile in flight always has the
\* snapshot and the copy that its patches compare.
THEOREM TypeCorrect == Spec => []TypeOK
  <1>1. IInv => TypeOK
    BY DEF IInv, FinInv
  <1> QED
    BY <1>1, Invariance, PTL

\* The reconcile returns without a requeue and its three writes fail one by
\* one, and still an object that nothing is going to look at again has a
\* status that agrees with itself.
THEOREM StatusAlwaysAtRest == Spec => []StatusAtRest
  <1>1. IInv => StatusAtRest
    BY DEF IInv, RestInv
  <1> QED
    BY <1>1, Invariance, PTL

\* reconcileDelete and the patch: no reconcile, however stale, takes the
\* finalizer off an object that is not being deleted.
THEOREM FinalizerAlwaysStays == Spec => FinalizerStays
  <1>1. IInv /\ [Next]_vars =>
          [(obj # NoObj /\ obj.fin /\ ~obj.del) => obj' # NoObj /\ obj'.fin]_vars
    BY InvStep DEF Live
  <1> QED
    BY <1>1, Invariance, PTL DEF Spec, FinalizerStays
=============================================================================
