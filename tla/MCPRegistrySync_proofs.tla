------------------------ MODULE MCPRegistrySync_proofs ------------------------
(***************************************************************************)
(* Proofs, for every value of the constants, of the type invariant, of     *)
(* ReadyHasStorage (a live Ready declaration has its storage ConfigMap)    *)
(* and of the two action properties on storage writes: none inside a      *)
(* retry backoff, none without the finalizer.                              *)
(*                                                                         *)
(* ReadyHasStorage alone is not inductive: it rests on the order of the    *)
(* cluster calls inside PerformSync (Store before the success status       *)
(* write) and inside finalizeMCPRegistry (the Terminating status write     *)
(* before the storage delete).  IInv records those orders as facts about   *)
(* the worker's pc.                                                        *)
(***************************************************************************)
EXTENDS MCPRegistrySync, FiniteSetTheorems, TLAPS

(* The inductive invariant.                                                *)
(*  - between the filter and the success write the fetch result is a       *)
(*    registry (fetchAndProcessRegistryData and the refetch accept only a  *)
(*    valid payload);                                                      *)
(*  - between Store and the success write the storage holds a registry,    *)
(*    unless the declaration is gone and the garbage collector took it;    *)
(*  - while finalizeMCPRegistry deletes the storage, the status says       *)
(*    Terminating;                                                         *)
(*  - from ShouldSync's decision to the Store call, the status is not in   *)
(*    retry backoff: ShouldSync refuses to sync during backoff, and only   *)
(*    the failure writes, which come after Store, start one; and the       *)
(*    declaration carries the finalizer, which only finalization removes.  *)
IInv ==
    /\ TypeOK
    /\ pc \in {"refetch", "store", "succeed"} => w.fetched \in Data
    /\ pc = "succeed" /\ cr.exists => IsData(storage)
    /\ pc \in {"finDelete", "finRemove"} => status.phase = "Terminating"
    /\ pc \in {"fetch", "refetch", "store"}
          => /\ ~(status.phase = "Failed" /\ status.backoff)
             /\ cr.exists /\ cr.finalizer
    /\ ReadyHasStorage

(* ShouldSync's reason is one of the reasons manager.go:21-42 names. *)
LEMMA ShouldSyncReason ==
    ASSUME NEW c, NEW st, NEW src
    PROVE  ShouldSync(c, st, src).reason \in Reasons
BY DEF ShouldSync, ShouldSyncReady, Decision, Reasons, ReasonAlreadyInProgress, ReasonRegistryNotReady,
       ReasonRetryBackoffActive, ReasonSourceDataChanged,
       ReasonManualWithChanges, ReasonManualNoChanges,
       ReasonErrorCheckingSyncNeed, ReasonUpToDateWithPolicy,
       ReasonUpToDateNoPolicy

(* A fetch result counts a finite number of servers. *)
LEMMA DataCount ==
    ASSUME NEW d \in Data
    PROVE  Cardinality(d) \in Nat
<1>1. IsFiniteSet(d)
  BY ConstantsAssumption, FS_Subset DEF Data
<1>. QED  BY <1>1, FS_CardinalityType

(* A payload of the source that passes IsData is a registry. *)
LEMMA SourceData ==
    ASSUME TypeOK, IsData(source)
    PROVE  source \in Data
BY ConstantsAssumption DEF TypeOK, IsData

(* ShouldSync's requeue flag is a Boolean. *)
LEMMA ShouldSyncNext ==
    ASSUME NEW c, NEW st, NEW src
    PROVE  ShouldSync(c, st, src).next \in BOOLEAN
BY DEF ShouldSync, ShouldSyncReady, Decision

(* ShouldSync never decides to sync a Failed declaration whose           *)
(* nextRetryTime lies ahead (manager.go:149-154).                          *)
LEMMA ShouldSyncRespectsBackoff ==
    ASSUME NEW c, NEW st, NEW src,
           ShouldSync(c, st, src).sync = TRUE
    PROVE  ~(st.phase = "Failed" /\ st.backoff)
BY DEF ShouldSync, ShouldSyncReady, Decision

(* A failed cluster call stays within the fault bound. *)
LEMMA FaultType ==
    ASSUME TypeOK, Fault
    PROVE  faults' \in 0..MaxFaults
BY ConstantsAssumption DEF TypeOK, Fault

(* A crash of the operator between two cluster calls. *)
LEMMA CrashIInv == IInv /\ Crash => IInv'
<1> SUFFICES ASSUME IInv, Crash PROVE IInv'
  OBVIOUS
<1>. USE DEF IInv, TypeOK, ReadyHasStorage, IsPayload, IsData
<1>1. faults' \in 0..MaxFaults
  BY FaultType DEF Crash
<1>. QED  BY <1>1 DEF Crash, Steps

(* Reconcile adding the finalizer (part_005:96-107). *)
LEMMA AddFinalizerIInv == IInv /\ ReconcileAddFinalizer => IInv'
<1> SUFFICES ASSUME IInv, ReconcileAddFinalizer PROVE IInv'
  OBVIOUS
<1>. USE DEF IInv, TypeOK, ReadyHasStorage, IsPayload, IsData
<1>1. faults' \in 0..MaxFaults
  BY FaultType DEF ReconcileAddFinalizer
<1>2. cr' \in CRRec /\ cr'.exists = cr.exists
  BY Zenon DEF ReconcileAddFinalizer, CRRec
<1>. QED  BY <1>1, <1>2 DEF ReconcileAddFinalizer

(* The user deleting the declaration. *)
LEMMA DeleteRegistryIInv == IInv /\ DeleteRegistry => IInv'
<1> SUFFICES ASSUME IInv, DeleteRegistry PROVE IInv'
  OBVIOUS
<1>. USE DEF IInv, TypeOK, ReadyHasStorage, IsPayload, IsData
<1>1. edits' \in 0..MaxEdits
  BY ConstantsAssumption DEF DeleteRegistry
<1>2. cr' \in CRRec /\ (cr'.exists => cr.exists)
  BY Zenon DEF DeleteRegistry, CRRec
<1>. QED  BY <1>1, <1>2 DEF DeleteRegistry

(* The finalizer removal that ends finalization. *)
LEMMA RemoveFinalizerIInv == IInv /\ FinalizeRemoveFinalizer => IInv'
<1> SUFFICES ASSUME IInv, FinalizeRemoveFinalizer PROVE IInv'
  OBVIOUS
<1>. USE DEF IInv, TypeOK, ReadyHasStorage, IsPayload, IsData
<1>1. faults' \in 0..MaxFaults
  BY FaultType DEF FinalizeRemoveFinalizer
<1>2. cr' \in CRRec /\ (cr'.exists => cr.exists)
  BY Zenon DEF FinalizeRemoveFinalizer, CRRec
<1>. QED  BY <1>1, <1>2 DEF FinalizeRemoveFinalizer, Steps

(* finalizeMCPRegistry's Terminating write comes before the storage  *)
(* delete: the pc records it.                                        *)
LEMMA TerminatingIInv == IInv /\ FinalizeTerminating => IInv'
<1> SUFFICES ASSUME IInv, FinalizeTerminating PROVE IInv'
  OBVIOUS
<1>. USE DEF IInv, TypeOK, ReadyHasStorage, IsPayload, IsData
<1>1. faults' \in 0..MaxFaults
  BY FaultType DEF FinalizeTerminating
<1>2. status' \in StatusRec
  BY Zenon DEF FinalizeTerminating, WriteStatus, StatusRec, Phases
<1>3. /\ status'.lastHash = status.lastHash
      /\ status'.storageRef = status.storageRef
      /\ status'.phase \in {"Terminating", status.phase}
      /\ pc' = "finDelete" => status'.phase = "Terminating"
  BY Zenon DEF FinalizeTerminating, WriteStatus, StatusRec
<1>. QED  BY <1>1, <1>2, <1>3 DEF FinalizeTerminating, WriteStatus, Steps

(* UpdateManualSyncTriggerOnly touches lastManualSyncTrigger only. *)
LEMMA TriggerOnlyIInv == IInv /\ UpdateManualSyncTriggerOnly => IInv'
<1> SUFFICES ASSUME IInv, UpdateManualSyncTriggerOnly PROVE IInv'
  OBVIOUS
<1>. USE DEF IInv, TypeOK, ReadyHasStorage, IsPayload, IsData
<1>1. faults' \in 0..MaxFaults
  BY FaultType DEF UpdateManualSyncTriggerOnly
<1>2. (IF cr.trigger /= 0 THEN cr.trigger ELSE status.lastTrigger) \in 0..MaxTrigger
  BY DEF CRRec, StatusRec
<1>3. status' \in StatusRec
  BY <1>2, Zenon DEF UpdateManualSyncTriggerOnly, WriteStatus, StatusRec
<1>4. /\ status'.lastHash = status.lastHash
      /\ status'.storageRef = status.storageRef
      /\ status'.phase = status.phase
  BY Zenon DEF UpdateManualSyncTriggerOnly, WriteStatus, StatusRec
<1>. QED  BY <1>1, <1>3, <1>4 DEF UpdateManualSyncTriggerOnly, WriteStatus, Steps

(* The final failure write of PerformSync leaves the phase Failed. *)
LEMMA FailFinalIInv == IInv /\ FailFinal => IInv'
<1> SUFFICES ASSUME IInv, FailFinal PROVE IInv'
  OBVIOUS
<1>. USE DEF IInv, TypeOK, ReadyHasStorage, IsPayload, IsData
<1>1. faults' \in 0..MaxFaults
  BY FaultType DEF FailFinal
<1>2. w.att + 1 \in Nat
  BY DEF WRec
<1>3. status' \in StatusRec
  BY <1>2, Zenon DEF FailFinal, WriteStatus, StatusRec, Phases
<1>4. /\ status'.lastHash = status.lastHash
      /\ status'.phase \in {"Failed", status.phase}
      /\ status'.storageRef = status.storageRef
  BY Zenon DEF FailFinal, WriteStatus, StatusRec
<1>. QED  BY <1>1, <1>3, <1>4 DEF FailFinal, WriteStatus, Steps
(* reconcileSync's dispatch on ShouldSync. *)
LEMMA ReconcileSyncIInv == IInv /\ ReconcileSync => IInv'
<1> SUFFICES ASSUME IInv, ReconcileSync PROVE IInv'
  OBVIOUS
<1>. USE DEF IInv, TypeOK, ReadyHasStorage, IsPayload, IsData
<1>. DEFINE d == ShouldSync(cr, status, source)
<1>1. d.reason \in Reasons /\ d.next \in BOOLEAN
  BY ShouldSyncReason, ShouldSyncNext
<1>2. status.attempts \in Nat /\ cr.trigger \in 0..MaxTrigger
  BY DEF StatusRec, CRRec
<1>3. w' \in WRec /\ w'.fetched = NoData
  BY <1>1, <1>2, Zenon DEF ReconcileSync, WRec
<1>4. timer' \in BOOLEAN /\ pc' \in {"idle", "triggerOnly", "fetch"}
  BY <1>1, Zenon DEF ReconcileSync
<1>5. pc' = "fetch" => ~(status.phase = "Failed" /\ status.backoff)
  <2>1. pc' = "fetch" => d.sync = TRUE
    BY Zenon DEF ReconcileSync
  <2>. QED  BY <2>1, ShouldSyncRespectsBackoff
<1>. QED  BY <1>3, <1>4, <1>5 DEF ReconcileSync, Steps

(* The success write of PerformSync runs after Store: the storage     *)
(* holds a registry unless the declaration is already gone.           *)
LEMMA SucceedIInv == IInv /\ Succeed => IInv'
<1> SUFFICES ASSUME IInv, Succeed PROVE IInv'
  OBVIOUS
<1>. USE DEF IInv, TypeOK, ReadyHasStorage, IsPayload, IsData
<1>. DEFINE count == Cardinality(w.fetched)
            new == [phase       |-> "Ready",
                    attempts    |-> 0,
                    backoff     |-> FALSE,
                    lastHash    |-> w.fetched,
                    serverCount |-> IF count > 0 THEN count
                                                ELSE status.serverCount,
                    storageRef  |-> TRUE,
                    lastTrigger |-> IF w.trig /= 0 THEN w.trig
                                                   ELSE status.lastTrigger]
<1>1. faults' \in 0..MaxFaults
  BY FaultType DEF Succeed
<1>2. w.fetched \in Data /\ pc = "succeed"
  BY DEF Succeed
<1>3. new \in StatusRec
  <2>1. /\ (IF count > 0 THEN count ELSE status.serverCount) \in Nat
        /\ (IF w.trig /= 0 THEN w.trig ELSE status.lastTrigger) \in 0..MaxTrigger
    BY <1>2, DataCount DEF StatusRec, WRec
  <2>. QED  BY <1>2, <2>1, Zenon DEF StatusRec, Phases
<1>4. status' \in {new, status}
  BY Zenon DEF Succeed, WriteStatus
<1>5. /\ timer' \in BOOLEAN /\ queued' \in BOOLEAN /\ pc' = "idle"
      /\ UNCHANGED <<source, storage, cr, w, edits>>
  BY Zenon DEF Succeed, WriteStatus
<1>6. CASE status' = new
  <2>1. IsData(w.fetched) /\ (cr.exists => IsData(storage))
    BY <1>2, ConstantsAssumption
  <2>. QED  BY <1>1, <1>3, <1>5, <1>6, <2>1 DEF Steps
<1>7. CASE status' = status
  BY <1>1, <1>5, <1>7 DEF Steps
<1>. QED  BY <1>4, <1>6, <1>7

(* updatePhaseFailedWithCondition's interim write leaves the phase Failed. *)
LEMMA FailInterimIInv == IInv /\ FailInterim => IInv'
<1> SUFFICES ASSUME IInv, FailInterim PROVE IInv'
  OBVIOUS
<1>. USE DEF IInv, TypeOK, ReadyHasStorage, IsPayload, IsData
<1>1. faults' \in 0..MaxFaults
  BY FaultType DEF FailInterim
<1>2. status.attempts \in Nat /\ status.attempts + 1 \in Nat
  BY DEF StatusRec
<1>3. \E n \in Nat : w' = [w EXCEPT !.att = n, !.kind = "handler"]
  BY <1>2, Zenon DEF FailInterim
<1>5. w' \in WRec
  BY <1>3, Zenon DEF WRec
<1>6. status' \in StatusRec
  BY <1>2, Zenon DEF FailInterim, WriteStatus, StatusRec, Phases
<1>4. /\ status'.lastHash = status.lastHash
      /\ status'.storageRef = status.storageRef
      /\ status'.phase \in {"Failed", status.phase}
      /\ w'.fetched = w.fetched
  BY <1>3, Zenon DEF FailInterim, WriteStatus, StatusRec, WRec
<1>. QED  BY <1>1, <1>4, <1>5, <1>6 DEF FailInterim, WriteStatus, Steps

(* The initial state satisfies the inductive invariant. *)
LEMMA InitIInv == Init => IInv
<1> SUFFICES ASSUME Init PROVE IInv
  OBVIOUS
<1>. USE ConstantsAssumption
<1>1. IsPayload(storage) /\ IsPayload(status.lastHash) /\ IsPayload(w.fetched)
  BY DEF Init, IsPayload
<1>2. 0 \in 0..MaxTrigger /\ 0 \in Nat
  OBVIOUS
<1>3. cr \in CRRec /\ status \in StatusRec /\ w \in WRec
  BY <1>2, Zenon DEF Init, CRRec, StatusRec, Phases, WRec, Reasons
<1>4. faults \in 0..MaxFaults /\ edits \in 0..MaxEdits
  <2>1. faults = 0 /\ edits = 0
    BY Zenon DEF Init
  <2>. QED  BY <2>1
<1>5. TypeOK
  BY <1>1, <1>3, <1>4 DEF Init, TypeOK, Steps
<1>. QED
  BY <1>5 DEF Init, IInv, ReadyHasStorage

(* Every step of the reconcile worker, of the user, of the clock, of the   *)
(* garbage collector and every crash preserves the inductive invariant.    *)
LEMMA NextIInv == IInv /\ [Next]_vars => IInv'
<1> SUFFICES ASSUME IInv, [Next]_vars PROVE IInv'
  OBVIOUS
<1>. USE ConstantsAssumption DEF IInv, TypeOK, ReadyHasStorage, IsPayload, IsData
<1>1. CASE ReconcileNotFound
  BY <1>1 DEF ReconcileNotFound
<1>2. CASE ReconcileFinalize
  BY <1>2 DEF ReconcileFinalize, Steps
<1>3. CASE ReconcileAddFinalizer
  BY <1>3, AddFinalizerIInv
<1>4. CASE ReconcileSync
  BY <1>4, ReconcileSyncIInv
<1>5. CASE FetchAndProcess
  BY <1>5, SourceData DEF FetchAndProcess, WRec, Steps, ApplyFilter, Data
<1>6. CASE FailInterim
  BY <1>6, FailInterimIInv
<1>7. CASE Refetch
  BY <1>7, SourceData DEF Refetch, WRec, Steps
<1>8. CASE Store
  BY <1>8 DEF Store, WRec, Steps, Fault
<1>9. CASE FailFinal
  BY <1>9, FailFinalIInv
<1>10. CASE Succeed
  BY <1>10, SucceedIInv
<1>11. CASE UpdateManualSyncTriggerOnly
  BY <1>11, TriggerOnlyIInv
<1>12. CASE FinalizeTerminating
  BY <1>12, TerminatingIInv
<1>13. CASE FinalizeDeleteStorage
  BY <1>13 DEF FinalizeDeleteStorage, Fault,
     Steps
<1>14. CASE FinalizeRemoveFinalizer
  BY <1>14, RemoveFinalizerIInv
<1>15. CASE Crash
  BY <1>15, CrashIInv
<1>16. CASE EditSource
  BY <1>16 DEF EditSource
<1>17. CASE SetSyncTrigger
  BY <1>17 DEF SetSyncTrigger, CRRec
<1>18. CASE DeleteRegistry
  BY <1>18, DeleteRegistryIInv
<1>19. CASE TimePasses
  BY <1>19 DEF TimePasses, StatusRec
<1>20. CASE GarbageCollect
  BY <1>20 DEF GarbageCollect
<1>21. CASE UNCHANGED vars
  BY <1>21 DEF vars
<1>. QED
  BY <1>1, <1>2, <1>3, <1>4, <1>5, <1>6, <1>7, <1>8, <1>9, <1>10, <1>11,
     <1>12, <1>13, <1>14, <1>15, <1>16, <1>17, <1>18, <1>19, <1>20, <1>21
  DEF Next, Worker, Environment

(* Type correctness of the model of the reconciler and the sync manager. *)
THEOREM TypeCorrect == Spec => []TypeOK
<1>1. IInv => TypeOK
  BY DEF IInv
<1>. QED  BY <1>1, InitIInv, NextIInv, PTL DEF Spec

(* Spec section 8, invariant 1 (first half), for every instance: a live    *)
(* Ready declaration has its storage ConfigMap and a storage reference,    *)
(* because PerformSync stores before its success write and                 *)
(* finalizeMCPRegistry writes Terminating before it deletes the storage.   *)
THEOREM ReadyHasStorageHolds == Spec => []ReadyHasStorage
<1>1. IInv => ReadyHasStorage
  BY DEF IInv
<1>. QED  BY <1>1, InitIInv, NextIInv, PTL DEF Spec

(* The only steps that write the storage ConfigMap are Store, the delete  *)
(* of finalizeMCPRegistry and the garbage collector; the last two empty    *)
(* it, and Store runs only between a ShouldSync that said yes and the      *)
(* failure writes, when the status is not in backoff.                      *)
LEMMA NoStoreStep ==
    IInv /\ [Next]_vars
      => [storage' /= storage /\ IsData(storage')
            => ~(status.phase = "Failed" /\ status.backoff)]_vars
<1> SUFFICES ASSUME IInv, [Next]_vars,
                    storage' /= storage, IsData(storage')
             PROVE  ~(status.phase = "Failed" /\ status.backoff)
  OBVIOUS
<1>1. CASE Store
  BY <1>1 DEF IInv, Store
<1>2. CASE FinalizeDeleteStorage \/ GarbageCollect
  BY <1>2 DEF FinalizeDeleteStorage, GarbageCollect, IsData
<1>3. CASE ~Store /\ ~FinalizeDeleteStorage /\ ~GarbageCollect
  BY <1>3 DEF Next, Worker, Environment, vars,
     ReconcileNotFound, ReconcileFinalize, ReconcileAddFinalizer,
     ReconcileSync, FetchAndProcess, FailInterim, Refetch, FailFinal,
     Succeed, UpdateManualSyncTriggerOnly, FinalizeTerminating,
     FinalizeRemoveFinalizer, Crash, EditSource, SetSyncTrigger,
     DeleteRegistry, TimePasses
<1>. QED  BY <1>1, <1>2, <1>3

(* For every instance, PerformSync never rewrites the storage ConfigMap    *)
(* with a registry while status.nextRetryTime lies ahead of a Failed       *)
(* declaration: ShouldSync's backoff check holds back every reconcile the  *)
(* failure's own status write enqueues.                                    *)
THEOREM NoStoreDuringBackoffHolds == Spec => NoStoreDuringBackoff
BY InitIInv, NextIInv, NoStoreStep, PTL DEF Spec, NoStoreDuringBackoff

(* A registry reaches the storage ConfigMap only through Store, which     *)
(* runs while the declaration exists under the operator's finalizer.       *)
LEMMA FinalizerStoreStep ==
    IInv /\ [Next]_vars
      => [storage' /= storage /\ IsData(storage') => cr.exists /\ cr.finalizer]_vars
<1> SUFFICES ASSUME IInv, [Next]_vars,
                    storage' /= storage, IsData(storage')
             PROVE  cr.exists /\ cr.finalizer
  OBVIOUS
<1>1. CASE Store
  BY <1>1 DEF IInv, Store
<1>2. CASE FinalizeDeleteStorage \/ GarbageCollect
  BY <1>2 DEF FinalizeDeleteStorage, GarbageCollect, IsData
<1>3. CASE ~Store /\ ~FinalizeDeleteStorage /\ ~GarbageCollect
  BY <1>3 DEF Next, Worker, Environment, vars,
     ReconcileNotFound, ReconcileFinalize, ReconcileAddFinalizer,
     ReconcileSync, FetchAndProcess, FailInterim, Refetch, FailFinal,
     Succeed, UpdateManualSyncTriggerOnly, FinalizeTerminating,
     FinalizeRemoveFinalizer, Crash, EditSource, SetSyncTrigger,
     DeleteRegistry, TimePasses
<1>. QED  BY <1>1, <1>2, <1>3

(* For every instance, every registry PerformSync stores belongs to a      *)
(* declaration that exists and carries the finalizer, however a user       *)
(* deletion interleaves with a sync in flight: finalizeMCPRegistry is      *)
(* bound to run after it and delete that ConfigMap.                        *)
THEOREM StoreOnlyUnderFinalizerHolds == Spec => StoreOnlyUnderFinalizer
BY InitIInv, NextIInv, FinalizerStoreStep, PTL DEF Spec, StoreOnlyUnderFinalizer

=============================================================================
