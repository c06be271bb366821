---------------------- MODULE MCPRegistryLegacy_proofs ----------------------
(***************************************************************************)
(* Proofs, for every value of the constants, of the type invariant of the  *)
(* previous reconciler, of ReadyStorageMatchesHash (a live Ready           *)
(* declaration's storage holds the data whose hash is lastSyncHash), of    *)
(* ConditionsMatchPhase, and of its refinement of RegistryPublication.     *)
(*                                                                         *)
(* The property is not inductive: it rests on the order of the cluster     *)
(* calls of syncRegistry (the Syncing write, the store, the storage        *)
(* reference, the Ready write with the hash) and of handleDeletion, and on *)
(* the StatusManager copying every status it writes back into the          *)
(* reconciler's object.  IInv records these as facts about the pc.         *)
(***************************************************************************)
EXTENDS MCPRegistryLegacy, TLAPS

(* The inductive invariant.                                                *)
(*  - the in-memory status is the stored one: Reconcile reads it, and      *)
(*    every successful write is copied back (a failed one changes neither);*)
(*  - from the source read to the Ready write the stored phase is Syncing; *)
(*  - after the store and up to the Ready write the storage holds the data *)
(*    that write will hash;                                                *)
(*  - handleDeletion runs only on a declaration marked for deletion;      *)
(*  - UpdateSyncStatus copies a status whose StorageReady is True.         *)
IInv ==
    /\ TypeOK
    /\ lst = status
    /\ pc \in {"sourceSync", "store", "storageRef", "syncStatus"}
           => status.phase = "Syncing"
    /\ pc \in {"storageRef", "syncStatus"} => storage = data
    /\ pc \in {"deleteStorage", "removeFinalizer"} => cr.deleting
    /\ pc = "syncStatus" => status.conds["StorageReady"] = "True"
    /\ ReadyStorageMatchesHash
    /\ ConditionsMatchPhase

(* A failed cluster call stays within the fault bound. *)
LEMMA FaultType ==
    ASSUME TypeOK, Fault
    PROVE  faults' \in 0..MaxFaults
BY LegacyAssumption DEF TypeOK, Fault

(* A successful status write of a status record: the StatusManager copies  *)
(* what it wrote back, so the stored and the in-memory status are both new *)
(* (when nothing changed, new already was the stored status).              *)
LEMMA StatusWrittenFacts ==
    ASSUME IInv, NEW new, NEW stamped, StatusWritten(new, stamped)
    PROVE  /\ status' = new /\ lst' = new
           /\ fresh' \in BOOLEAN /\ queued' \in BOOLEAN
           /\ faults' = faults
<1>1. CASE new = status /\ ~stamped
  BY <1>1, Zenon DEF StatusWritten, IInv, TypeOK
<1>2. CASE ~(new = status /\ ~stamped)
  BY <1>2, Zenon DEF StatusWritten
<1>. QED  BY <1>1, <1>2

(* A failed write leaves the fault count within its bound. *)
LEMMA WriteFailsType ==
    ASSUME TypeOK, WriteFails
    PROVE  faults' \in 0..MaxFaults
BY FaultType DEF WriteFails, TypeOK

(* setCondition changes only the condition it names.                     *)
LEMMA SetConditionFacts ==
    ASSUME NEW st \in StatusRec, NEW t \in CondTypes, NEW v \in CondValues
    PROVE  /\ setCondition(st, t, v) \in StatusRec
           /\ setCondition(st, t, v).phase = st.phase
           /\ setCondition(st, t, v).lastHash = st.lastHash
           /\ setCondition(st, t, v).conds[t] = v
           /\ \A u \in CondTypes \ {t} :
                  setCondition(st, t, v).conds[u] = st.conds[u]
BY Zenon DEF setCondition, StatusRec

(* updateConditionsForError leaves the phase and the hash and sets         *)
(* SyncSuccessful False whichever case the error's reason hits.            *)
LEMMA ConditionsForErrorFacts ==
    ASSUME NEW st \in StatusRec, NEW err
    PROVE  /\ updateConditionsForError(st, err) \in StatusRec
           /\ updateConditionsForError(st, err).phase = st.phase
           /\ updateConditionsForError(st, err).lastHash = st.lastHash
           /\ updateConditionsForError(st, err).conds["SyncSuccessful"]
                  = "False"
<1>. DEFINE failed == setCondition(st, "SyncSuccessful", "False")
<1>1. "SyncSuccessful" \in CondTypes /\ "SourceAvailable" \in CondTypes
      /\ "False" \in CondValues
  BY DEF CondTypes, CondValues
<1>2. /\ failed \in StatusRec /\ failed.phase = st.phase
      /\ failed.lastHash = st.lastHash /\ failed.conds["SyncSuccessful"] = "False"
  BY <1>1, SetConditionFacts
<1>3. CASE SourceNotFoundCase(err)
  <2>1. setCondition(failed, "SourceAvailable", "False")
            .conds["SyncSuccessful"] = "False"
    <3>1. "SyncSuccessful" \in CondTypes \ {"SourceAvailable"}
      BY DEF CondTypes
    <3>. QED  BY <1>1, <1>2, <3>1, SetConditionFacts
  <2>. QED  BY <1>1, <1>2, <1>3, <2>1, SetConditionFacts
            DEF updateConditionsForError
<1>4. CASE ~SourceNotFoundCase(err)
  BY <1>2, <1>4 DEF updateConditionsForError
<1>. QED  BY <1>3, <1>4

(* UpdateSyncStatus(result, nil) writes Ready, the hash of the result and  *)
(* three True conditions, and keeps StorageReady.                          *)
LEMMA SyncedStatusFacts ==
    ASSUME NEW st \in StatusRec, NEW d \in Data \cup {NoData}
    PROVE  /\ SyncedStatus(st, d) \in StatusRec
           /\ SyncedStatus(st, d).phase = "Ready"
           /\ SyncedStatus(st, d).lastHash = d
           /\ st.conds["StorageReady"] = "True"
                 => \A t \in CondTypes : SyncedStatus(st, d).conds[t] = "True"
<1>1. 0 \in Nat /\ "Ready" \in Phases /\ "True" \in CondValues
  BY DEF Phases, CondValues
<1>. QED  BY <1>1, Zenon DEF SyncedStatus, StatusRec

(* StatusManager.UpdatePhase: either the phase asked for is stored (and    *)
(* the worker goes on to next) or nothing is stored and the worker returns *)
(* the error; lastSyncHash is untouched either way.                        *)
LEMMA UpdatePhaseFacts ==
    ASSUME IInv, NEW ph \in Phases, NEW next, UpdatePhase(ph, next)
    PROVE  /\ status' \in StatusRec /\ lst' = status'
           /\ status'.lastHash = status.lastHash
           /\ \/ pc' = next /\ status'.phase = ph
              \/ pc' = "idle" /\ status' = status
           /\ fresh' \in BOOLEAN /\ queued' \in BOOLEAN
           /\ faults' \in 0..MaxFaults
<1>. USE DEF IInv, TypeOK
<1>1. CASE lst.phase = ph /\ pc' = next
           /\ UNCHANGED <<status, lst, fresh, queued, faults>>
  BY <1>1
<1>2. CASE lst.phase /= ph
           /\ StatusWritten([lst EXCEPT !.phase = ph], FALSE)
           /\ pc' = next
  <2>1. status' = [lst EXCEPT !.phase = ph] /\ lst' = status'
        /\ fresh' \in BOOLEAN /\ queued' \in BOOLEAN /\ faults' = faults
    BY <1>2, StatusWrittenFacts
  <2>2. status' \in StatusRec /\ status'.lastHash = status.lastHash
        /\ status'.phase = ph
    BY <2>1, Zenon DEF StatusRec
  <2>. QED  BY <1>2, <2>1, <2>2
<1>3. CASE lst.phase /= ph /\ WriteFails /\ ReturnError
           /\ UNCHANGED <<status, lst, fresh>>
  BY <1>3, WriteFailsType DEF ReturnError
<1>. QED  BY <1>1, <1>2, <1>3 DEF UpdatePhase

(* The initial state satisfies the inductive invariant. *)
LEMMA InitIInv == Init => IInv
<1> SUFFICES ASSUME Init PROVE IInv
  OBVIOUS
<1>. USE LegacyAssumption
<1>1. IsPayload(storage) /\ IsPayload(data) /\ IsPayload(status.lastHash)
      /\ IsPayload(lst.lastHash)
  BY DEF Init, IsPayload
<1>2. cr \in CRRec /\ lst = status
  <2>1. PICK p \in PolicyValues, n \in BOOLEAN :
            cr = [exists |-> TRUE, deleting |-> FALSE, finalizer |-> FALSE,
                  trigger |-> FALSE, auto |-> p, defaultName |-> n]
    BY Zenon DEF Init
  <2>2. p \in BOOLEAN
    BY LegacyAssumption
  <2>. QED  BY <2>1, <2>2 DEF Init, CRRec
<1>3. status \in StatusRec /\ status.phase = ""
  <2>1. 0 \in Nat /\ NoData \in Data \cup {NoData}
    OBVIOUS
  <2>2. [t \in CondTypes |-> "Absent"] \in [CondTypes -> CondValues]
    BY DEF CondValues
  <2>. QED  BY <2>1, <2>2, Zenon DEF Init, StatusRec, Phases
<1>4. faults \in 0..MaxFaults /\ edits \in 0..MaxEdits
  <2>1. faults = 0 /\ edits = 0
    BY Zenon DEF Init
  <2>. QED  BY <2>1
<1>5. TypeOK
  BY <1>1, <1>2, <1>3, <1>4 DEF Init, TypeOK, Steps, Failures
<1>. QED
  BY <1>2, <1>3, <1>5 DEF Init, IInv, ReadyStorageMatchesHash,
                          ConditionsMatchPhase

(* Reconcile's read of the declaration: the in-memory status becomes the  *)
(* stored one, and handleDeletion is entered only on a declaration marked *)
(* for deletion.                                                           *)
LEMMA ReconcileGetIInv == IInv /\ ReconcileGet => IInv'
<1> SUFFICES ASSUME IInv, ReconcileGet PROVE IInv'
  OBVIOUS
<1>. USE DEF IInv, TypeOK, ReadyStorageMatchesHash, ConditionsMatchPhase
<1>1. timer' \in BOOLEAN
  BY DEF ReconcileGet, ScheduleNextSync, CRRec
<1>2. /\ pc' \in {"idle", "deleteStorage", "addFinalizer", "initPending",
                  "phaseSyncing"}
      /\ pc' = "deleteStorage" => cr.deleting
  BY DEF ReconcileGet
<1>. QED  BY <1>1, <1>2 DEF ReconcileGet, Steps

(* syncRegistry's source read: its result is a registry, and the store is  *)
(* reached with the phase Syncing that PhaseSyncing stored.                *)
LEMMA SourceSyncIInv == IInv /\ SourceSync => IInv'
<1> SUFFICES ASSUME IInv, SourceSync PROVE IInv'
  OBVIOUS
<1>. USE DEF IInv, TypeOK, ReadyStorageMatchesHash, ConditionsMatchPhase
<1>1. IsData(source) => source \in Data
  BY LegacyAssumption DEF IsData
<1>2. IsPayload(data')
  BY <1>1 DEF SourceSync, ConfigMapSync, IsPayload
<1>3. faults' \in 0..MaxFaults /\ timer' \in BOOLEAN
  BY FaultType DEF SourceSync, ScheduleNextSync, CRRec
<1>4. pc' \in {"recordFailure", "idle", "store"}
  BY DEF SourceSync
<1>5. failure' \in Failures
  BY DEF SourceSync, SourceErrors, Failures
<1>. QED  BY <1>2, <1>3, <1>4, <1>5 DEF SourceSync, Steps

(* Store: the storage takes the data the Ready write will hash, while the *)
(* stored phase is Syncing.                                                *)
LEMMA StoreIInv == IInv /\ Store => IInv'
<1> SUFFICES ASSUME IInv, Store PROVE IInv'
  OBVIOUS
<1>. USE DEF IInv, TypeOK, ReadyStorageMatchesHash, ConditionsMatchPhase
<1>1. faults' \in 0..MaxFaults
  BY FaultType DEF Store
<1>2. failure' \in Failures
  BY DEF Store, Failures
<1>. QED  BY <1>1, <1>2 DEF Store, Steps

(* UpdateSyncStatus(nil, err): the phase Failed, one more attempt, and     *)
(* SyncSuccessful False.                                                   *)
LEMMA RecordFailureIInv == IInv /\ RecordFailure => IInv'
<1> SUFFICES ASSUME IInv, RecordFailure PROVE IInv'
  OBVIOUS
<1>. USE DEF IInv, TypeOK, ReadyStorageMatchesHash, ConditionsMatchPhase
<1>. DEFINE bumped == [lst EXCEPT !.phase = "Failed", !.attempts = @ + 1]
            new == updateConditionsForError(bumped, failure)
<1>1. bumped \in StatusRec /\ bumped.phase = "Failed"
      /\ bumped.lastHash = lst.lastHash
  <2>1. lst.attempts + 1 \in Nat
    BY DEF StatusRec
  <2>. QED  BY <2>1, Zenon DEF StatusRec, Phases
<1>2. /\ new \in StatusRec /\ new.phase = "Failed"
      /\ new.lastHash = lst.lastHash /\ new.conds["SyncSuccessful"] = "False"
  BY <1>1, ConditionsForErrorFacts
<1>3. CASE StatusWritten(new, TRUE)
  <2>1. status' = new /\ lst' = new /\ fresh' \in BOOLEAN
        /\ queued' \in BOOLEAN /\ faults' = faults
    BY <1>3, StatusWrittenFacts
  <2>. QED  BY <1>2, <2>1 DEF RecordFailure, Steps
<1>4. CASE WriteFails /\ UNCHANGED <<status, lst, fresh, queued>>
  BY <1>4, WriteFailsType DEF RecordFailure, Steps
<1>. QED  BY <1>3, <1>4 DEF RecordFailure

(* UpdateStorageReference keeps the phase Syncing and the storage, and     *)
(* sets StorageReady True for the UpdateSyncStatus that follows.           *)
LEMMA StorageRefIInv == IInv /\ StorageRef => IInv'
<1> SUFFICES ASSUME IInv, StorageRef PROVE IInv'
  OBVIOUS
<1>. DEFINE withRef == [lst EXCEPT !.storageRef = TRUE]
            new == setCondition(withRef, "StorageReady", "True")
<1>1. withRef \in StatusRec /\ withRef.phase = lst.phase
      /\ withRef.lastHash = lst.lastHash
  BY Zenon DEF StatusRec, IInv, TypeOK
<1>2. /\ new \in StatusRec /\ new.phase = lst.phase
      /\ new.lastHash = lst.lastHash /\ new.conds["StorageReady"] = "True"
  <2>1. "StorageReady" \in CondTypes /\ "True" \in CondValues
    BY DEF CondTypes, CondValues
  <2>. QED  BY <1>1, <2>1, SetConditionFacts
<1>. USE DEF IInv, TypeOK, ReadyStorageMatchesHash, ConditionsMatchPhase
<1>3. CASE StatusWritten(new, FALSE) /\ pc' = "syncStatus"
  <2>1. status' = new /\ lst' = new /\ fresh' \in BOOLEAN
        /\ queued' \in BOOLEAN /\ faults' = faults
    BY <1>3, StatusWrittenFacts
  <2>2. status.phase = "Syncing"
    BY DEF StorageRef
  <2>. QED  BY <1>2, <1>3, <2>1, <2>2 DEF StorageRef, Steps
<1>4. CASE WriteFails /\ ReturnError /\ UNCHANGED <<status, lst, fresh>>
  BY <1>4, WriteFailsType DEF StorageRef, ReturnError, Steps
<1>. QED  BY <1>3, <1>4 DEF StorageRef

(* UpdateSyncStatus(result, nil): Ready with the hash of the data that     *)
(* Store has put in the storage, all four conditions True.                 *)
LEMMA SyncStatusIInv == IInv /\ SyncStatus => IInv'
<1> SUFFICES ASSUME IInv, SyncStatus PROVE IInv'
  OBVIOUS
<1>. USE DEF IInv, TypeOK, ReadyStorageMatchesHash, ConditionsMatchPhase
<1>. DEFINE new == SyncedStatus(lst, data)
<1>1. data \in Data \cup {NoData}
  BY DEF IsPayload, IsData
<1>2. /\ new \in StatusRec /\ new.phase = "Ready" /\ new.lastHash = data
      /\ \A t \in CondTypes : new.conds[t] = "True"
  <2>1. lst.conds["StorageReady"] = "True"
    BY DEF SyncStatus
  <2>. QED  BY <1>1, <2>1, SyncedStatusFacts
<1>3. IsPayload(new.lastHash)
  BY <1>2 DEF SyncStatus
<1>4. CASE StatusWritten(new, TRUE) /\ autoDue' = FALSE /\ pc' = "idle"
           /\ ScheduleNextSync
  <2>1. status' = new /\ lst' = new /\ fresh' \in BOOLEAN
        /\ queued' \in BOOLEAN /\ faults' = faults
    BY <1>4, StatusWrittenFacts
  <2>2. timer' \in BOOLEAN
    BY <1>4 DEF ScheduleNextSync, CRRec
  <2>3. storage = data
    BY DEF SyncStatus
  <2>. QED  BY <1>2, <1>3, <1>4, <2>1, <2>2, <2>3 DEF SyncStatus, Steps
<1>5. CASE WriteFails /\ ReturnError
           /\ UNCHANGED <<status, lst, fresh, timer, autoDue>>
  BY <1>5, WriteFailsType DEF SyncStatus, ReturnError, Steps
<1>. QED  BY <1>4, <1>5 DEF SyncStatus

(* Reconcile's first UpdatePhase, and syncRegistry's Syncing write before  *)
(* the source read.                                                        *)
LEMMA PhaseWritesIInv == IInv /\ (InitPending \/ PhaseSyncing) => IInv'
<1> SUFFICES ASSUME IInv, InitPending \/ PhaseSyncing PROVE IInv'
  OBVIOUS
<1>. USE DEF IInv, TypeOK, ReadyStorageMatchesHash, ConditionsMatchPhase
<1>1. CASE InitPending
  <2>1. /\ status' \in StatusRec /\ lst' = status'
        /\ status'.lastHash = status.lastHash
        /\ \/ pc' = "phaseSyncing" /\ status'.phase = "Pending"
           \/ pc' = "idle" /\ status' = status
        /\ fresh' \in BOOLEAN /\ queued' \in BOOLEAN
        /\ faults' \in 0..MaxFaults
    BY <1>1, UpdatePhaseFacts DEF InitPending, Phases
  <2>. QED  BY <1>1, <2>1 DEF InitPending, Steps
<1>2. CASE PhaseSyncing
  <2>1. /\ status' \in StatusRec /\ lst' = status'
        /\ status'.lastHash = status.lastHash
        /\ \/ pc' = "sourceSync" /\ status'.phase = "Syncing"
           \/ pc' = "idle" /\ status' = status
        /\ fresh' \in BOOLEAN /\ queued' \in BOOLEAN
        /\ faults' \in 0..MaxFaults
    BY <1>2, UpdatePhaseFacts DEF PhaseSyncing, Phases
  <2>. QED  BY <1>2, <2>1 DEF PhaseSyncing, Steps
<1>. QED  BY <1>1, <1>2

(* The metadata writes of the worker and of the user: the finalizer added  *)
(* or removed, the trigger toggled, the deletion requested.  A live       *)
(* declaration stays live only if it was, and stays marked once marked.    *)
LEMMA MetadataIInv ==
    IInv /\ (AddFinalizer \/ RemoveFinalizer \/ EditTrigger \/ DeleteRegistry)
        => IInv'
<1> SUFFICES ASSUME IInv,
                    AddFinalizer \/ RemoveFinalizer \/ EditTrigger
                    \/ DeleteRegistry
             PROVE  IInv'
  OBVIOUS
<1>. USE DEF IInv, TypeOK, ReadyStorageMatchesHash, ConditionsMatchPhase
<1>1. CASE AddFinalizer
  <2>1. cr' \in CRRec /\ cr'.exists = cr.exists /\ cr'.deleting = cr.deleting
    BY <1>1, Zenon DEF AddFinalizer, CRRec
  <2>2. faults' \in 0..MaxFaults
    BY <1>1, FaultType, WriteFailsType DEF AddFinalizer
  <2>. QED  BY <1>1, <2>1, <2>2 DEF AddFinalizer, ReturnError, Steps
<1>2. CASE RemoveFinalizer
  <2>1. cr' \in CRRec /\ cr'.deleting = cr.deleting
        /\ (cr'.exists => cr.exists)
    BY <1>2, Zenon DEF RemoveFinalizer, CRRec
  <2>2. faults' \in 0..MaxFaults
    BY <1>2, WriteFailsType DEF RemoveFinalizer
  <2>. QED  BY <1>2, <2>1, <2>2 DEF RemoveFinalizer, ReturnError, Steps
<1>3. CASE EditTrigger
  <2>1. cr' \in CRRec /\ cr'.exists = cr.exists /\ cr'.deleting = cr.deleting
    BY <1>3, Zenon DEF EditTrigger, CRRec
  <2>2. edits' \in 0..MaxEdits
    BY <1>3, LegacyAssumption DEF EditTrigger
  <2>. QED  BY <1>3, <2>1, <2>2 DEF EditTrigger
<1>4. CASE DeleteRegistry
  <2>1. cr' \in CRRec /\ (cr'.exists /\ ~cr'.deleting => FALSE)
    BY <1>4, Zenon DEF DeleteRegistry, CRRec
  <2>2. edits' \in 0..MaxEdits
    BY <1>4, LegacyAssumption DEF DeleteRegistry
  <2>3. pc \notin {"deleteStorage", "removeFinalizer"}
    BY <1>4 DEF DeleteRegistry
  <2>. QED  BY <1>4, <2>1, <2>2, <2>3 DEF DeleteRegistry
<1>. QED  BY <1>1, <1>2, <1>3, <1>4

(* Every step of the reconcile worker, of the user, of the clock and every *)
(* crash preserves the inductive invariant.                                *)
LEMMA NextIInv == IInv /\ [Next]_vars => IInv'
<1> SUFFICES ASSUME IInv, [Next]_vars PROVE IInv'
  OBVIOUS
<1>. USE DEF IInv, TypeOK, ReadyStorageMatchesHash, ConditionsMatchPhase
<1>1. CASE ReconcileGet
  BY <1>1, ReconcileGetIInv
<1>2. CASE InitPending \/ PhaseSyncing
  BY <1>2, PhaseWritesIInv
<1>3. CASE AddFinalizer \/ RemoveFinalizer \/ EditTrigger \/ DeleteRegistry
  BY <1>3, MetadataIInv
<1>4. CASE SourceSync
  BY <1>4, SourceSyncIInv
<1>5. CASE Store
  BY <1>5, StoreIInv
<1>6. CASE RecordFailure
  BY <1>6, RecordFailureIInv
<1>7. CASE StorageRef
  BY <1>7, StorageRefIInv
<1>8. CASE SyncStatus
  BY <1>8, SyncStatusIInv
<1>9. CASE DeleteStorage
  <2>1. faults' \in 0..MaxFaults
    BY <1>9, FaultType DEF DeleteStorage
  <2>. QED  BY <1>9, <2>1 DEF DeleteStorage, ReturnError, IsPayload, Steps
<1>10. CASE EditSource
  <2>1. edits' \in 0..MaxEdits
    BY <1>10, LegacyAssumption DEF EditSource
  <2>. QED  BY <1>10, <2>1 DEF EditSource
<1>11. CASE TimePasses
  BY <1>11 DEF TimePasses
<1>12. CASE Crash
  <2>1. faults' \in 0..MaxFaults
    BY <1>12, FaultType DEF Crash
  <2>. QED  BY <1>12, <2>1 DEF Crash, CRRec, Steps
<1>13. CASE UNCHANGED vars
  BY <1>13 DEF vars
<1>. QED
  BY <1>1, <1>2, <1>3, <1>4, <1>5, <1>6, <1>7, <1>8, <1>9, <1>10, <1>11,
     <1>12, <1>13 DEF Next, Worker, Environment

(* Type correctness of the model of the previous reconciler. *)
THEOREM LegacyTypeCorrect == Spec => []TypeOK
<1>1. IInv => TypeOK
  BY DEF IInv
<1>. QED  BY <1>1, InitIInv, NextIInv, PTL DEF Spec

(* For every instance, a live declaration that the previous reconciler     *)
(* has stored as Ready has in its storage ConfigMap the data whose hash is *)
(* lastSyncHash: syncRegistry writes Syncing before the store and Ready    *)
(* with the hash only after it, every status write is copied back into    *)
(* the reconciler's object, and handleDeletion empties the storage only   *)
(* of a declaration marked for deletion.                                   *)
THEOREM ReadyStorageMatchesHashHolds == Spec => []ReadyStorageMatchesHash
<1>1. IInv => ReadyStorageMatchesHash
  BY DEF IInv
<1>. QED  BY <1>1, InitIInv, NextIInv, PTL DEF Spec

(* For every instance, the conditions the previous reconciler stores agree *)
(* with its phase: Ready with all four True, Failed with SyncSuccessful    *)
(* False.  UpdateStorageReference sets StorageReady in the same Reconcile  *)
(* before UpdateSyncStatus copies the status, and every failure write sets *)
(* SyncSuccessful False, whichever case of updateConditionsForError the    *)
(* error hits.                                                             *)
THEOREM ConditionsMatchPhaseHolds == Spec => []ConditionsMatchPhase
<1>1. IInv => ConditionsMatchPhase
  BY DEF IInv
<1>. QED  BY <1>1, InitIInv, NextIInv, PTL DEF Spec

-----------------------------------------------------------------------------
(* The refinement of the abstract publication protocol.  A declaration is  *)
(* live while it exists and is not marked for deletion, published while   *)
(* its stored phase is Ready, and its hash is lastSyncHash.               *)

(* Reconcile starts on a live, unpublished declaration with no storage.    *)
LEMMA InitRefines == Init => Publication!Init
<1> SUFFICES ASSUME Init PROVE Publication!Init
  OBVIOUS
<1>1. PICK p \in PolicyValues, n \in BOOLEAN :
          cr = [exists |-> TRUE, deleting |-> FALSE, finalizer |-> FALSE,
                trigger |-> FALSE, auto |-> p, defaultName |-> n]
  BY Zenon DEF Init
<1>2. cr.exists /\ ~cr.deleting
  BY <1>1, Zenon
<1>3. status.phase /= "Ready" /\ status.lastHash = NoData /\ storage = NoData
  BY DEF Init
<1>. QED  BY <1>2, <1>3 DEF Publication!Init

(* A step that leaves the declaration's metadata alone is, once it is no   *)
(* longer live, a step of the abstract protocol's AfterRetire.            *)
LEMMA RetiredSteps ==
    ASSUME ~(cr.exists /\ ~cr.deleting), cr' = cr
    PROVE  Publication!AfterRetire
BY DEF Publication!AfterRetire

(* A step that changes neither liveness, the storage, the stored phase    *)
(* nor lastSyncHash stutters in the abstract protocol.                      *)
LEMMA AbstractStutter ==
    ASSUME cr'.exists = cr.exists, cr'.deleting = cr.deleting,
           storage' = storage, status'.phase = status.phase,
           status'.lastHash = status.lastHash
    PROVE  [Publication!Next]_Publication!pubVars
BY DEF Publication!pubVars

(* A status write that stores a phase other than Ready and keeps           *)
(* lastSyncHash (UpdatePhase, UpdateSyncStatus with an error) unpublishes  *)
(* a Ready declaration, or stutters.                                       *)
LEMMA UnpublishingWrite ==
    ASSUME cr' = cr, storage' = storage, status'.phase /= "Ready",
           status'.lastHash = status.lastHash
    PROVE  [Publication!Next]_Publication!pubVars
<1>1. CASE ~(cr.exists /\ ~cr.deleting)
  BY <1>1, RetiredSteps DEF Publication!Next
<1>2. CASE cr.exists /\ ~cr.deleting /\ status.phase = "Ready"
  BY <1>2 DEF Publication!Next, Publication!Unpublish
<1>3. CASE status.phase /= "Ready"
  BY <1>3 DEF Publication!pubVars
<1>. QED  BY <1>1, <1>2, <1>3

(* Each step of the previous reconciler is a step of the publication       *)
(* protocol or leaves what it describes unchanged: the storage is written  *)
(* only after the Syncing write, and Ready is written with the hash of the *)
(* data Store has put there.                                               *)
LEMMA NextRefines ==
    IInv /\ [Next]_vars => [Publication!Next]_Publication!pubVars
<1> SUFFICES ASSUME IInv, [Next]_vars
             PROVE  [Publication!Next]_Publication!pubVars
  OBVIOUS
<1>1. CASE ReconcileGet \/ SourceSync \/ EditSource \/ TimePasses \/ Crash
           \/ UNCHANGED vars
  BY <1>1, AbstractStutter
     DEF ReconcileGet, SourceSync, EditSource, TimePasses, Crash, vars
<1>2. CASE AddFinalizer \/ EditTrigger
  <2>1. cr'.exists = cr.exists /\ cr'.deleting = cr.deleting
    BY <1>2, Zenon DEF AddFinalizer, EditTrigger, IInv, TypeOK, CRRec
  <2>. QED  BY <1>2, <2>1, AbstractStutter DEF AddFinalizer, EditTrigger
<1>3. CASE InitPending \/ PhaseSyncing
  <2>1. PICK ph \in {"Pending", "Syncing"} : UpdatePhase(ph, "phaseSyncing")
                                             \/ UpdatePhase(ph, "sourceSync")
    BY <1>3 DEF InitPending, PhaseSyncing
  <2>2. /\ status'.lastHash = status.lastHash
        /\ status'.phase = ph \/ status' = status
    BY <2>1, UpdatePhaseFacts DEF Phases
  <2>3. cr' = cr /\ storage' = storage
    BY <1>3 DEF InitPending, PhaseSyncing
  <2>. QED  BY <2>2, <2>3, AbstractStutter, UnpublishingWrite
<1>4. CASE RecordFailure
  <2>. DEFINE bumped == [lst EXCEPT !.phase = "Failed", !.attempts = @ + 1]
              new == updateConditionsForError(bumped, failure)
  <2>1. cr' = cr /\ storage' = storage
    BY <1>4 DEF RecordFailure
  <2>2. CASE StatusWritten(new, TRUE)
    <3>1. bumped \in StatusRec /\ bumped.phase = "Failed"
          /\ bumped.lastHash = status.lastHash
      <4>1. lst = status /\ lst \in StatusRec /\ lst.attempts + 1 \in Nat
        BY DEF IInv, TypeOK, StatusRec
      <4>. QED  BY <4>1, Zenon DEF StatusRec, Phases
    <3>2. status' = new
      BY <2>2, StatusWrittenFacts
    <3>3. status'.phase = "Failed" /\ status'.lastHash = status.lastHash
      BY <3>1, <3>2, ConditionsForErrorFacts
    <3>. QED  BY <2>1, <3>3, UnpublishingWrite
  <2>3. CASE UNCHANGED status
    BY <2>1, <2>3, AbstractStutter
  <2>. QED  BY <1>4, <2>2, <2>3 DEF RecordFailure
<1>5. CASE StorageRef
  <2>. DEFINE withRef == [lst EXCEPT !.storageRef = TRUE]
              new == setCondition(withRef, "StorageReady", "True")
  <2>1. cr' = cr /\ storage' = storage
    BY <1>5 DEF StorageRef
  <2>2. CASE StatusWritten(new, FALSE)
    <3>1. withRef \in StatusRec /\ withRef.phase = status.phase
          /\ withRef.lastHash = status.lastHash
      BY Zenon DEF IInv, TypeOK, StatusRec
    <3>2. "StorageReady" \in CondTypes /\ "True" \in CondValues
      BY DEF CondTypes, CondValues
    <3>3. status' = new
      BY <2>2, StatusWrittenFacts
    <3>4. status'.phase = status.phase /\ status'.lastHash = status.lastHash
      BY <3>1, <3>2, <3>3, SetConditionFacts
    <3>. QED  BY <2>1, <3>4, AbstractStutter
  <2>3. CASE UNCHANGED status
    BY <2>1, <2>3, AbstractStutter
  <2>. QED  BY <1>5, <2>2, <2>3 DEF StorageRef
<1>6. CASE Store
  <2>1. status.phase = "Syncing" /\ cr' = cr /\ status' = status
    BY <1>6 DEF Store, IInv
  <2>2. CASE cr.exists /\ ~cr.deleting
    BY <2>1, <2>2 DEF Publication!Next, Publication!Write
  <2>3. CASE ~(cr.exists /\ ~cr.deleting)
    BY <2>1, <2>3, RetiredSteps DEF Publication!Next
  <2>. QED  BY <2>2, <2>3
<1>7. CASE SyncStatus
  <2>. DEFINE new == SyncedStatus(lst, data)
  <2>1. cr' = cr /\ storage' = storage
    BY <1>7 DEF SyncStatus
  <2>2. CASE StatusWritten(new, TRUE)
    <3>1. status' = new
      BY <2>2, StatusWrittenFacts
    <3>2. status'.phase = "Ready" /\ status'.lastHash = storage
      <4>1. storage = data /\ lst \in StatusRec /\ data \in Data \cup {NoData}
        BY <1>7 DEF SyncStatus, IInv, TypeOK, IsPayload, IsData
      <4>. QED  BY <3>1, <4>1, SyncedStatusFacts
    <3>3. status.phase = "Syncing"
      BY <1>7 DEF SyncStatus, IInv
    <3>4. CASE cr.exists /\ ~cr.deleting
      BY <2>1, <3>2, <3>3, <3>4 DEF Publication!Next, Publication!Publish
    <3>5. CASE ~(cr.exists /\ ~cr.deleting)
      BY <2>1, <3>5, RetiredSteps DEF Publication!Next
    <3>. QED  BY <3>4, <3>5
  <2>3. CASE UNCHANGED status
    BY <2>1, <2>3, AbstractStutter
  <2>. QED  BY <1>7, <2>2, <2>3 DEF SyncStatus
<1>8. CASE DeleteStorage
  <2>1. cr.deleting /\ cr' = cr
    BY <1>8 DEF DeleteStorage, IInv
  <2>. QED  BY <2>1, RetiredSteps DEF Publication!Next
<1>9. CASE RemoveFinalizer
  <2>1. cr.deleting
    BY <1>9 DEF RemoveFinalizer, IInv
  <2>2. cr'.deleting
    BY <1>9, <2>1, Zenon DEF RemoveFinalizer, IInv, TypeOK, CRRec
  <2>. QED  BY <2>1, <2>2 DEF Publication!Next, Publication!AfterRetire
<1>10. CASE DeleteRegistry
  <2>1. cr.exists /\ ~cr.deleting
    BY <1>10 DEF DeleteRegistry
  <2>2. ~(cr'.exists /\ ~cr'.deleting)
    BY <1>10, Zenon DEF DeleteRegistry, IInv, TypeOK, CRRec
  <2>. QED  BY <1>10, <2>1, <2>2 DEF DeleteRegistry, Publication!Next,
                                       Publication!Retire
<1>. QED
  BY <1>1, <1>2, <1>3, <1>4, <1>5, <1>6, <1>7, <1>8, <1>9, <1>10
  DEF Next, Worker, Environment

(* For every instance, the previous reconciler implements the publication *)
(* protocol: under the mapping of liveness, the Ready phase and            *)
(* lastSyncHash, every behaviour of syncRegistry and handleDeletion, with  *)
(* conflicts, failed writes and crashes, is a behaviour of                 *)
(* RegistryPublication.                                                    *)
THEOREM LegacyImplementsPublication == Spec => PublicationRefined
<1>1. Spec => []IInv
  BY InitIInv, NextIInv, PTL DEF Spec
<1>2. []IInv /\ [][Next]_vars => [][Publication!Next]_Publication!pubVars
  BY NextRefines, PTL
<1>. QED
  BY <1>1, <1>2, InitRefines, PTL
  DEF Spec, PublicationRefined, Publication!Spec

=============================================================================
