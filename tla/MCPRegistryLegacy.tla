-------------------------- MODULE MCPRegistryLegacy --------------------------
(***************************************************************************)
(* The previous MCPRegistry reconciler (src/unnamed/part_004) with its     *)
(* StatusManager (controllers/status_manager.go) and ConfigMap source      *)
(* handler (controllers/configmap_source_handler.go), for one declaration. *)
(*                                                                         *)
(* The API server checks the resourceVersion of every Update: a write     *)
(* whose object carries a version older than the stored one fails with a  *)
(* conflict, and a write that changes nothing stores nothing and keeps the *)
(* version.  The reconciler reads the declaration once per Reconcile; the *)
(* StatusManager writes a DeepCopy and copies back only its Status, so the *)
(* in-memory object keeps the version it was read with.  fresh records     *)
(* whether that in-memory version is still the stored one.                *)
(*                                                                         *)
(* Data is abstracted as in MCPRegistrySync: a payload is the set of       *)
(* server names it lists and its SHA-256 is the payload itself.            *)
(***************************************************************************)
EXTENDS Naturals, FiniteSets

CONSTANTS
    Servers,        \* server names a payload may list
    SourceValues,   \* what the source ConfigMap key may hold
    PolicyValues,   \* is spec.syncPolicy.type automatic?
    MaxEdits,       \* bound: number of user edits
    MaxFaults,      \* bound: failed cluster calls plus crashes
    Missing,        \* source ConfigMap or its key is absent
    Invalid,        \* the key does not hold valid registry JSON
    NoData          \* no storage ConfigMap / empty LastSyncHash

Data == SUBSET Servers

(* The payload is a registry (not Missing, Invalid or NoData). *)
IsData(v) == v \notin {Missing, Invalid, NoData}

(* What storage, lastSyncHash and a sync result may hold: a registry or     *)
(* NoData (tested without comparing a model value with a set of sets).     *)
IsPayload(v) == v = NoData \/ (IsData(v) /\ v \in Data)

ASSUME LegacyAssumption ==
    /\ IsFiniteSet(Servers)
    /\ \A d \in Data : d \notin {Missing, Invalid, NoData}
    /\ Missing /= Invalid /\ NoData /= Missing /\ NoData /= Invalid
    /\ SourceValues \subseteq Data \cup {Missing, Invalid}
    /\ SourceValues /= {}
    /\ PolicyValues \subseteq BOOLEAN /\ PolicyValues /= {}
    /\ MaxEdits \in Nat
    /\ MaxFaults \in Nat

Phases == {"", "Pending", "Syncing", "Ready", "Failed"}

Steps == {"idle", "addFinalizer", "initPending", "phaseSyncing", "sourceSync",
          "store", "storageRef", "syncStatus", "recordFailure",
          "deleteStorage", "removeFinalizer"}

(* The conditions the StatusManager sets; Absent: not in the list.         *)
CondTypes == {"SourceAvailable", "DataValid", "SyncSuccessful", "StorageReady"}

CondValues == {"Absent", "True", "False"}

(* The error syncRegistry hands to UpdateSyncStatus: the source handler's  *)
(* ConfigMap-not-found, key-not-found, invalid-JSON and fetch errors, and  *)
(* the storage manager's error.                                            *)
Failures == {"none", "configMapNotFound", "keyNotFound", "invalidJSON",
             "fetchFailed", "storeFailed"}

VARIABLES
    source,     \* the source ConfigMap key
    storage,    \* the storage ConfigMap (NoData when absent)
    cr,         \* the declaration's metadata and the policy of its spec
    status,     \* the stored status subresource
    lst,        \* registry.Status of the reconciler's in-memory object
    fresh,      \* the in-memory object carries the stored resourceVersion
    pc,         \* the reconcile worker: the cluster call it makes next
    data,       \* the payload the source handler returned
    queued,     \* the declaration's key is in the work queue
    timer,      \* a RequeueAfter is pending
    autoDue,    \* lastSyncTime + interval lies in the past
    failure,    \* the error of the failed sync step
    faults,
    edits

vars == <<source, storage, cr, status, lst, fresh, pc, data, queued, timer,
          autoDue, failure, faults, edits>>

(* status.lastSyncTime /= nil is synced; storageRef /= nil is storageRef.  *)
StatusRec == [phase : Phases, attempts : Nat, lastHash : Data \cup {NoData},
              synced : BOOLEAN, storageRef : BOOLEAN,
              conds : [CondTypes -> CondValues]]

(* defaultName: the source ConfigMap is registry-data in toolhive-system.  *)
CRRec == [exists : BOOLEAN, deleting : BOOLEAN, finalizer : BOOLEAN,
          trigger : BOOLEAN, auto : BOOLEAN, defaultName : BOOLEAN]

Init ==
    /\ source \in SourceValues
    /\ storage = NoData
    /\ \E p \in PolicyValues, n \in BOOLEAN :
           cr = [exists |-> TRUE, deleting |-> FALSE, finalizer |-> FALSE,
                 trigger |-> FALSE, auto |-> p, defaultName |-> n]
    /\ status = [phase |-> "", attempts |-> 0, lastHash |-> NoData,
                 synced |-> FALSE, storageRef |-> FALSE,
                 conds |-> [t \in CondTypes |-> "Absent"]]
    /\ lst = status
    /\ fresh = TRUE
    /\ pc = "idle"
    /\ data = NoData
    /\ queued = TRUE
    /\ timer = FALSE
    /\ autoDue = FALSE
    /\ failure = "none"
    /\ faults = 0
    /\ edits = 0

Fault == faults < MaxFaults /\ faults' = faults + 1

(* A write of the in-memory object fails: a conflict when its version is   *)
(* stale, or any other API error.                                          *)
WriteFails ==
    \/ ~fresh /\ UNCHANGED faults
    \/ Fault

(* A Status().Update of new, built from the in-memory status, succeeds:    *)
(* the server stores it, bumps the version (the watch on MCPRegistry       *)
(* enqueues the key) unless nothing changed, and the StatusManager copies  *)
(* new back into registry.Status but not the new version.  stamped: the    *)
(* write carries time.Now(), so it always changes something.              *)
StatusWritten(new, stamped) ==
    /\ fresh
    /\ lst' = new
    /\ IF new = status /\ ~stamped
         THEN UNCHANGED <<status, fresh, queued>>
         ELSE /\ status' = new
              /\ fresh' = FALSE
              /\ queued' = TRUE
    /\ UNCHANGED faults

(* The worker returns an error: controller-runtime requeues the key.       *)
ReturnError ==
    /\ pc' = "idle"
    /\ queued' = TRUE

(* setCondition: the condition of that type takes the status (and the      *)
(* fixed reason and message of the call), updated in place or appended;    *)
(* LastTransitionTime only moves when something differs.                   *)
setCondition(st, t, v) == [st EXCEPT !.conds[t] = v]

(* The switch of updateConditionsForError on a SourceHandlerError's Reason *)
(* compares it with fixed strings.  The ConfigMap handler's reasons name   *)
(* the ConfigMap and key, so only a missing ConfigMap named registry-data  *)
(* in toolhive-system hits a case ("ConfigMap 'registry-data' not found in *)
(* namespace 'toolhive-system'", falling through to "source not found");   *)
(* no handler reason is "invalid data format" or "validation failed".     *)
SourceNotFoundCase(err) == err = "configMapNotFound" /\ cr.defaultName

(* updateConditionsForError: SyncSuccessful False in every case, and       *)
(* SourceAvailable False in the not-found case.                            *)
updateConditionsForError(st, err) ==
    LET failed == setCondition(st, "SyncSuccessful", "False")
    IN  IF SourceNotFoundCase(err)
          THEN setCondition(failed, "SourceAvailable", "False")
          ELSE failed

(* The mutant: the automatic policy is not consulted.                      *)
ShouldSyncNoAuto(st, annotated) ==
    st.phase \in {"Pending", "Failed"} \/ annotated

(* shouldSync, hasManualSyncTrigger and shouldAutoSync: a Pending or       *)
(* Failed phase forces a sync, so does the mere presence of the trigger    *)
(* annotation, and an automatic policy syncs when lastSyncTime is nil or   *)
(* the interval has passed.                                                *)
ShouldSync(st, annotated) ==
    \/ st.phase \in {"Pending", "Failed"}
    \/ annotated
    \/ cr.auto /\ (~st.synced \/ autoDue)

(* scheduleNextSync: RequeueAfter the interval for an automatic policy,    *)
(* nothing otherwise.                                                      *)
ScheduleNextSync ==
    timer' = (timer \/ cr.auto)

(* Reconcile reads the declaration; not found and a deletion without the   *)
(* finalizer end it, a deletion goes to handleDeletion, a missing          *)
(* finalizer is added, an empty phase is initialised; otherwise            *)
(* syncRegistry validates the (fixed, valid) ConfigMap source spec and     *)
(* asks shouldSync, scheduling the next sync when it says no.              *)
ReconcileGet ==
    /\ pc = "idle"
    /\ queued
    /\ queued' = FALSE
    /\ fresh' = TRUE
    /\ lst' = status
    /\ IF cr.exists /\ ~cr.deleting /\ cr.finalizer /\ status.phase /= ""
                    /\ ~ShouldSync(status, cr.trigger)
         THEN ScheduleNextSync
         ELSE UNCHANGED timer
    /\ pc' = IF ~cr.exists THEN "idle"
              ELSE IF cr.deleting
                   THEN IF cr.finalizer THEN "deleteStorage" ELSE "idle"
              ELSE IF ~cr.finalizer THEN "addFinalizer"
              ELSE IF status.phase = "" THEN "initPending"
              ELSE IF ShouldSync(status, cr.trigger) THEN "phaseSyncing"
              ELSE "idle"
    /\ UNCHANGED <<failure, source, storage, cr, status, data, autoDue,
                   faults, edits>>

(* AddFinalizer and r.Update(registry), then Requeue: true; an error is    *)
(* returned and requeued as well.                                          *)
AddFinalizer ==
    /\ pc = "addFinalizer"
    /\ \/ /\ fresh
          /\ cr' = [cr EXCEPT !.finalizer = TRUE]
          /\ UNCHANGED faults
       \/ WriteFails /\ UNCHANGED cr
    /\ ReturnError
    /\ UNCHANGED <<failure, source, storage, status, lst, fresh, data, timer,
                   autoDue, edits>>

(* StatusManager.UpdatePhase: no call when phase and message are already   *)
(* those asked for; otherwise a status write of the DeepCopy whose error   *)
(* Reconcile and syncRegistry return.  On success the worker goes on to    *)
(* next.  The messages are fixed per phase, so comparing phases suffices.  *)
UpdatePhase(ph, next) ==
    \/ /\ lst.phase = ph
       /\ pc' = next
       /\ UNCHANGED <<status, lst, fresh, queued, faults>>
    \/ /\ lst.phase /= ph
       /\ StatusWritten([lst EXCEPT !.phase = ph], FALSE)
       /\ pc' = next
    \/ /\ lst.phase /= ph
       /\ WriteFails
       /\ ReturnError
       /\ UNCHANGED <<status, lst, fresh>>

(* Reconcile: phase "" is set to Pending; shouldSync then says yes.        *)
InitPending ==
    /\ pc = "initPending"
    /\ UpdatePhase("Pending", "phaseSyncing")
    /\ UNCHANGED <<failure, source, storage, cr, data, timer, autoDue, edits>>

(* The mutant: the error of UpdatePhase(Syncing) is logged and the sync   *)
(* goes on.                                                                *)
PhaseSyncingIgnoreError ==
    /\ pc = "phaseSyncing"
    /\ \/ UpdatePhase("Syncing", "sourceSync")
       \/ /\ lst.phase /= "Syncing"
          /\ WriteFails
          /\ pc' = "sourceSync"
          /\ UNCHANGED <<status, lst, fresh, queued>>
    /\ UNCHANGED <<failure, source, storage, cr, data, timer, autoDue, edits>>

(* syncRegistry: the phase is set to Syncing before the source is read.    *)
PhaseSyncing ==
    /\ pc = "phaseSyncing"
    /\ UpdatePhase("Syncing", "sourceSync")
    /\ UNCHANGED <<failure, source, storage, cr, data, timer, autoDue, edits>>

(* The mutant: the JSON of the key is not checked.                         *)
ConfigMapSyncNoValidate(v) == IF v = Missing THEN Missing ELSE v

(* The error Sync returns for a value it rejects: Missing stands for an    *)
(* absent ConfigMap and for an absent key.                                 *)
SourceErrors(v) ==
    IF v = Invalid THEN {"invalidJSON"}
                   ELSE {"configMapNotFound", "keyNotFound"}

(* ConfigMapSourceHandler.Sync: a missing ConfigMap or key is an error, so *)
(* is a value that does not unmarshal as a registry; otherwise the data,   *)
(* its hash and its server count.                                          *)
ConfigMapSync(v) == IF IsData(v) THEN v ELSE Missing

(* syncRegistry after the phase write: the source handler reads the        *)
(* ConfigMap (the read itself may fail); on an error the failure is        *)
(* recorded.  Unchanged data skips the store only when the in-memory phase *)
(* is Ready, which UpdatePhase has just made Syncing.                      *)
SourceSync ==
    /\ pc = "sourceSync"
    /\ \/ /\ ConfigMapSync(source) = Missing
          /\ failure' \in SourceErrors(source)
          /\ pc' = "recordFailure"
          /\ UNCHANGED <<data, timer, faults>>
       \/ /\ ConfigMapSync(source) /= Missing
          /\ Fault
          /\ failure' = "fetchFailed"
          /\ pc' = "recordFailure"
          /\ UNCHANGED <<data, timer>>
       \/ /\ ConfigMapSync(source) /= Missing
          /\ data' = ConfigMapSync(source)
          /\ IF data' = lst.lastHash /\ lst.phase = "Ready"
               THEN pc' = "idle" /\ ScheduleNextSync
               ELSE pc' = "store" /\ UNCHANGED timer
          /\ UNCHANGED <<failure, faults>>
    /\ UNCHANGED <<source, storage, cr, status, lst, fresh, queued,
                   autoDue, edits>>

(* The storage manager writes the storage ConfigMap; its change enqueues   *)
(* the owner through Owns(ConfigMap).  On an error the failure is          *)
(* recorded.                                                               *)
Store ==
    /\ pc = "store"
    /\ \/ /\ Fault
          /\ failure' = "storeFailed"
          /\ pc' = "recordFailure"
          /\ UNCHANGED <<storage, queued>>
       \/ /\ storage' = data
          /\ queued' = (queued \/ storage /= data)
          /\ pc' = "storageRef"
          /\ UNCHANGED <<failure, faults>>
    /\ UNCHANGED <<source, cr, status, lst, fresh, data, timer,
                   autoDue, edits>>

(* UpdateSyncStatus(nil, err): Failed, SyncAttempts + 1, the conditions    *)
(* updateConditionsForError sets for err; the write's error is only        *)
(* logged.  syncRegistry then returns RequeueAfter                         *)
(* GetRetryDelay (ShouldRetry only chooses between two ways to compute it) *)
(* and no error.                                                           *)
RecordFailure ==
    /\ pc = "recordFailure"
    /\ \/ StatusWritten(updateConditionsForError(
                     [lst EXCEPT !.phase = "Failed", !.attempts = @ + 1],
                     failure), TRUE)
       \/ WriteFails /\ UNCHANGED <<status, lst, fresh, queued>>
    /\ pc' = "idle"
    /\ timer' = TRUE
    /\ UNCHANGED <<failure, source, storage, cr, data, autoDue, edits>>

(* The mutant: the StorageReady condition is not set.                      *)
StorageRefNoCondition ==
    /\ pc = "storageRef"
    /\ \/ /\ StatusWritten([lst EXCEPT !.storageRef = TRUE], FALSE)
          /\ pc' = "syncStatus"
       \/ WriteFails /\ ReturnError /\ UNCHANGED <<status, lst, fresh>>
    /\ UNCHANGED <<source, storage, cr, data, timer, autoDue, failure, edits>>

(* UpdateStorageReference: a status write of storageRef and the            *)
(* StorageReady condition, sent even when both are already set (the server *)
(* then stores nothing); its error is returned.                            *)
StorageRef ==
    /\ pc = "storageRef"
    /\ \/ /\ StatusWritten(setCondition([lst EXCEPT !.storageRef = TRUE],
                                       "StorageReady", "True"), FALSE)
          /\ pc' = "syncStatus"
       \/ WriteFails /\ ReturnError /\ UNCHANGED <<status, lst, fresh>>
    /\ UNCHANGED <<failure, source, storage, cr, data, timer, autoDue, edits>>

(* The status UpdateSyncStatus(result, nil) writes.                        *)
SyncedStatus(st, d) ==
    LET ok == [st EXCEPT !.phase = "Ready", !.lastHash = d, !.attempts = 0,
                         !.synced = TRUE]
    IN  [ok EXCEPT !.conds = [t \in CondTypes |->
            IF t = "StorageReady" THEN ok.conds[t] ELSE "True"]]

(* The mutant: the hash of the result is not copied into the status.      *)
SyncStatusNoHash ==
    /\ pc = "syncStatus"
    /\ \/ /\ StatusWritten([SyncedStatus(lst, data) EXCEPT
                                 !.lastHash = lst.lastHash], TRUE)
          /\ autoDue' = FALSE
          /\ pc' = "idle"
          /\ ScheduleNextSync
       \/ /\ WriteFails /\ ReturnError
          /\ UNCHANGED <<status, lst, fresh, timer, autoDue>>
    /\ UNCHANGED <<failure, source, storage, cr, data, edits>>

(* UpdateSyncStatus(result, nil): Ready, lastSyncTime now, the hash, the   *)
(* count, SyncAttempts 0, SourceAvailable, DataValid and SyncSuccessful    *)
(* True; its error is returned; then scheduleNextSync.                     *)
SyncStatus ==
    /\ pc = "syncStatus"
    /\ \/ /\ StatusWritten(SyncedStatus(lst, data), TRUE)
          /\ autoDue' = FALSE
          /\ pc' = "idle"
          /\ ScheduleNextSync
       \/ /\ WriteFails /\ ReturnError
          /\ UNCHANGED <<status, lst, fresh, timer, autoDue>>
    /\ UNCHANGED <<failure, source, storage, cr, data, edits>>

(* handleDeletion: the storage is deleted first; an error is returned      *)
(* before the finalizer is touched.                                        *)
DeleteStorage ==
    /\ pc = "deleteStorage"
    /\ \/ Fault /\ ReturnError /\ UNCHANGED storage
       \/ /\ storage' = NoData
          /\ pc' = "removeFinalizer"
          /\ UNCHANGED <<faults, queued>>
    /\ UNCHANGED <<failure, source, cr, status, lst, fresh, data, timer,
                   autoDue, edits>>

(* The mutant: an error removing the finalizer is logged, not returned.    *)
RemoveFinalizerNoRetry ==
    /\ pc = "removeFinalizer"
    /\ \/ /\ fresh
          /\ cr' = [cr EXCEPT !.exists = FALSE, !.finalizer = FALSE]
          /\ UNCHANGED faults
       \/ WriteFails /\ UNCHANGED cr
    /\ pc' = "idle"
    /\ UNCHANGED <<failure, source, storage, status, lst, fresh, data, queued,
                   timer, autoDue, edits>>

(* handleDeletion: RemoveFinalizer and r.Update(registry); with no         *)
(* finalizer left the declaration is gone.  An error is returned.          *)
RemoveFinalizer ==
    /\ pc = "removeFinalizer"
    /\ \/ /\ fresh
          /\ cr' = [cr EXCEPT !.exists = FALSE, !.finalizer = FALSE]
          /\ pc' = "idle"
          /\ UNCHANGED <<faults, queued>>
       \/ WriteFails /\ ReturnError /\ UNCHANGED cr
    /\ UNCHANGED <<failure, source, storage, status, lst, fresh, data, timer,
                   autoDue, edits>>

(* A user edits the source ConfigMap; the watch on ConfigMaps maps it to   *)
(* the declarations that reference it (findMCPRegistriesForConfigMap).     *)
EditSource ==
    /\ edits < MaxEdits
    /\ \E v \in SourceValues \ {source} : source' = v
    /\ queued' = (queued \/ cr.exists)
    /\ edits' = edits + 1
    /\ UNCHANGED <<failure, storage, cr, status, lst, fresh, pc, data, timer,
                   autoDue, faults>>

(* A user adds or removes the sync-trigger annotation: a metadata write    *)
(* that bumps the version and enqueues the key.                            *)
EditTrigger ==
    /\ cr.exists
    /\ edits < MaxEdits
    /\ cr' = [cr EXCEPT !.trigger = ~@]
    /\ fresh' = FALSE
    /\ queued' = TRUE
    /\ edits' = edits + 1
    /\ UNCHANGED <<failure, source, storage, status, lst, pc, data, timer,
                   autoDue, faults>>

(* A user deletes the declaration: with the finalizer it is only marked.   *)
DeleteRegistry ==
    /\ cr.exists /\ ~cr.deleting
    /\ edits < MaxEdits
    /\ cr' = IF cr.finalizer THEN [cr EXCEPT !.deleting = TRUE]
                             ELSE [cr EXCEPT !.exists = FALSE]
    /\ fresh' = FALSE
    /\ queued' = TRUE
    /\ edits' = edits + 1
    /\ UNCHANGED <<failure, source, storage, status, lst, pc, data, timer,
                   autoDue, faults>>

(* Time passes: pending RequeueAfter timers fire and the sync interval     *)
(* since lastSyncTime elapses.                                             *)
TimePasses ==
    /\ timer \/ ~autoDue
    /\ timer' = FALSE
    /\ queued' = (queued \/ timer)
    /\ autoDue' = TRUE
    /\ UNCHANGED <<failure, source, storage, cr, status, lst, fresh, pc, data,
                   faults, edits>>

(* The operator restarts between two cluster calls: the in-flight          *)
(* reconcile and the timers are lost, the informer lists the declaration.  *)
Crash ==
    /\ pc /= "idle"
    /\ Fault
    /\ pc' = "idle"
    /\ timer' = FALSE
    /\ queued' = cr.exists
    /\ UNCHANGED <<failure, source, storage, cr, status, lst, fresh, data,
                   autoDue, edits>>

Worker ==
    \/ ReconcileGet \/ AddFinalizer \/ InitPending \/ PhaseSyncing
    \/ SourceSync \/ Store \/ RecordFailure \/ StorageRef \/ SyncStatus
    \/ DeleteStorage \/ RemoveFinalizer

Environment ==
    EditSource \/ EditTrigger \/ DeleteRegistry \/ TimePasses
    \/ Crash

Next == Worker \/ Environment

(* The controller's worker goroutine keeps taking keys and finishing the  *)
(* reconcile it started; timers fire.  Users and crashes owe nothing.      *)
Fairness ==
    /\ WF_vars(ReconcileGet) /\ WF_vars(AddFinalizer) /\ WF_vars(InitPending)
    /\ WF_vars(PhaseSyncing) /\ WF_vars(SourceSync) /\ WF_vars(Store)
    /\ WF_vars(RecordFailure) /\ WF_vars(StorageRef) /\ WF_vars(SyncStatus)
    /\ WF_vars(DeleteStorage) /\ WF_vars(RemoveFinalizer)
    /\ WF_vars(TimePasses)

Spec == Init /\ [][Next]_vars

FairSpec == Spec /\ Fairness

-----------------------------------------------------------------------------
(* Every variable holds a value of its kind; storage and lastSyncHash hold *)
(* a registry or nothing.                                                  *)
TypeOK ==
    /\ IsPayload(storage) /\ IsPayload(data)
    /\ IsPayload(status.lastHash) /\ IsPayload(lst.lastHash)
    /\ source \in SourceValues
    /\ cr \in CRRec
    /\ status \in StatusRec
    /\ lst \in StatusRec
    /\ fresh \in BOOLEAN
    /\ pc \in Steps
    /\ queued \in BOOLEAN /\ timer \in BOOLEAN /\ autoDue \in BOOLEAN
    /\ failure \in Failures
    /\ faults \in 0..MaxFaults /\ edits \in 0..MaxEdits

(* A live declaration whose stored phase is Ready has in storage exactly   *)
(* the data whose hash is lastSyncHash: syncRegistry writes the phase      *)
(* Syncing before it stores and writes Ready with the hash only after, so  *)
(* a crash, a conflict or a failed write in between leaves the phase       *)
(* Syncing or Failed, never a stale Ready.                                 *)
ReadyStorageMatchesHash ==
    (cr.exists /\ ~cr.deleting /\ status.phase = "Ready")
        => storage = status.lastHash

(* The stored conditions agree with the stored phase: Ready has all four   *)
(* conditions True (StorageReady from UpdateStorageReference, written      *)
(* earlier in the same Reconcile and copied back into the object that      *)
(* UpdateSyncStatus copies), and Failed has SyncSuccessful False, whatever *)
(* an earlier success had set.                                             *)
ConditionsMatchPhase ==
    /\ status.phase = "Ready" => \A t \in CondTypes : status.conds[t] = "True"
    /\ status.phase = "Failed" => status.conds["SyncSuccessful"] = "False"

(* The declaration is Ready with the source's data stored and hashed.      *)
InSync ==
    status.phase = "Ready" /\ status.lastHash = source /\ storage = source

(* A live declaration whose source holds a registry eventually gets in     *)
(* sync with it, through the conflicts its own stale resourceVersions      *)
(* cause, unless the source stops being a registry or it is deleted.       *)
SyncsToSource ==
    (cr.exists /\ ~cr.deleting /\ IsData(source))
        ~> (InSync \/ ~cr.exists \/ cr.deleting \/ ~IsData(source))

(* A deleted declaration is eventually gone: handleDeletion retries the    *)
(* storage delete and the finalizer removal until both succeed.            *)
DeletionCompletes ==
    cr.deleting ~> ~cr.exists

(* Once the user stops editing, the controller eventually stops            *)
(* reconciling a declaration that has no automatic policy: nothing queued, *)
(* no timer, no reconcile in flight.                                       *)
EventuallyQuiet ==
    <>[](pc = "idle" /\ ~queued /\ ~timer)

-----------------------------------------------------------------------------
(* The previous reconciler seen through the promise of RegistryPublication: *)
(* live is a declaration that exists and is not marked for deletion, ready  *)
(* is the stored phase Ready, hash the stored lastSyncHash.                 *)
Publication == INSTANCE RegistryPublication
    WITH live  <- cr.exists /\ ~cr.deleting,
         ready <- status.phase = "Ready",
         hash  <- status.lastHash

(* syncRegistry implements the publication protocol: it writes Syncing    *)
(* before it stores, rewrites the storage only while the stored phase is  *)
(* not Ready, and writes Ready together with the hash of the data it has  *)
(* just stored; conflicts, failed writes and crashes only ever leave the  *)
(* declaration unpublished.                                                *)
PublicationRefined == Publication!Spec

=============================================================================
