--------------------------- MODULE MCPRegistrySync ---------------------------
(***************************************************************************)
(* Reconciliation of one MCPRegistry declaration.                          *)
(*                                                                         *)
(* The worker is MCPRegistryReconciler.Reconcile (src/unnamed/part_005)    *)
(* driving the sync manager of src/cmd/thv-operator/pkg/sync/manager.go    *)
(* (ShouldSync, PerformSync, UpdateManualSyncTriggerOnly, Delete) and the  *)
(* storage ConfigMap of src/unnamed/part_006.  Every cluster call (status  *)
(* write, storage write, source read) is a step of its own, so the user    *)
(* (source edits, sync-trigger annotation, deletion), the clock, the       *)
(* garbage collector and operator crashes interleave between them.         *)
(*                                                                         *)
(* Data is abstracted to the set of server names a payload lists; the      *)
(* SHA-256 of a payload is the payload itself (hashes are compared only    *)
(* for equality, collisions are ignored).  Time is abstracted to two       *)
(* facts: whether a delayed requeue is pending (timer) and whether         *)
(* status.nextRetryTime lies in the future (status.backoff).               *)
(***************************************************************************)
EXTENDS Naturals, FiniteSets

CONSTANTS
    Servers,                    \* server names a payload may list
    SourceValues,               \* payloads the source ConfigMap may hold
    FilterKeep,                 \* names spec.filter keeps (no filter: Servers)
    HandlerOKValues,            \* can the source handler be created and validated?
    PolicyValues,               \* is spec.syncPolicy set?
    MaxHandlerCreationRetries,  \* manager.go:51
    MaxSyncAttempts,            \* manager.go:47
    MaxTrigger,                 \* bound: largest sync-trigger annotation value
    MaxEdits,                   \* bound: number of user edits
    MaxFaults,                  \* bound: failed cluster calls plus crashes
    Missing,                    \* source ConfigMap or its key is absent
    Invalid,                    \* payload is not a valid registry
    NoData                      \* no storage ConfigMap / empty LastSyncHash

Data == SUBSET Servers

(* The payload is a registry (not Missing, Invalid or NoData). *)
IsData(v) == v \notin {Missing, Invalid, NoData}

(* What the storage ConfigMap, status.lastSyncHash and a fetch result may  *)
(* hold: a registry or NoData (tested without comparing a model value with *)
(* a set of sets).                                                         *)
IsPayload(v) == v = NoData \/ (IsData(v) /\ v \in Data)

ASSUME ConstantsAssumption ==
    /\ IsFiniteSet(Servers)
    /\ \A d \in Data : d \notin {Missing, Invalid, NoData}
    /\ Missing /= Invalid /\ NoData /= Missing /\ NoData /= Invalid
    /\ SourceValues \subseteq Data \cup {Missing, Invalid}
    /\ SourceValues /= {}
    /\ FilterKeep \subseteq Servers
    /\ HandlerOKValues \subseteq BOOLEAN /\ HandlerOKValues /= {}
    /\ PolicyValues \subseteq BOOLEAN /\ PolicyValues /= {}
    /\ MaxHandlerCreationRetries \in Nat
    /\ MaxSyncAttempts \in Nat
    /\ MaxTrigger \in Nat
    /\ MaxEdits \in Nat
    /\ MaxFaults \in Nat

(* ShouldSync reasons, manager.go:21-42 *)
ReasonAlreadyInProgress     == "sync-already-in-progress"
ReasonRegistryNotReady      == "registry-not-ready"
ReasonRetryBackoffActive    == "retry-backoff-active"
ReasonSourceDataChanged     == "source-data-changed"
ReasonManualWithChanges     == "manual-sync-with-data-changes"
ReasonManualNoChanges       == "manual-sync-no-data-changes"
ReasonErrorCheckingSyncNeed == "error-checking-sync-need"
ReasonUpToDateWithPolicy    == "up-to-date-with-policy"
ReasonUpToDateNoPolicy      == "up-to-date-no-policy"

Reasons == {ReasonAlreadyInProgress, ReasonRegistryNotReady,
            ReasonRetryBackoffActive, ReasonSourceDataChanged,
            ReasonManualWithChanges, ReasonManualNoChanges,
            ReasonErrorCheckingSyncNeed, ReasonUpToDateWithPolicy,
            ReasonUpToDateNoPolicy, "none"}

Phases == {"", "Syncing", "Ready", "Failed", "Terminating"}

(* Where the reconcile worker is: before the cluster call it names. *)
Steps == {"idle", "fetch", "failInterim", "refetch", "store", "failFinal",
          "succeed", "triggerOnly", "finTerminating", "finDelete", "finRemove"}

VARIABLES
    source,   \* payload of the source ConfigMap
    cr,       \* the declaration: existence, deletion, finalizer, annotation, spec
    status,   \* the declaration's status subresource
    storage,  \* registry.json of the storage ConfigMap, or NoData
    pc,       \* step of the reconcile worker
    w,        \* locals of the running reconcile
    queued,   \* the declaration's key is in the work queue
    timer,    \* a RequeueAfter for the key is pending
    faults,   \* failed cluster calls and crashes so far
    edits     \* user edits so far

vars == <<source, cr, status, storage, pc, w, queued, timer, faults, edits>>

StatusRec == [phase : Phases, attempts : Nat, backoff : BOOLEAN,
              lastHash : Data \cup {NoData}, serverCount : Nat,
              storageRef : BOOLEAN, lastTrigger : 0..MaxTrigger]

CRRec == [exists : BOOLEAN, deleting : BOOLEAN, finalizer : BOOLEAN,
          trigger : 0..MaxTrigger, handlerOK : BOOLEAN, policy : BOOLEAN]

WRec == [reason : Reasons, base : Nat, att : Nat, trig : 0..MaxTrigger,
         fetched : Data \cup {NoData}, kind : {"none", "handler", "fetch", "store"}]

(* The payload fields come first: TLC then reports a non-registry payload *)
(* as a violation instead of failing to compare it with a set of sets.     *)
TypeOK ==
    /\ IsPayload(storage)
    /\ IsPayload(status.lastHash)
    /\ IsPayload(w.fetched)
    /\ source \in SourceValues
    /\ cr \in CRRec
    /\ status \in StatusRec
    /\ pc \in Steps
    /\ w \in WRec
    /\ queued \in BOOLEAN
    /\ timer \in BOOLEAN
    /\ faults \in 0..MaxFaults
    /\ edits \in 0..MaxEdits

-----------------------------------------------------------------------------
(* Helpers translated from the code, and the collaborators it calls whose  *)
(* code is not in the repository (marked in PROJECT.json).                 *)

(* filterService.ApplyFilters: keep the servers the filter admits. *)
ApplyFilter(d) == d \cap FilterKeep

(* DefaultManualSyncChecker.IsManualSyncRequested: a non-empty trigger    *)
(* annotation that differs from the last one processed.                   *)
ManualSyncRequested(c, st) == c.trigger /= 0 /\ c.trigger /= st.lastTrigger

(* sync.IsManualSync *)
IsManualSync(reason) == reason \in {ReasonManualWithChanges, ReasonManualNoChanges}

(* The decisions ShouldSync returns, manager.go:142-192. *)
Decision(sync, reason, next) == [sync |-> sync, reason |-> reason, next |-> next]

(* ShouldSync once the phase is Ready, manager.go:159-192. *)
ShouldSyncReady(c, st, src) ==
    LET changed == src /= st.lastHash IN
    IF src = Missing THEN Decision(TRUE, ReasonErrorCheckingSyncNeed, FALSE)
    ELSE IF ManualSyncRequested(c, st)
         THEN Decision(TRUE, IF changed THEN ReasonManualWithChanges
                                        ELSE ReasonManualNoChanges, FALSE)
    ELSE IF changed THEN Decision(TRUE, ReasonSourceDataChanged, FALSE)
    ELSE IF c.policy THEN Decision(FALSE, ReasonUpToDateWithPolicy, TRUE)
    ELSE Decision(FALSE, ReasonUpToDateNoPolicy, FALSE)

(* Mutant: ShouldSync without the retry-backoff check. *)
ShouldSyncNoBackoff(c, st, src) ==
    IF st.phase = "Syncing" THEN Decision(FALSE, ReasonAlreadyInProgress, FALSE)
    ELSE IF st.phase /= "Ready" THEN Decision(TRUE, ReasonRegistryNotReady, FALSE)
    ELSE ShouldSyncReady(c, st, src)

(* DefaultSyncManager.ShouldSync, as seen by reconcileSync: a failing     *)
(* change check (source ConfigMap missing) becomes a sync with reason      *)
(* error-checking-sync-need (part_005:153-158).  The checks run in the     *)
(* code's order and each one returns.                                      *)
ShouldSync(c, st, src) ==
    IF st.phase = "Syncing" THEN Decision(FALSE, ReasonAlreadyInProgress, FALSE)
    ELSE IF st.phase /= "Ready"
         THEN IF st.phase = "Failed" /\ st.backoff
              THEN Decision(FALSE, ReasonRetryBackoffActive, TRUE)
              ELSE Decision(TRUE, ReasonRegistryNotReady, FALSE)
    ELSE ShouldSyncReady(c, st, src)

(* A status or object write that changes the declaration is seen by the    *)
(* controller's own watch on MCPRegistry and enqueues the key again.       *)
WriteStatus(new) ==
    /\ status' = new
    /\ queued' = (queued \/ new /= status)

(* One more failed cluster call, within the bound. *)
Fault ==
    /\ faults < MaxFaults
    /\ faults' = faults + 1

-----------------------------------------------------------------------------
Init ==
    /\ source \in SourceValues
    /\ cr \in [exists : {TRUE}, deleting : {FALSE}, finalizer : {FALSE},
               trigger : {0}, handlerOK : HandlerOKValues, policy : PolicyValues]
    /\ status = [phase |-> "", attempts |-> 0, backoff |-> FALSE,
                 lastHash |-> NoData, serverCount |-> 0,
                 storageRef |-> FALSE, lastTrigger |-> 0]
    /\ storage = NoData
    /\ pc = "idle"
    /\ w = [reason |-> "none", base |-> 0, att |-> 0, trig |-> 0,
            fetched |-> NoData, kind |-> "none"]
    /\ queued = TRUE
    /\ timer = FALSE
    /\ faults = 0
    /\ edits = 0

-----------------------------------------------------------------------------
(* Reconcile, part_005:49-139: one action per branch taken after the Get. *)

(* The declaration is gone: return without requeue. *)
ReconcileNotFound ==
    /\ pc = "idle" /\ queued /\ ~cr.exists
    /\ queued' = FALSE
    /\ UNCHANGED <<source, cr, status, storage, pc, w, timer, faults, edits>>

(* Marked for deletion with our finalizer: run finalizeMCPRegistry. *)
ReconcileFinalize ==
    /\ pc = "idle" /\ queued /\ cr.exists /\ cr.deleting /\ cr.finalizer
    /\ queued' = FALSE
    /\ pc' = "finTerminating"
    /\ UNCHANGED <<source, cr, status, storage, w, timer, faults, edits>>

(* First observation: add the finalizer and return; the update's own     *)
(* watch event, or the error's rate-limited requeue, brings the key back. *)
ReconcileAddFinalizer ==
    /\ pc = "idle" /\ queued /\ cr.exists /\ ~cr.deleting /\ ~cr.finalizer
    /\ queued' = TRUE
    /\ \/ /\ cr' = [cr EXCEPT !.finalizer = TRUE]
          /\ UNCHANGED faults
       \/ /\ Fault
          /\ UNCHANGED cr
    /\ UNCHANGED <<source, status, storage, pc, w, timer, edits>>

(* Mutant: reconcileSync returns without a requeue when no sync is needed. *)
ReconcileSyncNoRequeue ==
    /\ pc = "idle" /\ queued /\ cr.exists /\ ~cr.deleting /\ cr.finalizer
    /\ queued' = FALSE
    /\ LET d == ShouldSync(cr, status, source) IN
       /\ w' = [reason |-> d.reason, base |-> status.attempts,
                att |-> status.attempts, trig |-> cr.trigger,
                fetched |-> NoData, kind |-> "none"]
       /\ \/ /\ ~d.sync
             /\ pc' = "idle"
             /\ UNCHANGED timer
          \/ /\ d.sync /\ d.reason = ReasonManualNoChanges
             /\ pc' = "triggerOnly"
             /\ UNCHANGED timer
          \/ /\ d.sync /\ d.reason /= ReasonManualNoChanges
             /\ pc' = "fetch"
             /\ UNCHANGED timer
    /\ UNCHANGED <<source, cr, status, storage, faults, edits>>

(* Mutant: Reconcile goes on into reconcileSync without waiting for the    *)
(* finalizer it adds (the return of part_005:107 dropped).                 *)
ReconcileSyncNoFinalizer ==
    /\ pc = "idle" /\ queued /\ cr.exists /\ ~cr.deleting
    /\ queued' = FALSE
    /\ LET d == ShouldSync(cr, status, source) IN
       /\ w' = [reason |-> d.reason, base |-> status.attempts,
                att |-> status.attempts, trig |-> cr.trigger,
                fetched |-> NoData, kind |-> "none"]
       /\ \/ /\ ~d.sync
             /\ pc' = "idle"
             /\ timer' = (timer \/ d.next)
          \/ /\ d.sync /\ d.reason = ReasonManualNoChanges
             /\ pc' = "triggerOnly"
             /\ UNCHANGED timer
          \/ /\ d.sync /\ d.reason /= ReasonManualNoChanges
             /\ pc' = "fetch"
             /\ UNCHANGED timer
    /\ UNCHANGED <<source, cr, status, storage, faults, edits>>

(* reconcileSync, part_005:142-176: refresh, ShouldSync, then dispatch.   *)
ReconcileSync ==
    /\ pc = "idle" /\ queued /\ cr.exists /\ ~cr.deleting /\ cr.finalizer
    /\ queued' = FALSE
    /\ LET d == ShouldSync(cr, status, source) IN
       /\ w' = [reason |-> d.reason, base |-> status.attempts,
                att |-> status.attempts, trig |-> cr.trigger,
                fetched |-> NoData, kind |-> "none"]
       /\ \/ /\ ~d.sync
             /\ pc' = "idle"
             /\ timer' = (timer \/ d.next)
          \/ /\ d.sync /\ d.reason = ReasonManualNoChanges
             /\ pc' = "triggerOnly"
             /\ UNCHANGED timer
          \/ /\ d.sync /\ d.reason /= ReasonManualNoChanges
             /\ pc' = "fetch"
             /\ UNCHANGED timer
    /\ UNCHANGED <<source, cr, status, storage, faults, edits>>

-----------------------------------------------------------------------------
(* PerformSync, manager.go:216-455.                                        *)

(* Mutant: the payload is taken without validation. *)
FetchAndProcessNoValidate ==
    /\ pc = "fetch"
    /\ \/ /\ ~cr.handlerOK
          /\ pc' = "failInterim"
          /\ UNCHANGED w
       \/ /\ cr.handlerOK
          /\ pc' = "refetch"
          /\ w' = [w EXCEPT !.fetched = source]
    /\ UNCHANGED <<source, cr, status, storage, queued, timer, faults, edits>>

(* fetchAndProcessRegistryData, manager.go:595-648: create the handler,   *)
(* validate, fetch, filter.  Every failure goes to the interim status      *)
(* write of updatePhaseFailedWithCondition.                                *)
FetchAndProcess ==
    /\ pc = "fetch"
    /\ \/ /\ ~cr.handlerOK
          /\ pc' = "failInterim"
          /\ UNCHANGED w
       \/ /\ cr.handlerOK /\ source \in {Missing, Invalid}
          /\ pc' = "failInterim"
          /\ UNCHANGED w
       \/ /\ cr.handlerOK /\ IsData(source)
          /\ pc' = "refetch"
          /\ w' = [w EXCEPT !.fetched = ApplyFilter(source)]
    /\ UNCHANGED <<source, cr, status, storage, queued, timer, faults, edits>>

(* updatePhaseFailedWithCondition, manager.go:567-592: refresh, set Failed *)
(* and SyncAttempts+1 on the in-memory object, write (an error is only     *)
(* logged).  The in-memory count is then what PerformSync's handler-error  *)
(* branch reads (manager.go:227-262): incremented when the write succeeds  *)
(* or fails, not when the refresh Get fails before the increment.          *)
FailInterim ==
    /\ pc = "failInterim"
    /\ pc' = "failFinal"
    /\ \/ /\ WriteStatus([status EXCEPT !.phase = "Failed",
                                       !.attempts = @ + 1])
          /\ w' = [w EXCEPT !.att = status.attempts + 1, !.kind = "handler"]
          /\ UNCHANGED faults
       \/ /\ Fault
          /\ \E n \in {status.attempts, status.attempts + 1} :
                w' = [w EXCEPT !.att = n, !.kind = "handler"]
          /\ UNCHANGED <<status, queued>>
    /\ UNCHANGED <<source, cr, storage, timer, edits>>

(* manager.go:264-351, read as written: validate the (unchanged) source   *)
(* configuration again, which passes, and fetch again with the handler;   *)
(* fetchResult is replaced by the unfiltered payload.                     *)
Refetch ==
    /\ pc = "refetch"
    /\ \/ /\ IsData(source)
          /\ w' = [w EXCEPT !.fetched = source]
          /\ pc' = "store"
       \/ /\ source \in {Missing, Invalid}
          /\ w' = [w EXCEPT !.kind = "fetch"]
          /\ pc' = "failFinal"
    /\ UNCHANGED <<source, cr, status, storage, queued, timer, faults, edits>>

(* Mutant: the error of Store is not checked. *)
StoreIgnoreError ==
    /\ pc = "store"
    /\ \/ /\ storage' = w.fetched
          /\ UNCHANGED faults
       \/ /\ Fault
          /\ UNCHANGED storage
    /\ pc' = "succeed"
    /\ UNCHANGED <<source, cr, status, queued, timer, w, edits>>

(* storageManager.Store at manager.go:358.  The storage manager this      *)
(* reconciler builds (sources.NewConfigMapStorageManager, part_005:31) is  *)
(* not in the repository: its write-or-fail contract is spec 4.4.          *)
Store ==
    /\ pc = "store"
    /\ \/ /\ storage' = w.fetched
          /\ pc' = "succeed"
          /\ UNCHANGED <<w, faults>>
       \/ /\ Fault
          /\ w' = [w EXCEPT !.kind = "store"]
          /\ pc' = "failFinal"
          /\ UNCHANGED storage
    /\ UNCHANGED <<source, cr, status, queued, timer, edits>>

(* applyFinalStatusUpdate of a failure branch (manager.go:227-262,        *)
(* 312-350, 363-401, 458-522), then reconcileSync's post-sync check       *)
(* (part_005:194-235): Failed always requeues, after the manager's         *)
(* interval or after 5 minutes when the manager gave up.  A failed write   *)
(* or a failed refresh after it returns an error: a rate-limited requeue.  *)
FailFinal ==
    /\ pc = "failFinal"
    /\ LET limit  == IF w.kind = "handler" THEN MaxHandlerCreationRetries
                                           ELSE MaxSyncAttempts
           giveUp == w.att >= limit
           new    == [status EXCEPT !.phase = "Failed",
                                    !.attempts = w.att + 1,
                                    !.backoff = ~giveUp]
       IN \/ /\ WriteStatus(new)
             /\ timer' = TRUE
             /\ UNCHANGED faults
          \/ /\ status' = new
             /\ Fault
             /\ queued' = TRUE
             /\ UNCHANGED timer
          \/ /\ Fault
             /\ queued' = TRUE
             /\ UNCHANGED <<status, timer>>
    /\ pc' = "idle"
    /\ UNCHANGED <<source, cr, storage, w, edits>>

(* Success branch, manager.go:408-455 and applyFinalStatusUpdate: fields  *)
(* with a zero value are skipped (manager.go:476-490).  Then part_005:    *)
(* 194-252: refresh, and requeue after the interval for an automatic      *)
(* sync.  A failed write or refresh returns an error.                     *)
Succeed ==
    /\ pc = "succeed"
    /\ LET count == Cardinality(w.fetched)
           new   == [phase       |-> "Ready",
                     attempts    |-> 0,
                     backoff     |-> FALSE,
                     lastHash    |-> w.fetched,
                     serverCount |-> IF count > 0 THEN count
                                                 ELSE status.serverCount,
                     storageRef  |-> TRUE,
                     lastTrigger |-> IF w.trig /= 0 THEN w.trig
                                                    ELSE status.lastTrigger]
       IN \/ /\ WriteStatus(new)
             /\ timer' = (timer \/ (cr.policy /\ ~IsManualSync(w.reason)))
             /\ UNCHANGED faults
          \/ /\ status' = new
             /\ Fault
             /\ queued' = TRUE
             /\ UNCHANGED timer
          \/ /\ Fault
             /\ queued' = TRUE
             /\ UNCHANGED <<status, timer>>
    /\ pc' = "idle"
    /\ UNCHANGED <<source, cr, storage, w, edits>>

(* Mutant: the annotation is not recorded. *)
TriggerOnlyNoRecord ==
    /\ pc = "triggerOnly"
    /\ \/ /\ WriteStatus(status)
          /\ UNCHANGED faults
       \/ /\ Fault
          /\ queued' = TRUE
          /\ UNCHANGED status
    /\ pc' = "idle"
    /\ UNCHANGED <<source, cr, storage, w, timer, edits>>

(* UpdateManualSyncTriggerOnly, manager.go:525-551: refresh and record the *)
(* annotation as it is now.                                               *)
UpdateManualSyncTriggerOnly ==
    /\ pc = "triggerOnly"
    /\ \/ /\ WriteStatus([status EXCEPT !.lastTrigger =
                             IF cr.trigger /= 0 THEN cr.trigger ELSE @])
          /\ UNCHANGED faults
       \/ /\ Fault
          /\ queued' = TRUE
          /\ UNCHANGED status
    /\ pc' = "idle"
    /\ UNCHANGED <<source, cr, storage, w, timer, edits>>

-----------------------------------------------------------------------------
(* finalizeMCPRegistry, part_005:256-279, and the finalizer removal of    *)
(* Reconcile, part_005:80-87.                                             *)

FinalizeTerminating ==
    /\ pc = "finTerminating"
    /\ \/ /\ WriteStatus([status EXCEPT !.phase = "Terminating"])
          /\ pc' = "finDelete"
          /\ UNCHANGED faults
       \/ /\ Fault
          /\ queued' = TRUE
          /\ pc' = "idle"
          /\ UNCHANGED status
    /\ UNCHANGED <<source, cr, storage, w, timer, edits>>

(* syncManager.Delete (manager.go:554-556) at part_005:268-272: a failure *)
(* is logged and finalization goes on.  The delete itself is the storage  *)
(* manager's, modelled from spec 4.4 (idempotent removal).                *)
FinalizeDeleteStorage ==
    /\ pc = "finDelete"
    /\ \/ /\ storage' = NoData
          /\ UNCHANGED faults
       \/ /\ Fault
          /\ UNCHANGED storage
    /\ pc' = "finRemove"
    /\ UNCHANGED <<source, cr, status, w, queued, timer, edits>>

(* Mutant: a failed finalizer removal is not retried. *)
RemoveFinalizerNoRetry ==
    /\ pc = "finRemove"
    /\ \/ /\ cr' = [cr EXCEPT !.finalizer = FALSE, !.exists = FALSE]
          /\ UNCHANGED faults
       \/ /\ Fault
          /\ UNCHANGED cr
    /\ pc' = "idle"
    /\ UNCHANGED <<source, status, storage, w, queued, timer, edits>>

(* RemoveFinalizer and Update: with no finalizer left the API server       *)
(* removes the declaration.                                               *)
FinalizeRemoveFinalizer ==
    /\ pc = "finRemove"
    /\ \/ /\ cr' = [cr EXCEPT !.finalizer = FALSE, !.exists = FALSE]
          /\ UNCHANGED <<queued, faults>>
       \/ /\ Fault
          /\ queued' = TRUE
          /\ UNCHANGED cr
    /\ pc' = "idle"
    /\ UNCHANGED <<source, status, storage, w, timer, edits>>

(* The operator process dies between two calls; on restart the informer  *)
(* lists every declaration and enqueues it, pending timers are lost.      *)
Crash ==
    /\ Fault
    /\ pc' = "idle"
    /\ queued' = TRUE
    /\ timer' = FALSE
    /\ UNCHANGED <<source, cr, status, storage, w, edits>>

-----------------------------------------------------------------------------
(* Environment.                                                            *)

(* The user edits the source ConfigMap.  part_005:282-286 watches only    *)
(* MCPRegistry, so nothing is enqueued.                                   *)
EditSource ==
    /\ edits < MaxEdits
    /\ \E v \in SourceValues \ {source} : source' = v
    /\ edits' = edits + 1
    /\ UNCHANGED <<cr, status, storage, pc, w, queued, timer, faults>>

(* The user sets a new sync-trigger annotation value. *)
SetSyncTrigger ==
    /\ edits < MaxEdits
    /\ cr.exists /\ cr.trigger < MaxTrigger
    /\ cr' = [cr EXCEPT !.trigger = @ + 1]
    /\ queued' = TRUE
    /\ edits' = edits + 1
    /\ UNCHANGED <<source, status, storage, pc, w, timer, faults>>

(* The user deletes the declaration: a deletion timestamp while a         *)
(* finalizer holds it, removal otherwise.                                 *)
DeleteRegistry ==
    /\ edits < MaxEdits
    /\ cr.exists /\ ~cr.deleting
    /\ cr' = [cr EXCEPT !.deleting = TRUE, !.exists = cr.finalizer]
    /\ queued' = TRUE
    /\ edits' = edits + 1
    /\ UNCHANGED <<source, status, storage, pc, w, timer, faults>>

(* Time passes: pending RequeueAfter timers fire and nextRetryTime is     *)
(* reached.                                                               *)
TimePasses ==
    /\ timer \/ status.backoff
    /\ timer' = FALSE
    /\ queued' = (queued \/ timer)
    /\ status' = [status EXCEPT !.backoff = FALSE]
    /\ UNCHANGED <<source, cr, storage, pc, w, faults, edits>>

(* The garbage collector deletes the storage ConfigMap, whose owner       *)
(* reference (spec 4.4; the storage manager is not in the repository)     *)
(* names a declaration that no longer exists.                             *)
GarbageCollect ==
    /\ ~cr.exists /\ storage /= NoData
    /\ storage' = NoData
    /\ UNCHANGED <<source, cr, status, pc, w, queued, timer, faults, edits>>

-----------------------------------------------------------------------------
Worker ==
    \/ ReconcileNotFound \/ ReconcileFinalize \/ ReconcileAddFinalizer
    \/ ReconcileSync \/ FetchAndProcess \/ FailInterim \/ Refetch \/ Store
    \/ FailFinal \/ Succeed \/ UpdateManualSyncTriggerOnly
    \/ FinalizeTerminating \/ FinalizeDeleteStorage \/ FinalizeRemoveFinalizer

Environment ==
    \/ EditSource \/ SetSyncTrigger \/ DeleteRegistry
    \/ TimePasses \/ GarbageCollect \/ Crash

Next == Worker \/ Environment

(* The controller's worker keeps running, the clock advances and the      *)
(* garbage collector eventually acts; the user owes nothing.              *)
Fairness ==
    /\ WF_vars(ReconcileNotFound) /\ WF_vars(ReconcileFinalize)
    /\ WF_vars(ReconcileAddFinalizer) /\ WF_vars(ReconcileSync)
    /\ WF_vars(FetchAndProcess) /\ WF_vars(FailInterim)
    /\ WF_vars(Refetch) /\ WF_vars(Store) /\ WF_vars(FailFinal)
    /\ WF_vars(Succeed) /\ WF_vars(UpdateManualSyncTriggerOnly)
    /\ WF_vars(FinalizeTerminating) /\ WF_vars(FinalizeDeleteStorage)
    /\ WF_vars(FinalizeRemoveFinalizer)
    /\ WF_vars(TimePasses) /\ WF_vars(GarbageCollect)

Spec == Init /\ [][Next]_vars

FairSpec == Spec /\ Fairness

-----------------------------------------------------------------------------
(* Properties.                                                             *)

(* A declaration the API service may read as Ready has its storage         *)
(* ConfigMap and a storage reference (spec section 8, invariant 1, first   *)
(* half): the success write of PerformSync comes after Store, and          *)
(* finalizeMCPRegistry marks the declaration Terminating before it deletes *)
(* the storage.                                                            *)
ReadyHasStorage ==
    cr.exists /\ status.phase = "Ready" => IsData(storage) /\ status.storageRef

(* The storage ConfigMap is never rewritten while status.nextRetryTime is  *)
(* still ahead of a failed declaration: the status write of a failure      *)
(* enqueues the key at once through the controller's own watch, and only   *)
(* ShouldSync's backoff check keeps that reconcile from syncing again.     *)
NoStoreDuringBackoff ==
    [][storage' /= storage /\ IsData(storage')
         => ~(status.phase = "Failed" /\ status.backoff)]_vars

(* Every registry PerformSync writes to the storage ConfigMap belongs to a *)
(* declaration that still exists and carries the operator's finalizer, so *)
(* finalizeMCPRegistry will delete it: Reconcile syncs only once the      *)
(* finalizer is in place (part_005:96-107), and a deletion that arrives    *)
(* while a sync is in flight leaves the object in place until the         *)
(* finalizer is removed, after the sync has ended.                        *)
StoreOnlyUnderFinalizer ==
    [][storage' /= storage /\ IsData(storage') => cr.exists /\ cr.finalizer]_vars

(* Once the user stops editing and the cluster stops failing, a live       *)
(* declaration whose source holds a registry ends up Ready with the hash   *)
(* of that registry (spec 4.6: source edits are reconciled without waiting *)
(* for a tick): ShouldSync's hash comparison and the requeue it schedules. *)
ConvergesToSource ==
    <>[](cr.exists /\ ~cr.deleting /\ cr.handlerOK /\ IsData(source)
           => status.phase = "Ready" /\ status.lastHash = source)

(* A new sync-trigger annotation value is eventually recorded as processed *)
(* (spec 4.5.3 and 6.5), by a sync or by UpdateManualSyncTriggerOnly,      *)
(* unless the declaration is being deleted.                                *)
TriggerEventuallyProcessed ==
    (cr.trigger /= 0 /\ cr.trigger /= status.lastTrigger)
        ~> (cr.trigger = status.lastTrigger \/ cr.deleting)

(* A deleted declaration is eventually removed and leaves no storage       *)
(* ConfigMap behind (spec section 8, invariant 4): the finalizer is        *)
(* retried until it is removed, and the controller reference covers a      *)
(* failed storage delete.                                                  *)
DeletionCompletes ==
    cr.deleting ~> (~cr.exists /\ storage = NoData)

(* Spec section 8, invariant 1: a Ready declaration's storage holds the    *)
(* data whose hash is status.lastSyncHash, once things settle.  Store      *)
(* runs before the final status write of PerformSync.                      *)
StorageMatchesSyncHash ==
    <>[](cr.exists /\ status.phase = "Ready" => storage = status.lastHash)

(* Spec 4.5.2 and scenarios S4/S5: one failed PerformSync adds one to      *)
(* syncAttempts, counted from the value the reconcile started from.        *)
OneAttemptPerFailedSync ==
    [][pc = "failFinal" /\ status' /= status
         => status'.attempts = w.base + 1]_vars

(* The reconcile now idle ended with the status write of a failure that   *)
(* gave up: its in-memory count had reached the limit of its branch        *)
(* (MaxHandlerCreationRetries for a handler, validation or first-fetch     *)
(* failure, MaxSyncAttempts for a re-fetch or store failure) and the write *)
(* recorded it.                                                            *)
GaveUp ==
    /\ pc = "idle" /\ w.kind /= "none"
    /\ w.att >= IF w.kind = "handler" THEN MaxHandlerCreationRetries
                                      ELSE MaxSyncAttempts
    /\ status.phase = "Failed" /\ status.attempts = w.att + 1

(* Spec 4.5.2 ("beyond that, stop requeueing", "then give up") and the     *)
(* comments "Don't requeue - giving up" of PerformSync: once the manager   *)
(* has given up, the reconciler starts no sync of its own; only a new      *)
(* sync-trigger annotation from the user may start one.                    *)
GiveUpIsFinal ==
    [][GaveUp /\ pc' = "fetch" => ManualSyncRequested(cr, status)]_vars

=============================================================================
