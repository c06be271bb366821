# Verification of the MCPRegistry operator

TLA+ models, TLC runs and TLAPS proofs of the part of the ToolHive operator
that keeps an `MCPRegistry` declaration in sync with its source. This covers:

- the sync manager, `src/cmd/thv-operator/pkg/sync/manager.go`;
- the reconciler that drives it, `src/unnamed/part_005`;
- the ConfigMap storage it writes. Its storage manager,
  `sources.NewConfigMapStorageManager` (`part_005:31`), is not in the
  repository and is modelled from spec 4.4;
- the previous reconciler, `src/unnamed/part_004`, with its StatusManager,
  `controllers/status_manager.go`, its storage manager `src/unnamed/part_006`,
  and the ConfigMap source handler.

## 1. The system

| Part | Source | State | Operations |
|---|---|---|---|
| MCPRegistry declaration | `api/v1alpha1/mcpregistry_types.go` | spec (source, filter, syncPolicy), the sync-trigger annotation, finalizers, deletion timestamp, `status` (phase, syncAttempts, nextRetryTime, lastSyncHash, serverCount, storageRef, lastManualSyncTrigger) | written by users and by the controller |
| Reconciler | `part_005` | none of its own: one work-queue key per declaration, RequeueAfter timers | `Reconcile`, `reconcileSync`, `finalizeMCPRegistry`, `SetupWithManager` |
| Sync manager | `manager.go` | none of its own | `ShouldSync`, `PerformSync` (fetch, validate, filter, re-fetch, store, final status write), `UpdateManualSyncTriggerOnly`, `Delete`, `updatePhaseFailedWithCondition`, `applyFinalStatusUpdate`, `calculateRetryInterval` |
| Storage manager | current reconciler: `sources` package, not in the repository (spec 4.4); previous reconciler: `part_006` | the storage ConfigMap, with an owner reference to the declaration | `Store`, `Get`, `Delete`, `GetStorageReference` |
| Source handlers | `configmap_source_handler.go`, `part_008`, `pkg/git` | the source ConfigMap or repository | `Validate`, `FetchRegistry`, `CurrentHash` |
| Format converter | `part_009` | none | ToolHive ⇄ upstream JSON |
| Registry API | `part_000`, `part_007`, `part_012` | Deployment and Service; HTTP handlers reading storage | `ReconcileAPIService`; GET handlers |
| Previous reconciler | `part_004`, `controllers/status_manager.go` | the same CR; the reconciler's in-memory copy of it | `Reconcile`, `syncRegistry`, `shouldSync`, `scheduleNextSync`, `handleDeletion`; `UpdatePhase`, `UpdateStorageReference`, `UpdateSyncStatus`, `GetRetryDelay` |

How the parts interact:

- controller-runtime runs `Reconcile` for one key at a time. The key is
  enqueued by every write to the declaration, because `SetupWithManager`
  watches `MCPRegistry` with no predicate. Status writes count, so the
  controller wakes itself up.
- The key is also enqueued by RequeueAfter timers, by an error return
  (rate limited), and by the informer's list on restart.
- The source ConfigMap is not watched.
- `Reconcile` then runs in order:
  1. adds the finalizer;
  2. asks `ShouldSync`;
  3. runs `PerformSync` or `UpdateManualSyncTriggerOnly`;
  4. reads the status back and chooses the requeue.
- `PerformSync` makes a sequence of cluster calls:
  - on a failure: a refresh and an interim Failed write
    (`updatePhaseFailedWithCondition`), then a final status write;
  - on success: `Store`, then the final status write.

  Any of these calls can fail, and the operator can crash between any two of
  them.
- Deletion: `finalizeMCPRegistry` writes phase Terminating, deletes the
  storage (an error is only logged) and removes the finalizer. The garbage
  collector removes storage whose owner is gone.

The hard behaviours, and the hazards in `PROJECT.json`:

- the self-enqueue of status writes racing the retry backoff;
- a crash or failed write between `Store` and the status write;
- user edits landing between `ShouldSync` and the sync it decided on;
- the give-up path of the attempt limits;
- deletion racing an in-flight sync;
- the order of the finalizer's steps.

## 2. Modules

`MCPRegistrySync.tla` is one declaration, its source, its storage and the
reconcile worker.

- **Data.** A payload is the set of server names it lists (`SUBSET Servers`),
  or one of the model values `Missing`, `Invalid` or `NoData`. The SHA-256 of
  a payload is the payload itself, since hashes are only compared.
- **Time.** `timer` means a RequeueAfter is pending. `status.backoff` means
  nextRetryTime is in the future. `TimePasses` makes both expire. Durations
  (`calculateRetryInterval`, the 1-hour and 5-minute retries) only decide
  which of these flags is set.
- **Worker steps.** The worker is a `pc` with one action per cluster call:

  | Action | Code |
  |---|---|
  | `ReconcileNotFound` | the not-found branch of `Reconcile` |
  | `ReconcileFinalize` | the deletion branch of `Reconcile` |
  | `ReconcileAddFinalizer` | adds the finalizer, then returns |
  | `ReconcileSync` | `reconcileSync` up to the dispatch |
  | `FetchAndProcess` | `fetchAndProcessRegistryData` |
  | `FailInterim` | `updatePhaseFailedWithCondition` |
  | `Refetch` | lines 264-351 of `PerformSync`, as written |
  | `Store` | the storage write |
  | `FailFinal` | a failure branch of `applyFinalStatusUpdate` plus the post-sync requeue |
  | `Succeed` | the success branch of `applyFinalStatusUpdate` plus the post-sync requeue |
  | `UpdateManualSyncTriggerOnly` | the method of that name |
  | `FinalizeTerminating`, `FinalizeDeleteStorage`, `FinalizeRemoveFinalizer` | the finalizer's three steps |

  Each step either succeeds or consumes one unit of the `MaxFaults` budget and
  takes the code's error path. For the status writes, `WriteStatus` re-enqueues
  the key when the write changed something.
- **Environment.**
  - `EditSource`: no enqueue, because there is no watch on the source.
  - `SetSyncTrigger` and `DeleteRegistry`: each is a write to the declaration,
    so each enqueues the key.
  - `TimePasses`, `GarbageCollect`, and `Crash`. A crash loses the timers, and
    the informer re-lists, so the key is enqueued again.

  User actions share the `MaxEdits` budget.
- **Spec-modelled parts.** `IsData`, `ManualSyncRequested` and `IsManualSync`
  model code that is not under `src/` (the source handler's validation, the
  manual-sync checker, and `IsManualSync`). They are modelled from the spec.
  The storage manager of this reconciler is not in the repository either.
  So `Store` (write or fail), the delete inside `FinalizeDeleteStorage`
  (idempotent removal) and `GarbageCollect` (the owner reference) follow spec
  4.4. `DeletionCompletes` and `StoreOnlyUnderFinalizer` rest on that
  contract.
- **ShouldSync.** `ShouldSync` (with `ShouldSyncReady` for the checks after
  the phase test) is a chain of IF/ELSE in the code's order, because each
  check of `manager.go:142-192` returns. A TLA+ CASE with overlapping guards
  would instead pick any true arm, for example syncing a Failed declaration
  inside its backoff.
- **Mutants.** The operators named `...NoBackoff`, `...NoValidate`,
  `...IgnoreError`, `...NoRequeue`, `...NoRecord`, `...NoRetry` and
  `...NoFinalizer` are
  mutants: plausible bugs, each of which a property must catch.

Two readings of the code that the model makes explicit:

- Lines 264-351 of `PerformSync` use a `sourceHandler` that is never
  declared, so the file as given does not compile. The model executes them as
  written: the spec configuration is validated again, which passes, and the
  source is fetched a second time. Its unfiltered result replaces the
  filtered one, so the filter's result is discarded.
- `MCPRegistryPhaseTerminating` is used by `part_005` but is missing from the
  `MCPRegistryPhase` enum in the types file. The model has the phase.

`MCPRegistrySync_proofs.tla` holds the TLAPS proofs.

`RetryBackoff.tla` is the retry schedule of the sync manager, in minutes.

- **State.** `attempts` is `status.syncAttempts`. `streak` is the list of
  failures since the last success, each with the wait it asked for.
- **Actions.**
  - `ProcessFailure`: a failure in `fetchAndProcessRegistryData`, with the
    double increment and the hour-long wait below the handler limit.
  - `StoreFailure`: a store or re-fetch failure. It waits
    `calculateRetryInterval` of the count before the increment.
  - `Success`: resets the count.
- **Reference.** `SpecRetryInterval` is the spec's `min(5m * 2^(n-1), 1h)`.
- Status writes are assumed to succeed here; `MCPRegistrySync` covers them
  failing.

`MCPRegistryLegacy.tla` is the previous reconciler (`part_004`) with the
StatusManager and the ConfigMap source handler. Data is abstracted as in
`MCPRegistrySync`.

- **Resource versions.** The StatusManager writes a DeepCopy and copies back
  only its `Status`. The reconciler's object therefore keeps the
  resourceVersion it was read with, and the next write in the same Reconcile
  is a conflict.
  - `status` is the stored status and `lst` is the in-memory one.
  - `fresh` says whether the in-memory version is still the stored one.
  - `StatusWritten` is the API server: a write that changes nothing stores
    nothing, keeps the version and does not enqueue.
- **Worker steps.** One action per cluster call: `ReconcileGet`,
  `AddFinalizer`, `InitPending`, `PhaseSyncing`, `SourceSync`, `Store`,
  `RecordFailure`, `StorageRef`, `SyncStatus`, `DeleteStorage`,
  `RemoveFinalizer`. Each one fails either through a stale version (no
  budget used) or by consuming a unit of `MaxFaults`, and takes the code's
  error path.
- **Environment.**
  - `EditSource`: enqueues the key, because the previous reconciler watches
    ConfigMaps.
  - `EditTrigger` and `DeleteRegistry`: metadata writes that bump the
    version.
  - `TimePasses`: fires the timers and makes the policy interval due.
  - `Crash`.
- **Garbage collection.** The garbage collector has nothing to do here:
  `handleDeletion` deletes the storage before it removes the finalizer.
- **Conditions.** `status.conds` maps each of the four condition types to
  `Absent`, `True` or `False`. `setCondition` updates one entry.
  `updateConditionsForError` translates the switch on the source handler's
  `Reason`. The ConfigMap handler's reasons name the ConfigMap and the key,
  so only a missing ConfigMap named `registry-data` in `toolhive-system`
  hits a case (`SourceNotFoundCase`, with `cr.defaultName` chosen in
  `Init`). Every other error lands in the default case, which sets only
  `SyncSuccessful`. `failure` is the error that `SourceSync` or `Store`
  hands to `RecordFailure`. `Missing` stands for a missing ConfigMap and
  for a missing key, so `SourceErrors` offers both.

`RegistryPublication.tla` is an abstract specification. It states what a
registry controller promises the readers of a declaration, whatever its
reconcile loop. Its variables are:

- `live`: the declaration exists and is not being deleted;
- `storage`;
- `ready`: the phase is Ready;
- `hash`: `lastSyncHash`.

Its actions are:

- `Unpublish`: Ready is dropped;
- `Write`: the storage is rewritten, allowed only while not Ready;
- `Publish`: Ready is set, with the hash of the storage, in one step;
- `Retire` and `AfterRetire`: deletion, after which nothing is promised.

`MCPRegistryLegacy` instantiates it as `Publication` with `live <- cr.exists
/\ ~cr.deleting`, `ready <- status.phase = "Ready"` and
`hash <- status.lastHash`. `PublicationRefined == Publication!Spec` is
checked as a property.

`MC_MCPRegistryLegacy.tla` gives two servers, the source payloads `{s1}`,
`{s1, s2}`, `{}`, `Missing` and `Invalid`, and a bound of 4 on
`syncAttempts`.
`MC_MCPRegistrySync.tla` gives the constants for TLC:

- two servers, with a filter that keeps one;
- source payloads `{s1}`, `{s1, s2}`, `{}`, `Missing` and `Invalid`;
- a state constraint bounding `syncAttempts` at 14, past both limits (3 and 10).

## 3. Runs

| Run | Checks | Expect | Shows |
|---|---|---|---|
| `MC_safety.cfg` | `TypeOK`, `ReadyHasStorage`, `NoStoreDuringBackoff`, `StoreOnlyUnderFinalizer` | pass (180,628 states) | every payload kind, failing handlers, 2 user edits, 1 trigger, 1 fault or crash: a live Ready declaration has storage, the self-enqueue after a failure never leads to a store inside the backoff, and a deletion landing in a sync in flight never leaves a registry stored for a declaration the finalizer no longer guards |
| `MC_liveness.cfg` | `ConvergesToSource`, `TriggerEventuallyProcessed`, `DeletionCompletes` | pass (9,345 states) | with a sync policy, registry payloads and 2 faults, edits converge, triggers get recorded, deletion completes |
| `MC_attempts.cfg` | `OneAttemptPerFailedSync` | violation | one failure counts twice |
| `MC_giveup.cfg` | `GiveUpIsFinal` | violation | a hot loop after giving up: at the handler limit (3) the failure's own status write re-enqueues the key, and the very next reconcile syncs again, because ShouldSync treats Failed with no NextRetryTime as not ready. No time passes and the user does nothing. The 5-minute fallback requeue of `reconcileSync` is a second path to the same restart |
| `MC_nowatch.cfg` | `ConvergesToSource` | violation | with no policy a source edit is never seen |
| `MC_revert.cfg` | `StorageMatchesSyncHash` | violation | storage and lastSyncHash can disagree forever |
| `RB_formula.cfg` | `TypeOK`, `IntervalMatchesSpecFormula` | pass (8,191 states) | every run of up to 12 failures of either kind asks for 5m, 10m, 20m, 40m or 1h, and `calculateRetryInterval` equals the spec's formula |
| `RB_schedule.cfg` | `BackoffSequenceMatchesSpec` | violation | two store failures in a row wait 5m and 5m, where the spec says 5m then 10m |
| `LG_safety.cfg` | `TypeOK`, `ReadyStorageMatchesHash`, `ConditionsMatchPhase`, `PublicationRefined` | pass (775,642 states) | every payload kind and error, both policies, 2 edits, 1 fault or crash: the previous reconciler never shows Ready with storage other than the hashed data; Ready always has all four conditions True and Failed has `SyncSuccessful` False; every step is a step of `RegistryPublication` |
| `LG_liveness.cfg` | `SyncsToSource`, `DeletionCompletes` | pass (12,350 states) | with an automatic policy it gets through its own conflicts to the source's data, and deletion completes |
| `LG_nopolicy.cfg` | `SyncsToSource` | violation | with no policy, no fault and no edit, the first sync stays in Syncing for good |
| `LG_hotloop.cfg` | `EventuallyQuiet` | violation | while the trigger annotation is present, the status swings between Syncing and Ready forever |

The violations are the findings in `PROJECT.json`. The safety runs bound
`syncAttempts` by a state constraint. The liveness runs need no constraint,
because a registry payload always syncs, which resets the count.

`CHECK_DEADLOCK FALSE` is set in every run. Once the declaration is removed,
or when nothing is queued and no policy is set, the controller idles: that is
the system's real resting state.

Why the bounds suffice:

- One fault reaches every error path. Two faults let a retry fail again.
- Two edits let the source change and change back (the revert case), or
  change and then trigger.
- Two servers with a filter keeping one make the filtered and the unfiltered
  payload differ.
- The empty payload exercises the zero-count edge.
- `RetryBackoff` runs 12 failures, which is past both limits (3 and 10) and
  past the point where the interval reaches its one-hour cap (the fifth
  failure).
- The legacy runs need no fault at all to reach the conflict of the
  `legacy_nopolicy` finding. One fault reaches every error path, and one
  crash reaches the restart.

### Fairness

The liveness runs assume weak fairness of every worker action, of
`TimePasses` and of `GarbageCollect`:

- the controller's worker goroutine keeps taking keys;
- timers fire;
- the garbage collector runs.

User actions and crashes have no fairness: the user owes nothing.

`FairSpec` of `MCPRegistryLegacy` makes the same assumption: weak fairness
of every worker action and of `TimePasses`.

Faults are bounded, so eventually every call succeeds. This is the usual
assumption of a controller that retries.

One mutant survives, and it is not a property of the code: dropping the
policy requeue after a successful sync. The success status write re-enqueues
the key through the controller's own watch, and that reconcile schedules the
next check itself (`up-to-date-with-policy`).

## 4. Proofs

`MCPRegistrySync_proofs.tla` proves the following for all values of the
constants, under `ConstantsAssumption`:

- `TypeCorrect`: `Spec => []TypeOK`;
- `ReadyHasStorageHolds`: `Spec => []ReadyHasStorage`;
- `NoStoreDuringBackoffHolds`: `Spec => NoStoreDuringBackoff`, an action
  property;
- `StoreOnlyUnderFinalizerHolds`: `Spec => StoreOnlyUnderFinalizer`, an
  action property.

Every property the `safety` run checks is therefore proved for every
instance.

`ConstantsAssumption` is:

- `Servers` is finite;
- the model values are distinct from every payload;
- the bounds are naturals.

`ReadyHasStorage` is not inductive as it stands. The inductive invariant
`IInv` adds three facts about the worker's position:

- from the filter to the success write, the fetch result is a registry;
- between `Store` and the success write, the storage holds a registry,
  unless the declaration is gone;
- during the storage delete and the finalizer removal, the phase is
  Terminating;
- from the fetch to `Store`, the status is not in retry backoff, and the
  declaration exists and carries the finalizer. `ShouldSync` (lemma
  `ShouldSyncRespectsBackoff`) and `reconcileSync`'s guard establish this.
  Only the failure writes start a backoff, and they come after `Store`. Only
  finalization removes the finalizer.

These facts are the order of the cluster calls, which is exactly what makes
the property true. TLC checked `IInv` on the safety instance before it was
proved. The proof is:

- `Init => IInv`;
- `IInv /\ [Next]_vars => IInv'`, with one step per action. The actions that
  update records have a lemma each, which splits off the arithmetic (SMT)
  from the record reasoning (Zenon);
- PTL.

Each action property is proved in two steps:

- first, the non-temporal step `IInv /\ [Next]_vars => [A]_vars`;
- then PTL with `[]IInv`.

Only three actions write the storage. `FinalizeDeleteStorage` and
`GarbageCollect` empty it. `Store` runs at the `pc` where `IInv` gives the
needed facts.

`MCPRegistryLegacy_proofs.tla` proves the following under
`LegacyAssumption`, which has the same content as `ConstantsAssumption`:

- `LegacyTypeCorrect`: `Spec => []TypeOK`;
- `ReadyStorageMatchesHashHolds`: `Spec => []ReadyStorageMatchesHash`;
- `ConditionsMatchPhaseHolds`: `Spec => []ConditionsMatchPhase`;
- `LegacyImplementsPublication`: `Spec => PublicationRefined`, that is, the
  previous reconciler refines `RegistryPublication`.

`ReadyStorageMatchesHash` is not inductive as it stands. Its inductive
invariant `IInv` adds four facts:

- the in-memory status equals the stored one. Reconcile reads it, every
  successful write is copied back, and a failed write changes neither;
- from the source read to the Ready write, the stored phase is Syncing, so
  `Store` never rewrites the storage of a Ready declaration;
- from the store to the Ready write, the storage holds the data that write
  will hash;
- `handleDeletion` runs only on a declaration marked for deletion;
- when `UpdateSyncStatus` is next, the status it copies has `StorageReady`
  True. `UpdateStorageReference` set it earlier in the same Reconcile, and
  the StatusManager copied it back.

`ConditionsMatchPhase` is part of `IInv` as well. TLC checked `IInv` on the
`LG_safety` instance before it was proved. The proof has:

- a lemma for `StatusWritten`: stored and in-memory status both become the
  written one;
- a lemma for `UpdatePhase`;
- lemmas for `setCondition`, `updateConditionsForError` and the status that
  `UpdateSyncStatus` writes on success;
- one lemma per group of actions.

The refinement proof follows the usual layout:

- `InitRefines`: `Init => Publication!Init`;
- `NextRefines`: `IInv /\ [Next]_vars => [Publication!Next]_pubVars`, under
  the mapping;
- PTL combines them with `[]IInv`.

The steps map as follows:

- the Syncing and Pending writes and the failure write are `Unpublish` or a
  stutter (lemma `UnpublishingWrite`);
- `Store` is `Write`. `IInv` gives the phase Syncing at that point;
- the Ready write is `Publish`. `IInv` gives the storage equal to the data
  whose hash it writes;
- `DeleteRegistry` is `Retire`;
- the deletion steps are `AfterRetire`;
- everything else stutters (lemma `AbstractStutter`).

`RetryBackoff_proofs.tla` proves `BackoffTypeCorrect`: `Spec => []TypeOK`
for every attempt limit and every length of a failure run. `TypeOK` is
inductive as it stands. What it rests on is the lemma `IntervalRange`:
`calculateRetryInterval(n)` is one of 5, 10, 20, 40 and 60 for every
natural `n`. The exponent `min(n - 1, 4)` takes one of five values, each a
case, and the one-hour cap lowers 80 to 60.

`IntervalMatchesSpecFormulaHolds` proves `Spec => []IntervalMatchesSpecFormula`,
so `calculateRetryInterval(n)` equals the spec's
`min(5m * 2^(n-1), 1h)` for every natural `n`. The cases are:

- up to `n = 5`, the exponent cap is not reached and the two terms coincide;
- beyond that, `2^(n-1) >= 16`, so both sides are one hour.

`2^m >= 16` for `m >= 4` is shown by counting, not by induction. `2^m` is the
number of subsets of `1..m` (library theorem `FS_SUBSET`), and these include
the `2^4` subsets of `1..4` (`FS_Subset`). The library's proof of `FS_SUBSET`
rests on its arithmetic lemma `2^(n+1) = 2^n + 2^n`, which it states without
proof.

Only model-checked:

- the liveness properties (TLAPS does not reason about fairness or ENABLED);
- the violated properties of the violation runs (for example
  `BackoffSequenceMatchesSpec`). These are counterexamples, not theorems;
- `MCPRegistrySync` with faults or crashes is not proved to refine any
  abstract specification (see section 5).

## 5. Not modelled

- `StatusManager.GetRetryDelay` (`status_manager.go:250-299`) converts a
  float to a Duration. The conversion overflows from 30 attempts, and on
  amd64 the delay goes negative, which means no requeue. The model leaves
  this out: the previous reconciler's own status write re-enqueues the key
  anyway, so the delay never decides whether a retry happens. It is listed
  as a hazard.
- The server count written with a sync (`manager.go:482`) is a
  single-assignment question that a unit test reaches. It is listed as a
  hazard.
- The spec's mapping of errors to conditions (section 7:
  `SourceNotFound` gives `SourceAvailable=False`, `InvalidData` gives
  `DataValid=False`) is not checked by a run. The model has the code's
  mapping exactly. Under it, a failure after a success leaves
  `SourceAvailable` and `DataValid` True, because the reason strings never
  match. This is listed as a hazard. A unit test of
  `updateConditionsForError` reaches it directly, and the project's run
  budget is spent on interleaving questions.
- `MCPRegistrySync` (the current reconciler) does not refine
  `RegistryPublication`. TLC, with the same mapping, finds it rewriting the
  storage while the phase is still Ready from the previous sync: there is no
  Syncing write before the store. The `revert` finding is the lasting form of
  that window.
- The registry API manager and server: no reconciler in `src/` calls the
  manager yet, and the server only reads storage.
- The git client and the format converter: I/O and a pure data conversion
  with no concurrency. The spec puts the Git transport out of scope and
  defers the Git source handler. Nothing under `src/` calls the client.
- In `MCPRegistrySync` time is only flags. The durations themselves are
  checked in `RetryBackoff`.
- Spec edits other than the trigger annotation: source type, filter and
  policy are fixed per run and enumerated across runs.
