# SafeLauncher: models, checks and proofs

SafeLauncher is a PyQt6 game launcher.  Its logic lives in `core/` (services,
schedulers, synchronisation) and `ui/` (controllers that marshal results to the
Qt thread); `services/` holds the public profile back end.  This directory
holds TLA+ models of the parts whose correctness depends on interleavings,
generations, retries, crashes and shutdown, the TLC configurations that check
them, and theorems about them that TLAPS proves.

Run `tlc -workers 2 -config X.cfg M` for a run of `PROJECT.json`, and
`tlapm M.tla` for the modules with theorems: `RequestManagerProofs`,
`RequestManagerWorkProofs`, `ProfileSyncProofs`, `SaveRestoreProofs`,
`GameLaunchProofs`, `SaveSyncProofs`, `CachedRequestProofs` and
`GameInstallProofs`.

## Inventory

| component | state it keeps | operations | what is hard | what makes it correct | module |
|---|---|---|---|---|---|
| **Request manager** `core/request_manager.py` | active request, last result and generation tombstone per key; two priority queues; slot counters; cancellation tokens; futures | submit, invalidate, cancel, cancel_matching, shutdown; worker loop, retries, publication | worker threads against callers; code after the lock is released; late results; saturated services; shutdown | one live request per key; late results never win; every future resolves; slots are exact; no lost wake-up | `RequestManager` |
| **Resource cache** `core/resource_cache.py`, `RequestManager.cached_request` | an entry per key in memory and on disk | get, put, invalidate, age | an invalidation between a load and its store; forced refreshes that meet others | a value invalidated is not served again; a forced refresh is new | `CachedRequest` |
| **Bindings, managed tasks** `ui/resource_binding.py`, `ui/managed_task_controller.py` | subscription, closed flag, request identity | bind, deliver (queued to the UI thread), close | results queued before close, delivered after it | nothing is delivered after close | `CachedRequest` (close) |
| **Private profile sync** `core/cloud_metadata_sync.py`, `core/cloud_sync_queue.py` | local ledger, cloud document and revision, pending queue, TTL state | sync_profile, merge, apply, enqueue, acknowledge | several devices, conditional writes, crash between write and projection, edits during a sync | no edit is lost; devices converge; an acknowledged entry is in the cloud | `ProfileSync` |
| **Save sync** `core/cloud_save_sync.py`, `core/cloud_repository.py` | save files, active version, forks, cloud generations, cached listing | check, upload, restore, rollback | two devices, stale listings, lost answers, play during a restore | no session is lost; newer replaces older; devices converge | `SaveSync` |
| **Save restore** `core/save_restore_service.py`, `core/zip_backup.py` | live files, safety backup, staging and rollback directories | back up, import, undo, verify, put back | cancellation, failure, a game writing and a crash between steps | the files are the old or the new ones, or a copy is kept | `SaveRestore` |
| **Cloud operations and workflows** `core/cloud_operations.py`, `core/cloud_operation_service.py`, `ui/prelaunch_controller.py`, `ui/cloud_workflow_controller.py`, `ui/manual_restore_controller.py` | claims, operations in flight, a lock per controller | check, transfer, cancel, deliver, dialogs | late results, modal dialogs, cancelled workers that run on | a lock outlives its worker and ends; a cancelled launch stays cancelled | `GameLaunch` |
| **Game sessions** `core/game_session.py`, `core/launch_session_coordinator.py`, `core/playtime_tracker.py` | a session per game, trackers, processes | launch, observe, stop, finish | exit against stop and relaunch | sessions match processes | `GameLaunch` |
| **Shutdown** `ui/shutdown_controller.py` | state, epoch, deadline | request, retry, abort | deferred retries of an older epoch, re-entry | closes only when nothing is pending and the user asked, or gives the application back | `GameLaunch` |
| **Game lifecycle** `core/game_lifecycle_service.py` | game files, staged files, library row | uninstall | each step can fail | files and row agree, or the files are preserved | `GameInstall` |
| **Archive updates** `core/game_archive_updater.py` | game directory, transaction directory with marker, staged and old tree | update, recover at startup | crash between two renames; the game saves meanwhile | an installation with its saves survives; an interrupted update is repaired | `GameInstall` |

How they interact: feature code submits loaders to the one request manager and
receives results through listeners, which `ResourceBinding` queues to the Qt
thread; the cache answers `cached_request` before the manager schedules
anything; the network monitor cancels matching requests when the connection
breaks; cloud operations are loaders of the request manager that claim their
game in `CloudSyncCoordinator`, call the save engine, and through it the
restore service; their results come back to the three controllers; the
shutdown controller polls what is pending and only then closes the window.

## Modules

`RequestManager` is the scheduler all loaders run on; the other models use what
it guarantees (a cancelled request runs to its end and reports "cancelled", an
accepted one is answered) instead of repeating it.  In the same way `SaveSync`
takes a replacement of save files as one step because `SaveRestore` models it,
and one operation per device because `GameLaunch` models the claims.

**`RequestManager.tla`** models `core/request_manager.py`.  The grain is the
manager's condition variable: one action per critical section.  What the code
does after it has released the lock is a step of its own, because that is where
the interleavings are.

| model | code |
|---|---|
| `active`, `states`, `lastGeneration`, `closed` | `_active`, `_states`, `_last_generation`, `_closed` |
| `queue`, `unfinished` | the two `PriorityQueue`s (the lane follows from the priority) and their `unfinished_tasks` |
| `spec`, `cancelled`, `future`, `loads` | `_RequestRecord`: its spec, token, future, and the loader calls made |
| `phase`, `job`, `outcome` | where each thread is in `_worker_loop`/`_run_record`/`_finish` |
| `serviceActive`, `backgroundActive` | `_service_active`, `_background_workers_active` |
| `notifying` | the result a caller passes to `_notify` after it left the lock |
| `Join`, `Schedule` | `submit`: the deduplicating return, and the rest |
| `Invalidate`, `Cancel`, `CancelMatching`, `Shutdown` | the methods of these names (`cancel_if_unsubscribed` and a handle's `cancel` are the same step on the active request) |
| `Notify` | `_notify` |
| `Take`, `Wait`, `Exit` | the three ways out of the polling loop in `_worker_loop` |
| `Begin`, `LoaderReturns`, `LoaderRaises`, `BackoffEnds` | `_run_record` |
| `Settle`, `Resolve` | `_finish`: its critical section, then the future |
| `Release`, `TaskDone` | the `finally` of `_worker_loop`, then `task_done()` |

Abstracted: every failure that is neither cancellation nor the offline refusal
is `"error"`; deadlines are a choice (`LoaderReturns`, `BackoffEnds` may turn
into an error at any time); delays and metrics are left out; a token that is
set between the test of it and the call of the loader counts as set during the
call, which is what the loader is given the token for.  Left out of this
module: listeners (they run outside the lock and touch no manager state),
projections, batches and `cached_request`.

**`RequestPromise.tla`** is what the manager promises its callers, without
workers, queues, slots, tokens or generations: a key has at most one request
that can be joined (`submit`), an accepted request is answered at most once and
only when it can no longer be joined (`_finish`), and nothing is accepted after
`shutdown`.  `RequestManager` implements it (`KeepsPromise`) with `accepted`
mapped to `sequence`, `joinable` to `active` and `answer` to `future`; every
worker step but `Settle` and `Resolve` is a stutter.

**`MCRequestManager.tla`** gives TLC the instances.  **`RequestManagerProofs.tla`**
and **`RequestManagerWorkProofs.tla`** hold the proofs.

**`ProfileSync.tla`** models `CloudMetadataSync.sync_profile`
(`core/cloud_metadata_sync.py`), `PendingCloudSyncQueue`
(`core/cloud_sync_queue.py`) and the repositories they read and write, for
several devices and several launcher processes on one device.  The grain is a
database read or transaction, a request to the backend, or an update of the
queue file; the user acts between any two of them.

| model | code |
|---|---|
| `facts`, `favorite`, `mark`, `shown` | `playtime_sessions` and achievement unlocks; `profile_games.favorite` and `favorite_changed_at`; `games.is_favorite` |
| `queue` | the device's `pending_cloud_sync.json` entry for the account's profile |
| `cloud`, `fresh` | the backend's document, and whether the revision a process holds is the current one |
| `step`, `local`, `merged`, `attempt` | where a process is in `_sync_profile_locked`, and its variables |
| `synced` | `_PROFILE_SYNC_STATE` |
| `ReadGames`, `ReadLedger` | `_local_profile`: the games first, the change markers last |
| `Refuse`, `Skip`, `Fetch`, `FetchFails` | the gates, the early return, `get_profile()` with `_merge_profiles` |
| `PutAccepted`, `PutAnswerLost`, `PutFails` | `put_profile()`: stored; stored and the answer lost; rejected or not delivered |
| `ApplyLedger`, `ApplyProjection`, `ApplyFails` | `_apply_profile`: `merge_profile_game`, then `project_profile_game`; a write that raises |
| `Finish`, `GiveUp`, `Restart` | remember and acknowledge; enqueue and return False; the process ends |
| `Tick`, `Record`, `Toggle` | time passing, a play session or unlock, `toggle_favorite` |

Abstracted: the merge is modelled for a set that only grows and for a register
with a change marker; play sessions, unlocks, baselines and last-played times
merge like the first, the favourite is the second.  A change marker (time and
random id) is a number no two toggles share.  The digest of a profile is the
profile, with the second it was read in.  The backend is outside this
repository and is modelled by the conditional write the code relies on.  The
pending entry is read where it is used, in `Skip`.  Left out: the local folder
mode, the import of old per-game documents, `sync_game`, device records,
catalogue text, profile settings, the 2000-session limit of the merge, a
session write that SQLite refuses and `merge_playtime_sessions` only logs, and
a queue file that cannot be written.

**`MCProfileSync.tla`** gives TLC the instances.  **`ProfileSyncProofs.tla`**
holds the proofs.

**`CachedRequest.tla`** models `RequestManager.cached_request` and `invalidate`
for one key, its `ResourceCache` entry and one `ResourceBinding`.  Calls and
loads are split where the code releases the lock or touches the disk.

| model | code |
|---|---|
| `cache` | the entry of the key, on disk and in memory, and whether it is within its age |
| `last`, `state`, `active`, `record` | `_last_generation`, `_states`, `_active`, `_RequestRecord` |
| `thread` | where each caller is in `cached_request` or `invalidate`, and what it has still to announce |
| `Invalidate`, `Clear` | `invalidate`: the part under the lock, then `ResourceCache.remove` |
| `Generation`, `Lookup`, `Offline`, `Join`, `Submit` | `cached_request` down to `submit` |
| `Notify` | `_notify` |
| `Answer`, `CheckToken`, `Put`, `Return`, `Finish` | the loader, `load_and_cache`, `_run_record`, `_finish` |
| `Age`, `Close` | `CacheEntry.is_fresh`; `ResourceBinding.close` |
| `truth`, `floor` | the server's changes and, as history, how many there were at the last invalidation |

Abstracted: every record has a worker and one attempt (scheduling and retries
are `RequestManager`'s); a value is the number of changes the server had seen.
Left out: size limits and eviction, disk errors, formats, validators.

**`SaveRestore.tla`** models `restore_archive_with_safety_backup` with the
export, import and verification it calls.  The grain is one file operation.

| model | code |
|---|---|
| `scope` | the detected locations, the archive and the destination it is called with |
| `snapshot`, `backup`, `protected` | `GameSaveSnapshot`, the safety archive, and whether it is published |
| `rollback`, `replaced`, `stuck` | the rollback directory, `replaced`, `rollback_failed` of `import_save` |
| `Start`, `Validate`, `Recheck` | the refusals, validation, `verify_current` |
| `PackFile`, `ConfirmFile`, `Publish` | `export_save_locations`: the checks around a file, `_write_zip_atomically` |
| `Stage`, `Displace`, `Install`, `Abort` | `import_save`: staging, the two moves of a file, a failure or cancellation |
| `Remove`, `PutBack`, `Undone`, `Applied` | its undo and its `finally` |
| `VerifyFile`, `Rejected`, `Verified` | `verify_import`, and putting the safety backup back |
| `GameWrites`, `GameDeletes`, `Crash` | the game and the end of the process, at any step |

Abstracted: contents are numbers; one directory stands for all locations;
staging is one step because nothing sees it.  Left out: checks of member names
and sizes, which only refuse, and the manifest's format.

**`GameLaunch.tla`** models one game in one launcher: `PrelaunchController`,
`CloudWorkflowController`, `ManualRestoreController`, the operations of
`CloudOperationService` with the claims of `CloudSyncCoordinator`, sessions and
trackers, and `ShutdownController` with the window's hooks.  A handler of the
Qt thread is one action, except across a modal dialog.

| model | code |
|---|---|
| `prelaunch`, `workflow`, `manual` | `_pending`, the automatic sync in flight, `_active` of the three controllers |
| `op`, `claims` | the latest operation of each kind; `CloudSyncCoordinator._active` |
| `proc`, `session`, `owner`, `tracker`, `killing` | processes, `GameSessionManager`, `LaunchSessionCoordinator._trackers`, tracker threads, a StopGame task |
| `shutdown`, `closing`, `epoch`, `retries`, `late` | `ShutdownController` and `MainWindow._closing` |
| `StartOp`, `EndCheck`, `BeginTransfer`, `EndTransfer` | a loader: claim and check, release, claim again and transfer |
| `Launch`, `CancelLaunch`, `PrelaunchResult`, `QuotaAnswered` | `_launch_mode` with `start`; `cancel`; `_on_preflight_result` on both sides of the quota dialog |
| `AutoSync`, `AutoSyncDone` | `maybe_upload`, `maybe_restore`; `handle_upload_done`, `handle_restore_done` |
| `ManualStart`, `ManualChecked`, `ManualConfirmed`, `ManualDone` | `start` and `deliver` on both sides of the confirmation dialog |
| `FinishTracker`, `StopGame`, `KillEnds`, `Observe` | `finish_tracker` with the exit sync, `stop`, `terminate_game_process`, `observe` |
| `Close`, `Retry`, `KeepOpen`, `DeadlinePasses` | `closeEvent` and `request`; `_retry`; `abort` from the dialog; the deadline |

Abstracted: a full cloud is the only result of a transfer that changes what
happens next (the prompts for a conflict and for a save only the cloud has, and
the operations queued from them, are reached by no result of
`request_prelaunch_resolution`, which resolves both itself); a request that cannot be
queued launches with local saves, as being offline does; the second claim of a restore's preflight and
the limit of two attempts per unchanged snapshot are left out; a session held
for diagnostics after its process ended does nothing.  Firejail is taken to be
installed, so that nothing waits for the missing-dependency dialog between
`Launch`'s guard and its start; `killing` ends with the termination itself, a
moment before the Qt thread clears `termination_in_flight`.  Left out: counting playtime, several games (claims and locks are
per game), other supervised threads, which shutdown treats like trackers.

**`SaveSync.tla`** models `CloudSaveSyncEngine` with the cached listing of
`CloudSaveRepository` for several devices that share a private cloud.

| model | code |
|---|---|
| `live`, `active`, `forks` | the save files, `active_save_ver`/`active_save_mtime`, safety forks |
| `cloud`, `top` | the generations the cloud retains, the last number it gave |
| `listing`, `fetched` | `CloudSaveRepository._listing`; a listing read by `CloudAccountService` and not published yet |
| `Check` | the routine, prelaunch and exit checks: `check_sync_status` and what is started from it |
| `Package`, `Confirm` | `sync_local_to_cloud`: scan and deduplicate; confirm and activate |
| `Download`, `Apply`, `Record` | `sync_cloud_to_local`: download; fork and replace; record the version |
| `Choose` | upload now, `restore_cloud_generation` |
| `Expire`, `FetchSnapshot`, `AdoptListing` | the listing's time to live; the account snapshot that publishes one |
| `Fails`, `ConfirmLost` | a failed transfer or a crash; an upload whose answer is lost |
| `heads`, `chosen`, `mistaken` | history: sessions not played further, the version the user chose, files played on between replacement and record |

Abstracted: a save is one unit, known by the time it was last written, and the
devices' clocks agree.  The cloud is outside this repository: it numbers what
it stores and keeps the highest numbers.  Left out: the local folder mode,
deleting versions and games, pruning forks beyond ten, detection of save
locations, the poll's limit of attempts.

**`GameInstall.tla`** models `GameArchiveUpdater.update`,
`recover_incomplete_game_updates` and `GameLifecycleService.apply` for one game
that is played meanwhile.  The grain is a rename, a deletion or a marker write.

| model | code |
|---|---|
| `path`, `trans`, `pending` | the game directory; the transaction directory (marker, replacement, rollback); the staged directory of an uninstall |
| `listed`, `tracked` | the library row; the game is among `running_game_ids` |
| `digest`, `result` | `old_save_digest`; the result of the update |
| `Ask` | `_on_update_game_files_from_archive`: it refuses a running game, asks for the archive and starts the worker |
| `Begin`, `Decline` | `prepare`, the transaction directory and the digest; a refusal of `prepare` |
| `Extract`, `Refuse`, `Copy`, `Check` | `update` from the extraction up to its last look at the saves |
| `Mark`, `Marked`, `Away`, `In`, `Back` | the marker and the two renames |
| `Verify`, `Drop`, `Undo`, `UndoBack`, `Keep`, `Cleanup` | verification, success, putting the old tree back, the `finally` |
| `Start`, `SetAside`, `Recover`, `Discard` | `recover_incomplete_game_updates` |
| `Stage`, `Mutate`, `Remove`, `Restore` | `stage_game_files`, the database change, `remove_game_files`, `restore_staged_files` |

Abstracted: a tree is its payload version, its newest save and whether it is
complete; deletions that ignore errors complete.  From the check that the
directory exists to the digest is one step: should an uninstall move the
directory away between the two and put it back, the digest differs from what
`Check` reads and the update is refused.  One update at a time and
beside no left-over transaction.  A restarted launcher has forgotten that the
game runs.  Left out: first installation, extraction, path checks, the
application's own updater; deleting all data differs from uninstalling only in
the row it writes.

**`MCCachedRequest`, `MCSaveRestore`, `MCGameLaunch`, `MCSaveSync`** and
**`MCGameInstall`** give TLC the instances of these modules.

## Runs

| run | what it shows | bounds |
|---|---|---|
| `request_flight` | at most one request of a key can still use its result; `pending_work_count() = 0` is a safe barrier; the manager implements `RequestPromise` | 1 key, 2 workers, 1 caller, 3 requests, generations to 1, two attempts |
| `request_implicit` | a late result never wins; every accepted request is answered; slots are exact and respect their limits; one worker is kept for foreground work; no wake-up is lost; workers that end leave nothing behind | 1 key, both lanes, a service of limit 1, 2 callers, 2 requests |
| `profile_processes` | a failed profile stays pending until the cloud covers it; an acknowledged entry is covered; the document loses no fact and returns to no older toggle | 2 launchers on one device, 1 fact, one toggle or tick |
| `profile_shared` | the profile a launcher skips is in the cloud; a fact recorded on one device reaches the other | 2 devices, 1 fact, one second |
| `restore_archive` | whatever fails, every save is still somewhere; the backup is what was validated; a failed or cancelled restore restores; success is what is on disk | 2 files, every archive, locations and destination over them, 2 writes by the game |
| `launch_session` | a lock outlives its worker and ends; a cancelled launch never starts the game; the window closes only drained and only for the user; a shutdown ends | 1 game, 2 processes, 3 inputs |
| `launch_underneath` | (violated) a restore never replaces files of a running game | the same |
| `sync_devices` | no session is lost; "in sync" is true; a restore nobody asked for replaces older saves only; devices converge | 2 devices, clock to 3, tolerance 1, 2 generations, 1 surprise |
| `sync_rollback` | (violated) a manual rollback stands until the user plays | the same |
| `cached_request` | a value invalidated stays gone; a forced refresh answers with nothing older than itself | 2 threads, 2 calls, 1 change, generations 0 and 1 |
| `install_update` | an installation with its saves survives; an interrupted update is repaired at startup; a result is what is on disk | 2 updates, 2 saves, 1 failure, 2 crashes |
| `install_elsewhere` | (violated) the same repair for a game in another directory | the same |

Why the bounds are enough.  *Requests*: a race on a key needs the old request,
the one that supersedes it and a third submitted after an invalidation; two
workers are what it takes for two requests of a key to be between queue and
publication at the same time; the theorems cover every number of keys, workers
and requests, and with `Slots` every pool size.  *Profile*: one document and
conditional writes make the races pairwise, so two writers, each able to lose
its answer, retry and restart, meet every order of two merges.  The initial
states include favourites from before change markers existed.  A launcher
refuses to start while another one answers its socket, but the queue file is
written under a cross-process lock and the database is shared, so two processes
of a device are modelled.  *Restore*: files do not influence each other but
through the order of the loops, for which two suffice: one done, one not; two
writes let the game write a file twice or two files once.  *Launch*: an input is
a launch, a stop, a restore, a status result or a request to close; the races
are between two of them (cancellations, results, dialogs and deadlines are not
counted), with a third to begin or to resume with; two processes make a
relaunch (the run passes with four inputs too, in minutes).  *Save sync*: a conflict needs two devices; three times tell equal,
near and far apart; two retained generations make eviction happen; one
surprise is one lost answer, failure, stale snapshot or choice of the user.
*Cache*: two calls, each a read, a forced refresh or an invalidation, and one
change between them.  *Install*: a second update after a failed or interrupted
one, and a second crash inside the recovery.

Deadlock checking is off where the system really stops: after shutdown, after
a restore, or at a bound on inputs.  `sync_devices` keeps it on: a device can
always check again.

Fairness of `RequestManager` (`FairSpec`): each worker thread and each caller's pending
announcement keep running (`WF`).  This is the operating system's scheduling,
and it takes loaders to return, which the code's cooperative timeouts and
tokens are for.  Nobody is assumed to submit, cancel or shut down.

Fairness of `ProfileSync` (`FairSpec`): every call runs on and is repeated (the
launcher synchronises at start, when the library is shown and after a session);
not every call is skipped, because the digest contains the current second; a
device does not lose the race for the document every time; and from some moment
on the network, the backend and the database work and no process ends.  The
last one is about the environment: nothing can reach the other device without
it.  A write may still be rejected then because another device was first.

Fairness of `GameLaunch` (`FairSpec`): as long as a worker, a thread, a posted
event or a timer has something to do, something is done, and the shutdown
deadline, which a clock decides, passes.  The user, the game and the dialogs
are under no obligation.

Fairness of `SaveSync` (`FairSpec`): an operation that runs goes on, a listing's
time to live ends, and every device goes on polling while it is idle.

## Findings

`launch_underneath`: the comment at `ui/main_window.py:6609` says "never replace
files underneath a running game".  An exit sync of an earlier session that is
between its check and its transfer when the game is launched again does; so can
an automatic restore that begins before a pending launch proceeds; and a double
click (`ui/main_window.py:3668`) or the tray menu (2425) asks for a second launch
without looking at the running games, whose prelaunch restore runs before
`_continue_launch` finds the session.

`sync_rollback`: after `restore_cloud_generation` the active version is an older
one, so `check_sync_status` falls through to comparing times
(`core/cloud_save_sync.py:645`), finds the newest generation newer than the
restored save, and the next poll, launch or exit restores it over the rollback.
`README.md:151` says manual history rollback remains available.

`install_elsewhere`: a transaction lies beside the game, but startup searches
the sandbox directory only (`ui/main_window.py:571`), so a game installed
elsewhere stays gone after an update was interrupted between its renames; the
docstring at `core/game_archive_updater.py:413` says it can be repaired.

Three behaviours of the profile synchronisation and one of the request manager
are in the models and are listed as hazards without a property: an entry queued
under one digest is acknowledged only under that digest; a favourite is read
before the change marker that goes with it; the projection writes the favourite
without comparing markers; and `submit()` announces LOADING again after it left
the lock, possibly over the request's own final result.

## Proofs

`RequestManagerProofs.tla` proves, for all values of the constants that satisfy
`ConstantsAssumption` (a finite non-empty pool and service limits within it):

* `TypeCorrect`: `TypeOK` together with `Ownership`, the strengthening the rest
  needs: a request is in the queue, held by exactly one worker, or done, and it
  is unfinished in the first two cases only.
* `OneFlight`: `SingleFlight`, `ActiveIsLive`, `ShutdownCancelsAll` and
  `PendingWorkBarrier`.  The inductive invariant adds that a request without an
  answer is live or between publication and `Resolve`.
* `Slots`: `SlotAccounting` and `ForegroundReserve`.  The inductive invariant
  adds that before shutdown the background counter is within its limit.

* `ManagerKeepsPromise`: the refinement.  The step that matters is `Resolve`: a
  request between publication and answer is neither queued nor held by another
  worker (`Ownership`), so it is not live, so by `ActiveIsLive` it is not joinable.

`RequestManagerWorkProofs.tla` proves, from the same assumption:

* `Wakeup`: `NoLostWakeup`, which is inductive: if somebody sleeps nothing can be
  taken, and every step that could change that notifies.
* `Abandoned`: `NothingAbandoned`.  The strengthening `Attended` says that a
  non-empty queue has a worker that has not ended.  A worker ends when it may
  take nothing; after shutdown only a saturated service prevents taking, and by
  `Slots` its slots are held by workers that will poll again.
* `NeverLoads` and `LateResult`: the action properties `CancelledNeverLoads` (no
  attempt starts once a token is set; only proved) and `LateResultNeverWins`.

`ProfileSyncProofs.tla` proves, for all values of the constants that satisfy
`ProfileAssumption` (every process has a device, every fact an origin):

* `ProfileTypeCorrect`: `TypeOK`.
* `NeverForgets`, `Synced`, `Acknowledged`: `CloudNeverForgets`,
  `SyncedIsStored`, `AcknowledgedIsStored`.  None is inductive alone: what a
  process may write, remember or acknowledge depends on what it fetched several
  steps before.  The strengthening is `Coverage`: a merge whose revision is
  still current contains the document (so the conditional write only adds), the
  merge covers the profile that was read, and from the accepted write to the end
  of the call the document covers it.

* `FailedPends`: `FailedIsPending`, assuming `TwoPerDevice`.  The strengthening is
  `Chased`: while one process of a device has failed, the other either has the
  failed profile as the pending entry before it or is in a call that read a
  profile at least as new, which it needs `Timed` and `Behind` for (no marker is
  of the future, no profile ahead of its device).

`TwoPerDevice` (at most two processes share a device) is needed: with three TLC
finds a run in which a third process, which read its profile long before,
replaces the failed one's entry by an older profile and the second, which read
the same older profile, acknowledges it.  Two is what the program arranges for:
a launcher that cannot listen under the application's name ends at once
(`core/bootstrap.py`, `create_single_instance_server`;
`ui/application_entrypoint.py`), so two overlap only
while the workers of one that has given up its listener still end; that two such
linger beside a third is the case the theorem leaves out.

`SaveRestoreProofs.tla` proves the four safety properties of a restore and
`TypeOK`, for any set of files, any number of writes by the game and any
archive, from `RestoreAssumption` (`NoFile` is not a file):

* `NothingIsLost`, `BackupIsFaithful`, `FailureIsUndone`, `SuccessIsComplete`.  They
  follow from one inductive invariant, since success, failure and the backup
  speak of the same files at different points of one call: `Control` says where the call is (which import runs, whether there
  is a backup, which files are still to do), `Held` says for each file the game
  leaves alone where its content is in each phase (in place, in the rollback
  directory, or both during an undo), and `Progress` what the loop of the
  current phase has done with the files it visited.

`GameLaunchProofs.tla` proves, from `LaunchAssumption`, for any set of processes
and any number of inputs:

* `LocksHold`, `ClosingDrains`, `ClosingIsAsked`, `CancelHolds` and `TypeInvariant`.
  `LockOutlivesWork` and `ClosedIsDrained` are inductive with `Coupling`: a cloud
  operation holds its claim exactly during its check and its transfer, `closing`
  is set exactly while a shutdown drains or has closed, and a launch that is not
  pending carries no refusal.  Without the first a transfer could outlive the
  barrier, which looks at claims; without the last, the next launch would begin
  refused.

`SaveSyncProofs.tla` proves, from `SyncAssumption`, for any number of devices,
generations and failures and any tolerance:

* `SessionsKept`, `InSyncIsTrue`, `NewerReplaces` and `TypeInvariant`.  Listings may
  be as old as they like, so the strengthening never says that one is current:
  `Listings` says that what one shows was given out by the cloud and agrees with
  it on every version both have, `Jobs` what an operation carries from one step
  to the next (a download that nobody asked for is newer than what its check
  saw, whatever the cloud did since), and `Recorded` that a recorded version is
  the content the cloud has under that number, unless the game wrote between a
  restore and its record.

`CachedRequestProofs.tla` proves, from `CacheAssumption`, for any set of threads,
calls, changes and generations:

* `StaysGone`, `ForcedIsNew` and `TypeInvariant`.  `Tokens` says that only the active
  request may store without being cancelled, and `ActiveIsNew` that what the
  active request has read is no older than the last invalidation.  `ForcedCalls`
  follows a forced refresh through its steps: after it removed the entry neither
  the cache nor the request it waits for is older than its beginning.  `Budget`,
  that calls which may still submit are no more than the calls without a
  request, is what bounds the requests for any number of threads.

`GameInstallProofs.tla` proves, from `InstallAssumption` and `NoneAssumption` (no
tree or transaction is the value that stands for none), for any number of
updates, saves, failures and crashes:

* `NothingIsLost`: `NothingLost` as long as at most one file operation has failed.
  The hypothesis is necessary and is what the run checks with its bound of one:
  when the second rename and the renaming back both fail, the `finally` clause
  still deletes the transaction directory, with the rollback tree in it.  `Kept`
  says which tree holds the saves at each step; it needs `Markers`, since the
  recovery decides by the marker which tree to delete.
* `InterruptedIsRepaired`: `InterruptedIsRecovered`, assuming `Recovers`, that the game
  is in the directory recovery searches; `install_elsewhere` shows it false
  otherwise.
* `UpdateIsAtomic`: `AllOrNothing`, by the payload of each tree at each step
  (`Payloads`), and `TypeInvariant`.

Each invariant is three facts: the initial states satisfy it, every step keeps
it (one step per action, one lemma per part of the invariant), and it implies the
property.  TLC checked every inductive invariant on the small instances first.

Every invariant and every action property of a run, and the refinement, are
stated by a theorem.  What stays with TLC is liveness under fairness, which the
provers here do not do: `EveryFutureResolves`, `EventuallyShared`, `LocksEnd`,
`ShutdownEnds` and `Converges`; and the three violations.  `ActiveIsLive`,
`ShutdownCancelsAll` and `CancelledNeverLoads` are proved and have no run.

## Not modelled

The operation registry only records progress for the user; nothing is decided
from it.  The local database is SQL over one connection, whose transactions the
models take as atomic.  Achievement watching and the resource clients (artwork,
Steam metadata) are parsing and HTTP; what they load passes through the request
manager, and unlocks enter `ProfileSync` as facts.  The public profile services
are mutations that their back end serialises.  Authentication, secrets,
sandboxing and Proton are I/O with external programs: a launch that succeeds or
fails is a choice in `GameLaunch`.  Network policy and probe enter as the offline
refusal and as `CancelMatching`.  Widgets, dialogs, themes, setup and packaging,
which are more than half of the source, are layout and input handling on one
thread: their handlers that launch, synchronise and close are in `GameLaunch`,
the rest has no state whose order of change matters.

## Plan

1. Proofs: the refinement of abstractions worth stating: a restore as an atomic
   replacement that `SaveRestore` implements when nothing crashes, an account of
   sessions that only grows, which `SaveSync` implements; and what one process
   of a device may assume of any number of others, in place of `TwoPerDevice`.
2. Theorems without a run: what no step of an update may delete while it is the
   only whole installation, and that a cancelled operation never begins its
   transfer.
3. Device records and `sync_game`; playtime checkpoints; delivery of results to
   bindings; two games in one `GameLaunch`.
