------------------------------ MODULE GameLaunch -------------------------------
(***************************************************************************)
(* One game in one launcher: preparing its launch, its processes, the      *)
(* cloud operations on its save files, and closing the application.        *)
(*                                                                         *)
(* Handlers run one at a time on the UI thread and are single actions,     *)
(* except across a modal dialog, which lets other handlers run.  Cloud     *)
(* operations run on RequestManager's workers, trackers and the stopping   *)
(* of a process on threads of their own; what they report is delivered by  *)
(* a later handler.  A worker claims the game in CloudSyncCoordinator for  *)
(* its check and again for its transfer, and nothing in between.  Games    *)
(* exit, users act and status results arrive at any moment.                *)
(*                                                                         *)
(* A cancelled operation runs on to its end and then reports "cancelled":  *)
(* that is what module RequestManager proves of every request.             *)
(***************************************************************************)
EXTENDS Integers, FiniteSets

CONSTANTS
    Process,    \* game processes the runner may start
    NoProcess,
    MaxInputs   \* bound: launches, stops, restores, close requests, status results

ASSUME LaunchAssumption == NoProcess \notin Process /\ MaxInputs \in Nat

VARIABLES
    prelaunch,  \* PrelaunchController._pending
    workflow,   \* CloudWorkflowController: the automatic sync in flight
    manual,     \* ManualRestoreController._active
    op,         \* the latest cloud operation of each kind
    claims,     \* CloudSyncCoordinator._active
    proc,       \* the game processes
    session,    \* GameSessionManager._sessions
    owner,      \* LaunchSessionCoordinator._trackers
    tracker,    \* each process' PlaytimeTrackerThread
    interrupted,\* trackers asked to stop
    killing,    \* the process a StopGame task is terminating
    shutdown,   \* ShutdownController.state
    closing,    \* MainWindow._closing
    epoch,      \* ShutdownController._epoch
    retries,    \* epochs for which a deferred retry is scheduled
    late,       \* the shutdown deadline has passed
    wanted,     \* history: the user asked to close since the last abort
    inputs      \* history: inputs so far

games == <<proc, session, owner, tracker, interrupted, killing>>
closer == <<shutdown, closing, epoch, retries, late, wanted>>
locks == <<prelaunch, workflow, manual>>
vars == <<locks, op, claims, games, closer, inputs>>

Kind == {"prelaunch", "exit", "upload", "restore", "preflight", "manual"}
Stage == {"idle", "queued", "checking", "between", "busy", "done"}
Active == {"queued", "checking", "between", "busy"}
Result == {"ok", "failed", "quota"}

Operation == [at : Stage, does : {"nothing", "upload", "restore"},
              cancelled : BOOLEAN, result : Result]
Idle == [at |-> "idle", does |-> "nothing", cancelled |-> FALSE, result |-> "ok"]
NotPending == [at |-> "none", refused |-> FALSE]
NoSession == [proc |-> NoProcess, state |-> "none"]

Init ==
    /\ prelaunch = NotPending /\ workflow = "none" /\ manual = NotPending
    /\ op = [k \in Kind |-> Idle] /\ claims = {}
    /\ proc = [p \in Process |-> "unused"]
    /\ session = NoSession /\ owner = NoProcess
    /\ tracker = [p \in Process |-> "none"]
    /\ interrupted = {} /\ killing = NoProcess
    /\ shutdown = "running" /\ closing = FALSE /\ epoch = 0
    /\ retries = {} /\ late = FALSE /\ wanted = FALSE /\ inputs = 0

Input == inputs < MaxInputs /\ inputs' = inputs + 1

--------------------------------------------------------------------------------
(* What the controllers read of each other.                                *)

IsActive(k) == op[k].at \in Active
Live == session # NoSession /\ proc[session.proc] = "running"
Running ==      \* the game is in active_game_ids()
    /\ session.state \in {"running", "stopping"}
    /\ Live \/ session.state = "stopping"
CanRestore ==   \* _can_manually_restore
    /\ ~Running /\ prelaunch.at = "none" /\ workflow = "none"
    /\ \A k \in Kind : ~IsActive(k)

(* RequestManager.submit joins the active request of the same key.         *)
Submit(o, k, does) ==
    IF o[k].at \in Active THEN o
    ELSE [o EXCEPT ![k] = [Idle EXCEPT !.at = "queued", !.does = does]]
CancelOp(o, k) ==
    IF o[k].at \in Active THEN [o EXCEPT ![k].cancelled = TRUE] ELSE o
Retire(o, k) == [o EXCEPT ![k] = Idle]

--------------------------------------------------------------------------------
(* The workers: CloudOperationService's loaders and the coordinator's      *)
(* claims.  A refused claim is a failed result; outcomes nobody tells      *)
(* apart are "ok".                                                         *)

Outcomes(k) == CASE k = "prelaunch" -> {"ok", "quota"}
                 [] k = "preflight" -> {"ok", "failed"}
                 [] OTHER -> {"ok"}
Checks(k) == k \in {"prelaunch", "exit", "preflight"}
Free == claims = {}     \* claim() refuses while any operation holds the game

Ended(k, result) ==     \* nobody keeps the outcome of an exit sync
    IF k = "exit" THEN Retire(op, k)
    ELSE [op EXCEPT ![k].at = "done", ![k].result = result]

FailedClaim(k) == IF k = "preflight" THEN "failed" ELSE "ok"

StartOp(k) ==
    /\ op[k].at = "queued"
    /\ IF op[k].cancelled \/ ~Free
       THEN /\ op' = Ended(k, FailedClaim(k))
            /\ UNCHANGED claims
       ELSE /\ op' = [op EXCEPT ![k].at = IF Checks(k) THEN "checking" ELSE "busy"]
            /\ claims' = claims \cup {k}
    /\ UNCHANGED <<locks, games, closer, inputs>>

EndCheck(k) ==      \* the claim is released before the result is used
    /\ op[k].at = "checking"
    /\ claims' = claims \ {k}
    /\ \/ op' = Ended(k, "ok")
       \/ k = "preflight" /\ op' = Ended(k, "failed")
       \/ /\ k # "preflight"
          /\ ~(k = "prelaunch" /\ op[k].cancelled)
          /\ \E does \in {"upload", "restore"} :
                op' = [op EXCEPT ![k].at = "between", ![k].does = does]
    /\ UNCHANGED <<locks, games, closer, inputs>>

BeginTransfer(k) ==
    /\ op[k].at = "between"
    /\ IF Free
       THEN op' = [op EXCEPT ![k].at = "busy"] /\ claims' = claims \cup {k}
       ELSE op' = Ended(k, "ok") /\ UNCHANGED claims
    /\ UNCHANGED <<locks, games, closer, inputs>>

EndTransfer(k) ==
    /\ op[k].at = "busy"
    /\ claims' = claims \ {k}
    /\ \E r \in Outcomes(k) :
          /\ r = "quota" => op[k].does = "upload"
          /\ op' = Ended(k, r)
    /\ UNCHANGED <<locks, games, closer, inputs>>

Worker(k) == StartOp(k) \/ EndCheck(k) \/ BeginTransfer(k) \/ EndTransfer(k)

(* check_status of a background poll holds the claim for a while.          *)
StatusClaims ==
    /\ Input /\ Free /\ ~closing
    /\ claims' = {"status"}
    /\ UNCHANGED <<locks, op, games, closer>>

StatusReleases ==
    /\ "status" \in claims
    /\ claims' = claims \ {"status"}
    /\ UNCHANGED <<locks, op, games, closer, inputs>>

--------------------------------------------------------------------------------
(* Sessions: LaunchSessionCoordinator, GameSessionManager and the trackers.*)

(* _continue_launch: a live session makes it a no-op; the runner may fail. *)
ContinueLaunch ==
    \/ UNCHANGED games
    \/ /\ ~Live
       /\ \E p \in Process :
             /\ proc[p] = "unused"
             /\ proc' = [proc EXCEPT ![p] = "running"]
             /\ session' = [proc |-> p, state |-> "running"]
             /\ owner' = p
             /\ tracker' = [tracker EXCEPT ![p] = "watching"]
       /\ UNCHANGED <<interrupted, killing>>

GameExits(p) ==
    /\ proc[p] = "running"
    /\ proc' = [proc EXCEPT ![p] = "exited"]
    /\ UNCHANGED <<locks, op, claims, session, owner, tracker, interrupted,
                   killing, closer, inputs>>

Observe ==      \* the observer is stopped while the window closes
    /\ ~closing
    /\ session.state \in {"running", "stopping"} /\ ~Live
    /\ session' = [session EXCEPT !.state = "exited"]
    /\ UNCHANGED <<locks, op, claims, proc, owner, tracker, interrupted,
                   killing, closer, inputs>>

(* safe_run returns: the process is gone, or the tracker was interrupted   *)
(* and leaves the process alone.                                           *)
TrackerEnds(p) ==
    /\ tracker[p] = "watching"
    /\ proc[p] = "exited" \/ p \in interrupted
    /\ tracker' = [tracker EXCEPT ![p] = "ended"]
    /\ UNCHANGED <<locks, op, claims, proc, session, owner, interrupted,
                   killing, closer, inputs>>

(* finish_tracker looks the session up by game: it retires whichever       *)
(* session and tracker are registered, then requests the exit sync, unless *)
(* the network is not allowed.                                             *)
FinishTracker(p) ==
    /\ tracker[p] = "ended" /\ shutdown # "closed"
    /\ tracker' = [tracker EXCEPT ![p] = "finished"]
    /\ session' = NoSession
    /\ owner' = NoProcess
    /\ op' \in {op, Submit(op, "exit", "nothing")}
    /\ UNCHANGED <<locks, claims, proc, interrupted, killing, closer, inputs>>

(* Mutant: a missing session is marked as stopping too.                    *)
MutantStopped(s) == [s EXCEPT !.state = "stopping"]

(* GameSessionController.stop.                                             *)
Stopped(s) == IF s.state = "running" THEN [s EXCEPT !.state = "stopping"] ELSE s

StopGame ==
    /\ Input /\ Running /\ killing = NoProcess /\ ~closing
    /\ session' = Stopped(session)
    /\ killing' = owner
    /\ UNCHANGED <<locks, op, claims, proc, owner, tracker, interrupted,
                   closer>>

KillEnds ==     \* terminate_game_process, which may fail
    /\ killing # NoProcess
    /\ killing' = NoProcess
    /\ proc' \in {proc, [proc EXCEPT ![killing] = "exited"]}
    /\ UNCHANGED <<locks, op, claims, session, owner, tracker, interrupted,
                   closer, inputs>>

--------------------------------------------------------------------------------
(* Preparing a launch: PrelaunchController.                                *)

(* _launch_mode and start.  The tray menu and a double click ask for it    *)
(* without looking at the running games.  Offline, and when the request    *)
(* cannot be queued, the game starts with its local saves.                 *)
Launch ==
    /\ Input
    /\ prelaunch.at = "none" /\ workflow = "none" /\ manual.at = "none" /\ ~closing
    /\ \/ ContinueLaunch /\ UNCHANGED <<prelaunch, op>>
       \/ /\ prelaunch' = [at |-> "waiting", refused |-> FALSE]
          /\ op' = Submit(op, "prelaunch", "nothing")
          /\ UNCHANGED games
    /\ UNCHANGED <<workflow, manual, claims, closer>>

CancelLaunch ==     \* the progress dialog; the lock stays
    /\ prelaunch.at = "waiting" /\ ~prelaunch.refused
    /\ prelaunch' = [prelaunch EXCEPT !.refused = TRUE]
    /\ op' = CancelOp(op, "prelaunch")
    /\ UNCHANGED <<workflow, manual, claims, games, closer, inputs>>

(* Mutant: the cancellation is forgotten once the result is there.         *)
MutantCanContinue == ~closing

CanContinue == ~prelaunch.refused /\ ~closing

(* _on_preflight_result.  A refused claim, an unreachable cloud, a failed  *)
(* transfer: all of them launch with the local saves.                      *)
PrelaunchResult ==
    /\ prelaunch.at = "waiting" /\ op["prelaunch"].at = "done"
    /\ shutdown # "closed"
    /\ op' = Retire(op, "prelaunch")
    /\ IF ~CanContinue \/ op["prelaunch"].cancelled
       THEN prelaunch' = NotPending /\ UNCHANGED games
       ELSE IF op["prelaunch"].result = "quota"
       THEN prelaunch' = [prelaunch EXCEPT !.at = "asking"] /\ UNCHANGED games
       ELSE prelaunch' = NotPending /\ ContinueLaunch
    /\ UNCHANGED <<workflow, manual, claims, closer, inputs>>

(* The quota dialog returns: revalidate, then launch unless the user       *)
(* chose another button.                                                   *)
QuotaAnswered ==
    /\ prelaunch.at = "asking" /\ shutdown # "closed"
    /\ prelaunch' = NotPending
    /\ \/ CanContinue /\ ContinueLaunch
       \/ UNCHANGED games
    /\ UNCHANGED <<workflow, manual, op, claims, closer, inputs>>

--------------------------------------------------------------------------------
(* Automatic synchronisation: CloudWorkflowController.                     *)

(* A status result, possibly long out of date, reaches maybe_upload or     *)
(* maybe_restore.  A pending launch is only seen while its operation runs. *)
AutoSync(kind) ==
    /\ Input /\ ~closing /\ ~Running /\ workflow = "none"
    /\ \A k \in Kind : ~IsActive(k)
    /\ workflow' = kind
    /\ op' = Submit(op, kind, kind)
    /\ UNCHANGED <<prelaunch, manual, claims, games, closer>>

(* Mutant: a result that arrives while closing leaves its marker behind.   *)
MutantAutoSyncDone ==
    /\ workflow # "none" /\ op[workflow].at = "done" /\ shutdown # "closed"
    /\ workflow' = IF closing THEN workflow ELSE "none"
    /\ op' = Retire(op, workflow)
    /\ UNCHANGED <<prelaunch, manual, claims, games, closer, inputs>>

AutoSyncDone ==     \* handle_upload_done and handle_restore_done
    /\ workflow # "none" /\ op[workflow].at = "done" /\ shutdown # "closed"
    /\ workflow' = "none"
    /\ op' = Retire(op, workflow)
    /\ UNCHANGED <<prelaunch, manual, claims, games, closer, inputs>>

--------------------------------------------------------------------------------
(* Manual restore: ManualRestoreController.                                *)

ManualStart ==
    /\ Input /\ ~closing /\ manual.at = "none" /\ CanRestore
    /\ manual' = [at |-> "checking", refused |-> FALSE]
    /\ op' = Submit(op, "preflight", "nothing")
    /\ UNCHANGED <<prelaunch, workflow, claims, games, closer>>

ManualKind == IF manual.at = "checking" THEN "preflight" ELSE "manual"

ManualCancel ==
    /\ manual.at \in {"checking", "restoring"} /\ ~manual.refused
    /\ manual' = [manual EXCEPT !.refused = TRUE]
    /\ op' = CancelOp(op, ManualKind)
    /\ UNCHANGED <<prelaunch, workflow, claims, games, closer, inputs>>

(* deliver: the result of the check opens the confirmation dialog.         *)
ManualChecked ==
    /\ manual.at = "checking" /\ op["preflight"].at = "done"
    /\ shutdown # "closed"
    /\ op' = Retire(op, "preflight")
    /\ manual' = IF \/ manual.refused \/ closing \/ op["preflight"].cancelled
                    \/ op["preflight"].result = "failed"
                 THEN NotPending ELSE [manual EXCEPT !.at = "confirming"]
    /\ UNCHANGED <<prelaunch, workflow, claims, games, closer, inputs>>

(* The dialog returns: everything is checked again before the restore.     *)
ManualConfirmed ==
    /\ manual.at = "confirming" /\ shutdown # "closed"
    /\ \/ /\ ~manual.refused /\ ~closing /\ CanRestore
          /\ manual' = [manual EXCEPT !.at = "restoring"]
          /\ op' = Submit(op, "manual", "restore")
       \/ manual' = NotPending /\ UNCHANGED op
    /\ UNCHANGED <<prelaunch, workflow, claims, games, closer, inputs>>

ManualDone ==
    /\ manual.at = "restoring" /\ op["manual"].at = "done" /\ shutdown # "closed"
    /\ manual' = NotPending
    /\ op' = Retire(op, "manual")
    /\ UNCHANGED <<prelaunch, workflow, claims, games, closer, inputs>>

--------------------------------------------------------------------------------
(* Closing: ShutdownController.request with MainWindow's hooks.            *)

(* Mutant: a shutdown drops the locks with the requests.                   *)
MutantRefuse(lock) == NotPending

Refuse(lock) == IF lock.at = "none" THEN lock ELSE [lock EXCEPT !.refused = TRUE]
Watching == {p \in Process : tracker[p] = "watching"}

(* _cancel_shutdown_work: every token is set, every tracked game asked to  *)
(* stop, every tracker interrupted and awaited for three seconds.          *)
CancelWork(E) ==
    /\ op' = [k \in Kind |-> CancelOp(op, k)[k]]
    /\ tracker' = [p \in Process |-> IF p \in E THEN "ended" ELSE tracker[p]]
    /\ interrupted' = interrupted \cup Watching
    /\ IF /\ killing = NoProcess
          /\ \E p \in Process : tracker[p] \in {"watching", "ended"}
       THEN session' = Stopped(session) /\ killing' = owner
       ELSE UNCHANGED <<session, killing>>

(* Mutant: the barrier counts threads and forgets the managed requests.    *)
MutantWaiting ==
    (\E p \in Process : tracker'[p] = "watching") \/ killing' # NoProcess

Waiting ==      \* _pending_shutdown_work, after the work was cancelled
    \/ \E k \in Kind : IsActive(k)
    \/ \E p \in Process : tracker'[p] = "watching"
    \/ killing' # NoProcess

Aborted ==      \* abort and _resume_after_shutdown
    /\ shutdown' = "cancelled" /\ closing' = FALSE
    /\ epoch' = epoch + 1 /\ late' = FALSE /\ wanted' = FALSE

Request(asked, left) ==
    LET begins == shutdown # "draining"
        this == IF begins THEN epoch + 1 ELSE epoch
    IN  /\ prelaunch' = IF begins THEN Refuse(prelaunch) ELSE prelaunch
        /\ manual' = IF begins THEN Refuse(manual) ELSE manual
        /\ \E E \in SUBSET Watching : CancelWork(E)
        /\ IF Waiting /\ late /\ ~begins
           THEN Aborted /\ retries' = left
           ELSE /\ shutdown' = IF Waiting THEN "draining" ELSE "closed"
                /\ retries' = IF Waiting THEN left \cup {this} ELSE left
                /\ closing' = TRUE /\ epoch' = this
                /\ late' = (late /\ ~begins) /\ wanted' = asked
        /\ UNCHANGED <<workflow, claims, proc, owner>>

Close ==        \* closeEvent
    /\ Input /\ shutdown # "closed"
    /\ Request(TRUE, retries)

(* Mutants: a retry does not ask whose it is; or it compares with the      *)
(* epoch before its own.                                                   *)
MutantRetry(e) ==
    /\ e \in retries /\ shutdown # "closed"
    /\ Request(wanted, retries \ {e})
    /\ UNCHANGED inputs
MutantRetryEpoch(e) ==
    /\ e \in retries /\ shutdown # "closed"
    /\ IF shutdown = "draining" /\ e = epoch - 1
       THEN Request(wanted, retries \ {e})
       ELSE /\ retries' = retries \ {e}
            /\ UNCHANGED <<locks, op, games, shutdown, closing, epoch, late,
                           wanted, claims>>
    /\ UNCHANGED inputs

Retry(e) ==     \* a deferred retry; one of an earlier epoch does nothing
    /\ e \in retries /\ shutdown # "closed"
    /\ IF shutdown = "draining" /\ e = epoch
       THEN Request(wanted, retries \ {e})
       ELSE /\ retries' = retries \ {e}
            /\ UNCHANGED <<locks, op, games, shutdown, closing, epoch, late,
                           wanted, claims>>
    /\ UNCHANGED inputs

KeepOpen ==     \* the button of the progress dialog
    /\ shutdown = "draining"
    /\ Aborted
    /\ UNCHANGED <<locks, op, claims, games, retries, inputs>>

DeadlinePasses ==
    /\ shutdown = "draining" /\ ~late
    /\ late' = TRUE
    /\ UNCHANGED <<locks, op, claims, games, shutdown, closing, epoch, retries,
                   wanted, inputs>>

--------------------------------------------------------------------------------
Delivery == PrelaunchResult \/ AutoSyncDone \/ ManualChecked \/ ManualDone

(* What happens by itself: workers, threads, queued deliveries, timers.    *)
Progress ==
    \/ \E k \in Kind : Worker(k)
    \/ StatusReleases \/ KillEnds \/ Observe \/ Delivery
    \/ \E p \in Process : TrackerEnds(p) \/ FinishTracker(p)
    \/ \E e \in retries : Retry(e)
    \/ DeadlinePasses

Environment ==
    \/ StatusClaims \/ StopGame \/ \E p \in Process : GameExits(p)
    \/ Launch \/ CancelLaunch \/ QuotaAnswered
    \/ \E kind \in {"upload", "restore"} : AutoSync(kind)
    \/ ManualStart \/ ManualCancel \/ ManualConfirmed
    \/ Close \/ KeepOpen

Next == Progress \/ Environment

Spec == Init /\ [][Next]_vars

(* A worker, thread, posted event or timer runs in the end, and the clock  *)
(* does not wait for the retries of a shutdown; the user need not act and  *)
(* a game may run for ever.                                                *)
FairSpec == Spec /\ WF_vars(Progress) /\ WF_vars(DeadlinePasses)

--------------------------------------------------------------------------------
(* Properties.                                                             *)

Lock == [at : {"none", "waiting", "asking", "checking", "confirming", "restoring"},
         refused : BOOLEAN]

(* Every variable stays within the values the code gives it.               *)
TypeOK ==
    /\ prelaunch \in Lock /\ manual \in Lock
    /\ workflow \in {"none", "upload", "restore"}
    /\ op \in [Kind -> Operation] /\ claims \subseteq Kind \cup {"status"}
    /\ proc \in [Process -> {"unused", "running", "exited"}]
    /\ session \in [proc : Process \cup {NoProcess},
                    state : {"none", "running", "stopping", "exited"}]
    /\ session = NoSession <=> session.proc = NoProcess
    /\ {owner, killing} \subseteq Process \cup {NoProcess}
    /\ tracker \in [Process -> {"none", "watching", "ended", "finished"}]
    /\ interrupted \subseteq Process
    /\ shutdown \in {"running", "draining", "cancelled", "closed"}
    /\ {closing, late, wanted} \subseteq BOOLEAN
    /\ epoch \in Nat /\ retries \subseteq 0..epoch /\ inputs \in 0..MaxInputs

(* "Keep the game locked until the future completes and rollback finishes" *)
(* (ManualRestoreController.cancel; the launch and the automatic sync do   *)
(* the same): while a worker may still touch the saves on behalf of a      *)
(* controller, that controller holds its lock, also when the user          *)
(* cancelled and when a shutdown began and was aborted.                    *)
LockOutlivesWork ==
    /\ IsActive("prelaunch") => prelaunch.at = "waiting"
    /\ IsActive("preflight") => manual.at = "checking"
    /\ IsActive("manual") => manual.at = "restoring"
    /\ \A kind \in {"upload", "restore"} : IsActive(kind) => workflow = kind

(* A launch the user or a shutdown cancelled never starts the game, even   *)
(* from a dialog that was open meanwhile or after the shutdown was called  *)
(* off; and nothing starts while the launcher is closing.                  *)
CancelledNeverLaunches ==
    [][\A p \in Process : proc[p] = "unused" /\ proc'[p] = "running" =>
          ~prelaunch.refused /\ ~closing]_vars

(* The window closes only once no worker may touch a save, no process is   *)
(* being terminated and no tracker is watching a game (_pending_shutdown_  *)
(* work is a barrier), and it stays that way.                              *)
ClosedIsDrained ==
    shutdown = "closed" =>
        /\ claims \cap Kind = {} /\ \A k \in Kind : ~IsActive(k)
        /\ killing = NoProcess /\ Watching = {}

(* A stale retry cannot close: once a shutdown was called off, by the    *)
(* user or by the deadline, no retry left over from it closes or drains    *)
(* again; only the user does.                                              *)
OnlyTheUserCloses == shutdown \in {"draining", "closed"} => wanted

(* A lock is not held for ever: a pending launch, an automatic sync and a  *)
(* manual restore end, unless a dialog waits for the user or the launcher  *)
(* closes first.                                                           *)
LocksEnd ==
    /\ prelaunch.at = "waiting" ~> prelaunch.at # "waiting" \/ shutdown = "closed"
    /\ workflow # "none" ~> workflow = "none" \/ shutdown = "closed"
    /\ manual.at \in {"checking", "restoring"}
         ~> manual.at \notin {"checking", "restoring"} \/ shutdown = "closed"

(* A shutdown does not hang: it closes or is called off, whatever games,   *)
(* trackers and workers do.                                                *)
ShutdownEnds == shutdown = "draining" ~> shutdown # "draining"

(* "never replace files underneath a running game" (main_window.py): false *)
(* of this code.  An exit sync that began before a relaunch, an automatic  *)
(* restore that slipped in before a launch proceeds, and the prelaunch     *)
(* restore of a second launch of a running game all do.                    *)
NeverUnderRunningGame ==
    (\E k \in Kind : op[k].at = "busy" /\ op[k].does = "restore")
        => \A p \in Process : proc[p] # "running"
================================================================================
