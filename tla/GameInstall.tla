------------------------------- MODULE GameInstall -------------------------------
(***************************************************************************)
(* One installed game's directory, and what replaces, removes and repairs  *)
(* it: GameArchiveUpdater.update() on its worker thread, with the recovery *)
(* of an interrupted one when the program starts, and                      *)
(* GameLifecycleService.apply() on the user interface's thread.  Nothing   *)
(* keeps the two apart, nor the game from being played meanwhile.          *)
(*                                                                         *)
(* A directory tree is the version of its payload, the newest save in it   *)
(* and whether it is complete; a save is the number of times the game had  *)
(* saved.  Renaming a directory is one step; a crash may come between any  *)
(* two steps, and a rename or a deletion may fail.                         *)
(***************************************************************************)
EXTENDS Integers

CONSTANTS
    Recovers,    \* TRUE: the game is in the directory recovery looks through
    MaxUpdates,  \* bound on updates
    MaxSaves,    \* bound on saves
    MaxFailures, \* bound on file operations that fail
    MaxCrashes,  \* bound on crashes
    None         \* nothing there

ASSUME InstallAssumption ==
    /\ Recovers \in BOOLEAN /\ MaxUpdates \in Nat /\ MaxSaves \in Nat
    /\ MaxFailures \in Nat /\ MaxCrashes \in Nat

VARIABLES
    path,        \* the tree at game_path
    trans,       \* the transaction directory beside it
    pending,     \* the tree uninstalling moved aside
    listed,      \* the library lists the game as installed
    app,         \* the program: up, down or recovering
    update,      \* where update() is
    digest,      \* old_save_digest
    result,      \* of the last update: none, success, failed
    was,         \* the payload before the last update
    uninstall,   \* where apply() is
    playing,     \* the game runs
    tracked,     \* the launcher knows it does: the game is in running_game_ids
    updates, saves, failures, crashes,
    safe         \* history: the newest save nothing was putting at risk

counters == <<updates, saves, failures, crashes>>
game == <<playing, tracked, safe>>
vars == <<path, trans, pending, listed, app, update, digest, result, was, uninstall,
          playing, tracked, updates, saves, failures, crashes, safe>>

Tree == [payload : 0..MaxUpdates, save : -1..MaxSaves, whole : BOOLEAN]
Marker == {"torn", "preparing", "swapping", "completed"}
Transaction == [marker : Marker, staged : Tree \cup {None}, rollback : Tree \cup {None}]
ASSUME NoneAssumption == None \notin Tree /\ None \notin Transaction

Empty == [marker |-> "preparing", staged |-> None, rollback |-> None]
SaveIn(tree) == IF tree = None THEN -1 ELSE tree.save

Init ==
    /\ path = [payload |-> 0, save |-> 0, whole |-> TRUE]
    /\ trans = None /\ pending = None /\ listed = TRUE
    /\ app = "up" /\ update = "idle" /\ digest = -1 /\ result = "none" /\ was = 0
    /\ uninstall = "idle" /\ playing = FALSE /\ tracked = FALSE
    /\ updates = 0 /\ saves = 0 /\ failures = 0 /\ crashes = 0 /\ safe = 0

Fails == failures < MaxFailures /\ failures' = failures + 1
Works == UNCHANGED failures

--------------------------------------------------------------------------------
(* The game is launched, saves where its directory is, and ends.  A save   *)
(* is at risk between the updater's last look at the saves and the end of  *)
(* the update, and while a transaction lies beside the game.               *)

AtRisk == update \notin {"idle", "prepare", "extract", "copy", "check"}
          \/ (trans # None /\ update = "idle") \/ uninstall # "idle"
Launch ==
    /\ ~playing /\ app = "up" /\ path # None /\ listed
    /\ playing' = TRUE /\ tracked' = TRUE
    /\ UNCHANGED <<path, trans, pending, listed, app, update, digest, result, was,
                   uninstall, counters, safe>>
Save ==
    /\ playing /\ path # None /\ saves < MaxSaves
    /\ saves' = saves + 1
    /\ path' = [path EXCEPT !.save = saves + 1]
    /\ safe' = IF AtRisk THEN safe ELSE saves + 1
    /\ UNCHANGED <<trans, pending, listed, app, update, digest, result, was, uninstall,
                   playing, tracked, updates, failures, crashes>>
Quit ==
    /\ playing /\ playing' = FALSE /\ tracked' = FALSE
    /\ UNCHANGED <<path, trans, pending, listed, app, update, digest, result, was,
                   uninstall, counters, safe>>

--------------------------------------------------------------------------------
(* GameArchiveUpdater.update().                                            *)

updating == <<pending, listed, app, was, uninstall, updates, saves, crashes, game>>
Goto(step) == update' = step /\ UNCHANGED <<digest, result>>
Ends(outcome) == update' = "cleanup" /\ result' = outcome /\ UNCHANGED digest

(* The window lets the user ask while no game is known to run, and a worker *)
(* is started.  One update at a time, beside no transaction that an earlier *)
(* one left: a bound.                                                       *)
Ask ==
    /\ update = "idle" /\ app = "up" /\ uninstall = "idle"
    /\ listed /\ path # None /\ ~tracked
    /\ trans = None /\ updates < MaxUpdates
    /\ updates' = updates + 1
    /\ update' = "prepare" /\ result' = "none"
    /\ UNCHANGED <<path, trans, pending, listed, app, digest, was, uninstall, saves,
                   failures, crashes, game>>

(* The worker finds the directory, makes the transaction's directory and   *)
(* its marker and takes the saves' digest, or refuses.                     *)
Begin ==
    /\ update = "prepare" /\ path # None
    /\ trans' = Empty /\ digest' = path.save /\ was' = path.payload
    /\ update' = "extract"
    /\ UNCHANGED <<path, pending, listed, app, result, uninstall, counters, game>>
Keep == update' = "idle" /\ result' = "failed" /\ UNCHANGED digest
Decline ==
    /\ update = "prepare"
    /\ Keep /\ Works
    /\ UNCHANGED <<path, trans, updating>>

(* Extraction, the checks of the archive and the safety backup of the      *)
(* saves; any of them may refuse, and the user may cancel.                 *)
Extract ==
    /\ update = "extract" /\ path # None
    /\ Goto("copy") /\ Works
    /\ UNCHANGED <<path, trans, updating>>
MutantRefuse ==   \* the refusal removes the transaction, and so does the end
    /\ update \in {"extract", "copy"}
    /\ Ends("failed") /\ Works /\ trans' = None
    /\ UNCHANGED <<path, updating>>
Refuse ==
    /\ update \in {"extract", "copy"}
    /\ Ends("failed") /\ Works
    /\ UNCHANGED <<path, trans, updating>>

(* The replacement tree: the new payload and a copy of what is protected.  *)
Copy ==
    /\ update = "copy"
    /\ trans' = [trans EXCEPT !.staged =
           [payload |-> updates, save |-> SaveIn(path), whole |-> TRUE]]
    /\ Goto("check") /\ Works
    /\ UNCHANGED <<path, updating>>
MutantCheck ==   \* nothing is written before the renames
    /\ update = "check"
    /\ IF SaveIn(path) = digest THEN Goto("away") ELSE Ends("failed")
    /\ Works /\ UNCHANGED <<path, trans, updating>>
Check ==
    /\ update = "check"
    /\ IF SaveIn(path) = digest THEN Goto("mark") ELSE Ends("failed")
    /\ Works /\ UNCHANGED <<path, trans, updating>>

(* The marker is rewritten in place: opened, which empties it, and filled. *)
Mark ==
    /\ update \in {"mark", "complete"}
    /\ trans' = [trans EXCEPT !.marker = "torn"]
    /\ Goto(IF update = "mark" THEN "swapping" ELSE "completed") /\ Works
    /\ UNCHANGED <<path, updating>>
Marked ==
    /\ update \in {"swapping", "completed"}
    /\ \/ trans' = [trans EXCEPT !.marker = update] /\ Works
          /\ Goto(IF update = "swapping" THEN "away" ELSE "drop")
       \/ Fails /\ UNCHANGED trans
          /\ (IF update = "swapping" THEN Ends("failed") ELSE Goto("undo"))
    /\ UNCHANGED <<path, updating>>

(* The two renames.  When the second fails the first is taken back.        *)
Away ==
    /\ update = "away"
    /\ \/ /\ path # None /\ Works
          /\ trans' = [trans EXCEPT !.rollback = path] /\ path' = None
          /\ Goto("in")
       \/ /\ (path = None /\ Works) \/ Fails
          /\ Ends("failed") /\ UNCHANGED <<path, trans>>
    /\ UNCHANGED updating
In ==
    /\ update = "in"
    /\ \/ /\ path = None /\ Works
          /\ path' = trans.staged /\ trans' = [trans EXCEPT !.staged = None]
          /\ Goto("verify")
       \/ /\ (path # None /\ Works) \/ Fails
          /\ Goto("back") /\ UNCHANGED <<path, trans>>
    /\ UNCHANGED updating
Back ==
    /\ update = "back"
    /\ \/ /\ path = None /\ Works
          /\ path' = trans.rollback /\ trans' = [trans EXCEPT !.rollback = None]
       \/ /\ (path # None /\ Works) \/ Fails
          /\ UNCHANGED <<path, trans>>
    /\ Ends("failed") /\ UNCHANGED updating

(* The saves in the new tree must be those the update began with.          *)
MutantVerify ==   \* reports what it found and leaves the new tree there
    /\ update = "verify"
    /\ IF SaveIn(path) = digest THEN Goto("complete") ELSE Ends("failed")
    /\ Works /\ UNCHANGED <<path, trans, updating>>
Verify ==
    /\ update = "verify"
    /\ Goto(IF SaveIn(path) = digest THEN "complete" ELSE "undo")
    /\ Works /\ UNCHANGED <<path, trans, updating>>
Drop ==
    /\ update = "drop"
    /\ trans' = [trans EXCEPT !.rollback = None]
    /\ Ends("success") /\ Works
    /\ UNCHANGED <<path, updating>>

(* After a failed verification the new tree is set aside and deleted and   *)
(* the old one put back.  When that fails the transaction is kept.         *)
Undo ==
    /\ update = "undo"
    /\ \/ path # None /\ Works /\ path' = None /\ Goto("undoBack")
       \/ ((path = None /\ Works) \/ Fails) /\ Keep /\ UNCHANGED path
    /\ UNCHANGED <<trans, updating>>
UndoBack ==
    /\ update = "undoBack"
    /\ \/ /\ path = None /\ Works /\ Ends("failed")
          /\ path' = trans.rollback /\ trans' = [trans EXCEPT !.rollback = None]
       \/ /\ (path # None /\ Works) \/ Fails
          /\ Keep /\ UNCHANGED <<path, trans>>
    /\ UNCHANGED updating

Cleanup ==
    /\ update = "cleanup"
    /\ trans' = None
    /\ Goto("idle") /\ Works
    /\ UNCHANGED <<path, updating>>

Update == Begin \/ Decline \/ Extract \/ Refuse \/ Copy \/ Check \/ Mark \/ Marked
          \/ Away \/ In \/ Back \/ Verify \/ Drop \/ Undo \/ UndoBack \/ Cleanup

--------------------------------------------------------------------------------
(* The program crashes, with its worker, and starts again; the game runs   *)
(* on.  recover_incomplete_game_updates() looks for transactions in one    *)
(* directory.                                                              *)

Crash ==
    /\ app # "down" /\ crashes < MaxCrashes
    /\ crashes' = crashes + 1
    /\ app' = "down" /\ update' = "idle" /\ uninstall' = "idle" /\ tracked' = FALSE
    /\ UNCHANGED <<path, trans, pending, listed, digest, result, was, updates, saves,
                   failures, playing, safe>>
recovery == <<pending, listed, update, digest, result, was, uninstall, updates, saves,
              crashes, game>>
Start ==
    /\ app = "down"
    /\ app' = IF Recovers /\ trans # None THEN "recovering" ELSE "up"
    /\ Works /\ UNCHANGED <<path, trans, recovery>>
MutantInterrupted ==   \* only a directory that is there is repaired
    trans.marker = "swapping" /\ trans.rollback # None /\ path # None
Interrupted == trans.marker = "swapping" /\ trans.rollback # None
SetAside ==
    /\ app = "recovering" /\ Interrupted /\ path # None
    /\ \/ Works /\ path' = None /\ UNCHANGED app
       \/ Fails /\ app' = "up" /\ UNCHANGED path
    /\ UNCHANGED <<trans, recovery>>
Recover ==
    /\ app = "recovering" /\ Interrupted /\ path = None
    /\ \/ /\ Works /\ UNCHANGED app
          /\ path' = trans.rollback /\ trans' = [trans EXCEPT !.rollback = None]
       \/ Fails /\ app' = "up" /\ UNCHANGED <<path, trans>>
    /\ UNCHANGED recovery
(* Anything else is deleted; a marker that cannot be read is left alone.   *)
Discard ==
    /\ app = "recovering" /\ ~Interrupted
    /\ app' = "up"
    /\ trans' = IF trans.marker = "torn" THEN trans ELSE None
    /\ Works /\ UNCHANGED <<path, recovery>>

--------------------------------------------------------------------------------
(* GameLifecycleService.apply(): the directory is moved aside, the library *)
(* is changed, and the directory is deleted, or put back.                  *)

removing == <<trans, app, update, digest, result, was, updates, saves, crashes, game>>
Stage ==
    /\ uninstall = "idle" /\ app = "up" /\ listed /\ pending = None
    /\ \/ Works /\ pending' = path /\ path' = None /\ uninstall' = "mutate"
       \/ path # None /\ Fails /\ UNCHANGED <<path, pending, uninstall>>
    /\ UNCHANGED <<listed, removing>>
Mutate ==
    /\ uninstall = "mutate"
    /\ \/ Works /\ listed' = FALSE /\ uninstall' = "remove"
       \/ Fails /\ UNCHANGED listed /\ uninstall' = "restore"
    /\ UNCHANGED <<path, pending, removing>>
Remove ==
    /\ uninstall = "remove"
    /\ \/ Works /\ pending' = None /\ uninstall' = "idle"
       \/ /\ Fails /\ pending # None
          /\ pending' = [pending EXCEPT !.whole = FALSE] /\ uninstall' = "restore"
    /\ UNCHANGED <<path, listed, removing>>
Restore ==
    /\ uninstall = "restore"
    /\ uninstall' = "idle"
    /\ \/ path = None /\ path' = pending /\ pending' = None /\ Works
       \/ ((path # None /\ Works) \/ Fails) /\ UNCHANGED <<path, pending>>
    /\ UNCHANGED <<listed, removing>>
Uninstall == Stage \/ Mutate \/ Remove \/ Restore

Next ==
    \/ Launch \/ Save \/ Quit
    \/ Ask \/ Update
    \/ Crash \/ Start \/ SetAside \/ Recover \/ Discard
    \/ Uninstall
Spec == Init /\ [][Next]_vars

--------------------------------------------------------------------------------
TypeOK ==
    /\ path \in Tree \cup {None} /\ pending \in Tree \cup {None}
    /\ trans \in Transaction \cup {None} /\ listed \in BOOLEAN
    /\ app \in {"up", "down", "recovering"}
    /\ update \in {"idle", "prepare", "extract", "copy", "check", "mark", "swapping",
                   "away", "in", "back", "verify", "complete", "completed", "drop",
                   "undo", "undoBack", "cleanup"}
    /\ update # "idle" => app = "up" /\ (trans = None <=> update = "prepare")
    /\ uninstall \in {"idle", "mutate", "remove", "restore"}
    /\ digest \in -1..MaxSaves /\ safe \in 0..saves /\ {playing, tracked} \subseteq BOOLEAN
    /\ result \in {"none", "success", "failed"} /\ was \in 0..MaxUpdates

(* While the library lists the game, a complete installation with every    *)
(* save that was not written in the updater's window is somewhere on disk, *)
(* wherever the program crashed, whatever was cancelled and whichever one  *)
(* file operation failed: update() discards no tree before another is in   *)
(* place, and no save its last look saw.                                   *)
Trees == {path, pending} \cup (IF trans = None THEN {} ELSE {trans.rollback})
NothingLost ==
    listed => \E tree \in Trees \ {None} : tree.whole /\ tree.save >= safe

(* "If the process dies between the two directory renames, the marker and  *)
(* rollback tree remain beside the game and can be repaired at startup."   *)
(* Once the program is up again the game is where the library says it is,  *)
(* unless it was being uninstalled.                                        *)
InterruptedIsRecovered ==
    /\ app = "up" /\ update = "idle" /\ uninstall = "idle"
    /\ listed /\ pending = None /\ failures = 0
    => path # None

(* An update that reports failure has left the payload that was there, and *)
(* one that reports success the new one, unless a transaction is kept.     *)
AllOrNothing ==
    update = "cleanup" /\ path # None =>
        path.payload = (IF result = "success" THEN updates ELSE was)

================================================================================
