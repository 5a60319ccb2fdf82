------------------------------ MODULE SaveRestore ------------------------------
(***************************************************************************)
(* One restore of a save archive over the files of a game, from            *)
(* restore_archive_with_safety_backup (core/save_restore_service.py) and   *)
(* the archive code it calls (core/zip_backup.py).                         *)
(*                                                                         *)
(* The current files of the detected save locations are packed into a      *)
(* safety backup, the archive is staged, every file it replaces is moved   *)
(* to a rollback directory, and the result is read back.  A failed import  *)
(* undoes its moves; a failed verification imports the safety backup.  The *)
(* user may cancel, any file operation may fail, the game may write its    *)
(* saves and the launcher may die between any two steps.                   *)
(*                                                                         *)
(* A file holds nothing, what it held before the restore, what the archive *)
(* holds for it, or what the game wrote during the restore: contents are   *)
(* numbers, and size, time and inode tell them apart as they do in         *)
(* SaveFileState.  One directory stands for all detected locations, and    *)
(* staging is one step because nothing can see the staging directory.      *)
(***************************************************************************)
EXTENDS Integers, FiniteSets

CONSTANTS
    File,       \* paths a save archive or a save location may name
    NoFile,     \* "no file is being packed or installed"
    MaxWrites   \* bound: writes and deletions by the game

ASSUME RestoreAssumption == NoFile \notin File /\ MaxWrites \in Nat

VARIABLES
    scope,      \* what the caller passes: locations, archive, destination
    before,     \* the files when the restore starts
    live,       \* the files now
    snapshot,   \* what validation saw in the detected locations
    backup,     \* the safety backup, complete once ...
    protected,  \* ... it is at its final path
    phase,      \* where restore_archive_with_safety_backup is
    source,     \* the archive import_save is importing
    todo,       \* files the current loop still has to visit
    current,    \* the file between its two checks or its two moves
    replaced,   \* files import_save has installed
    rollback,   \* the rollback directory
    stuck,      \* rollback_failed
    imported,   \* archives whose import_save returned True
    cancelled,  \* what cancel_check returns
    outcome,    \* the result of the call
    writes,     \* how often the game has written
    touched,    \* files it has written ...
    late        \* ... and those it has written since they were verified

packing == <<snapshot, backup, protected>>
importing == <<source, replaced, rollback, stuck, imported>>
game == <<writes, touched>>
inputs == <<scope, before>>
vars == <<inputs, live, packing, phase, todo, current, importing, cancelled,
          outcome, game, late>>

Absent == 0
Original == 1
Archived == 2
Played(n) == Archived + n
Content == 0..Played(MaxWrites)
Nothing == [f \in File |-> Absent]

Scope == [covered : SUBSET File,    \* the detected save locations
          packed : SUBSET File \ {{}},
          inside : SUBSET File,     \* paths below destination_path
          manifest : BOOLEAN]       \* a legacy archive has none

Init ==
    /\ scope \in {s \in Scope : s.manifest \/ s.packed \subseteq s.inside}
    /\ before \in [File -> {Absent, Original}]
    /\ live = before
    /\ snapshot = Nothing /\ backup = Nothing /\ protected = FALSE
    /\ phase = "start" /\ todo = {} /\ current = NoFile
    /\ source = "archive" /\ replaced = {} /\ rollback = Nothing
    /\ stuck = FALSE /\ imported = {}
    /\ cancelled = FALSE /\ outcome = "none"
    /\ writes = 0 /\ touched = {} /\ late = {}

End(result) ==
    /\ phase' = "end"
    /\ outcome' = result
    /\ UNCHANGED todo

Go(next, files) ==
    /\ phase' = next
    /\ todo' = files
    /\ UNCHANGED outcome

Located == scope.covered # {}

-----------------------------------------------------------------------------
(* Before anything is touched. *)

(* The archive is missing, invalid or not the planned one; or no location  *)
(* was detected although the destination holds files.                      *)
Unprotected == ~Located /\ \E f \in scope.inside : live[f] # Absent

Start ==
    /\ phase = "start"
    /\ \/ cancelled /\ End("cancelled")
       \/ ~cancelled /\ End("failed")
       \/ ~cancelled /\ ~Unprotected /\ Go(IF Located THEN "validate" ELSE "stage", {})
    /\ UNCHANGED <<inputs, live, packing, current, importing, cancelled, game, late>>

Validate ==
    /\ phase = "validate"
    /\ \/ cancelled /\ End("cancelled") /\ UNCHANGED snapshot
       \/ ~cancelled /\ End("failed") /\ UNCHANGED snapshot
       \/ /\ ~cancelled
          /\ \E f \in scope.covered : live[f] # Absent
          /\ snapshot' = [f \in File |-> IF f \in scope.covered THEN live[f] ELSE Absent]
          /\ Go("recheck", {})
    /\ UNCHANGED <<inputs, live, backup, protected, current, importing, cancelled, game, late>>

(* GameSaveSnapshot.verify_current, once per location. *)
Recheck ==
    /\ phase = "recheck"
    /\ \/ cancelled /\ End("cancelled")
       \/ /\ \E f \in scope.covered : live[f] # snapshot[f]
          /\ End("failed")
       \/ /\ ~cancelled
          /\ \A f \in scope.covered : live[f] = snapshot[f]
          /\ Go("pack", scope.covered)
    /\ UNCHANGED <<inputs, live, packing, current, importing, cancelled, game, late>>

(* Mutant: the step that failed is reported as the result.                 *)
MutantExportFails == End(phase)

(* An export that failed reports "cancelled" if the user has cancelled. *)
ExportFails == End(IF cancelled THEN "cancelled" ELSE "failed")

(* Mutant: a file that changed since validation is packed all the same.    *)
MutantMatches(f) == TRUE

Matches(f) == live[f] = snapshot[f]

(* One file of the walk: skipped if it is gone, else checked and added.  *)
(* A full disk fails the export here too.                                *)
PackFile(f) ==
    /\ phase = "pack" /\ current = NoFile /\ f \in todo
    /\ \/ ExportFails /\ UNCHANGED <<backup, current>>
       \/ /\ ~cancelled /\ live[f] = Absent
          /\ Go("pack", todo \ {f})
          /\ UNCHANGED <<backup, current>>
       \/ /\ ~cancelled /\ live[f] # Absent /\ Matches(f)
          /\ backup' = [backup EXCEPT ![f] = live[f]]
          /\ current' = f
          /\ Go("pack", todo \ {f})
    /\ UNCHANGED <<inputs, live, snapshot, protected, importing, cancelled, game, late>>

(* The second check of a file, after it has been added. *)
ConfirmFile ==
    /\ phase = "pack" /\ current # NoFile
    /\ IF Matches(current) THEN Go("pack", todo) ELSE ExportFails
    /\ current' = NoFile
    /\ UNCHANGED <<inputs, live, packing, importing, cancelled, game, late>>

(* os.replace of the finished archive. *)
Publish ==
    /\ phase = "pack" /\ current = NoFile /\ todo = {}
    /\ \/ ExportFails /\ UNCHANGED protected
       \/ /\ \E f \in File : backup[f] # Absent
          /\ protected' = TRUE
          /\ Go("stage", {})
    /\ UNCHANGED <<inputs, live, snapshot, backup, current, importing, cancelled, game, late>>

-----------------------------------------------------------------------------
(* import_save, of the archive or, after a failed verification, of the      *)
(* safety backup, which cannot be cancelled.                                *)

CancelSeen == cancelled /\ source = "archive"
Planned == IF source = "archive" THEN scope.packed
                                 ELSE {f \in File : backup[f] # Absent}
Incoming(f) == IF source = "archive" THEN Archived ELSE backup[f]

ImportFails == End(IF CancelSeen THEN "cancelled" ELSE "failed")

Stage ==
    /\ phase = "stage"
    /\ \/ ImportFails
       \/ ~CancelSeen /\ Go("apply", Planned)
    /\ replaced' = {}
    /\ UNCHANGED <<inputs, live, packing, current, source, rollback, stuck, imported,
                   cancelled, game, late>>

(* The file that is there is moved to the rollback directory ... *)
Displace(f) ==
    /\ phase = "apply" /\ current = NoFile /\ f \in todo
    /\ ~CancelSeen
    /\ rollback' = [rollback EXCEPT ![f] = live[f]]
    /\ live' = [live EXCEPT ![f] = Absent]
    /\ current' = f
    /\ UNCHANGED <<inputs, packing, phase, todo, source, replaced, stuck, imported,
                   cancelled, outcome, game, late>>

(* ... and the staged file to its place, over whatever appeared there. *)
Install ==
    /\ phase = "apply" /\ current # NoFile
    /\ live' = [live EXCEPT ![current] = Incoming(current)]
    /\ replaced' = replaced \cup {current}
    /\ current' = NoFile
    /\ Go("apply", todo \ {current})
    /\ UNCHANGED <<inputs, packing, source, rollback, stuck, imported, cancelled, game, late>>

(* Mutant: only files whose replacement is in place are put back.          *)
MutantOriginals == {f \in replaced : rollback[f] # Absent}

Originals == {f \in File : rollback[f] # Absent}

(* A cancellation before a file, or a move that fails. *)
Abort ==
    /\ phase = "apply" /\ todo # {}
    /\ current' = NoFile
    /\ Go("undo", Originals)
    /\ UNCHANGED <<inputs, live, packing, importing, cancelled, game, late>>

(* The undo visits every file whatever happened to the one before. *)
Remove(f) ==
    /\ phase = "undo" /\ f \in replaced
    /\ replaced' = replaced \ {f}
    /\ \/ live' = [live EXCEPT ![f] = Absent] /\ UNCHANGED stuck
       \/ stuck' = TRUE /\ UNCHANGED live
    /\ UNCHANGED <<inputs, packing, phase, todo, current, source, rollback, imported,
                   cancelled, outcome, game, late>>

PutBack(f) ==
    /\ phase = "undo" /\ replaced = {} /\ f \in todo
    /\ todo' = todo \ {f}
    /\ \/ /\ live' = [live EXCEPT ![f] = rollback[f]]
          /\ rollback' = [rollback EXCEPT ![f] = Absent]
          /\ UNCHANGED stuck
       \/ stuck' = TRUE /\ UNCHANGED <<live, rollback>>
    /\ UNCHANGED <<inputs, packing, phase, current, source, replaced, imported,
                   cancelled, outcome, game, late>>

(* Mutant: the rollback directory goes whatever the undo achieved.         *)
MutantCleanup == rollback' = Nothing

(* The finally clause: what could not be put back is kept. *)
Cleanup == rollback' = IF stuck THEN rollback ELSE Nothing

Undone ==
    /\ phase = "undo" /\ replaced = {} /\ todo = {}
    /\ Cleanup
    /\ ImportFails
    /\ UNCHANGED <<inputs, live, packing, current, source, replaced, stuck, imported,
                   cancelled, game, late>>

(* A legacy archive is not verified; the result of putting the safety       *)
(* backup back is not looked at.                                            *)
Applied ==
    /\ phase = "apply" /\ todo = {}
    /\ Cleanup
    /\ imported' = imported \cup {source}
    /\ IF source = "backup" THEN End("failed")
       ELSE IF scope.manifest THEN Go("verify", scope.packed)
       ELSE End("restored")
    /\ UNCHANGED <<inputs, live, packing, current, source, replaced, stuck, cancelled,
                   game, late>>

-----------------------------------------------------------------------------
(* verify_import and what the service makes of its answer. *)

Rejected ==
    IF cancelled THEN End("cancelled") /\ UNCHANGED source
    ELSE IF protected THEN Go("stage", {}) /\ source' = "backup"
    ELSE End("failed") /\ UNCHANGED source

(* Mutant: a file that can be read passes.                                 *)
MutantVerifyFile(f) ==
    /\ phase = "verify" /\ f \in todo
    /\ \/ Rejected /\ UNCHANGED late
       \/ /\ ~cancelled
          /\ Go("verify", todo \ {f})
          /\ late' = late \ {f}
          /\ UNCHANGED source
    /\ UNCHANGED <<inputs, live, packing, current, replaced, rollback, stuck, imported,
                   cancelled, game>>

VerifyFile(f) ==
    /\ phase = "verify" /\ f \in todo
    /\ \/ Rejected /\ UNCHANGED late          \* cancelled, or the file cannot be read
       \/ live[f] # Archived /\ Rejected /\ UNCHANGED late
       \/ /\ ~cancelled /\ live[f] = Archived
          /\ Go("verify", todo \ {f})
          /\ late' = late \ {f}
          /\ UNCHANGED source
    /\ UNCHANGED <<inputs, live, packing, current, replaced, rollback, stuck, imported,
                   cancelled, game>>

Verified ==
    /\ phase = "verify" /\ todo = {}
    /\ End("restored")
    /\ UNCHANGED <<inputs, live, packing, current, importing, cancelled, game, late>>

-----------------------------------------------------------------------------
Running == phase \notin {"end", "crashed"}

Cancel ==
    /\ Running /\ ~cancelled
    /\ cancelled' = TRUE
    /\ UNCHANGED <<inputs, live, packing, phase, todo, current, importing, outcome, game, late>>

GameWrites(f) ==
    /\ Running /\ writes < MaxWrites
    /\ writes' = writes + 1
    /\ live' = [live EXCEPT ![f] = Played(writes + 1)]
    /\ touched' = touched \cup {f}
    /\ late' = late \cup {f}
    /\ UNCHANGED <<inputs, packing, phase, todo, current, importing, cancelled, outcome>>

GameDeletes(f) ==
    /\ Running /\ writes < MaxWrites /\ live[f] # Absent
    /\ writes' = writes + 1
    /\ live' = [live EXCEPT ![f] = Absent]
    /\ touched' = touched \cup {f}
    /\ late' = late \cup {f}
    /\ UNCHANGED <<inputs, packing, phase, todo, current, importing, cancelled, outcome>>

(* The launcher dies; what is on disk stays, and nothing resumes it. *)
Crash ==
    /\ Running
    /\ phase' = "crashed"
    /\ UNCHANGED <<inputs, live, packing, todo, current, importing, cancelled, outcome,
                   game, late>>

Next ==
    \/ Start \/ Validate \/ Recheck \/ ConfirmFile \/ Publish
    \/ Stage \/ Install \/ Abort \/ Undone \/ Applied \/ Verified
    \/ \E f \in File : \/ PackFile(f) \/ Displace(f) \/ Remove(f) \/ PutBack(f)
                       \/ VerifyFile(f) \/ GameWrites(f) \/ GameDeletes(f)
    \/ Cancel \/ Crash

Spec == Init /\ [][Next]_vars

-----------------------------------------------------------------------------
TypeOK ==
    /\ scope \in Scope
    /\ before \in [File -> {Absent, Original}]
    /\ live \in [File -> Content] /\ snapshot \in [File -> Content]
    /\ backup \in [File -> Content] /\ rollback \in [File -> Content]
    /\ protected \in BOOLEAN /\ stuck \in BOOLEAN /\ cancelled \in BOOLEAN
    /\ phase \in {"start", "validate", "recheck", "pack", "stage", "apply", "undo",
                  "verify", "end", "crashed"}
    /\ source \in {"archive", "backup"} /\ imported \subseteq {"archive", "backup"}
    /\ todo \subseteq File /\ current \in File \cup {NoFile} /\ replaced \subseteq File
    /\ outcome \in {"none", "restored", "cancelled", "failed"}
    /\ writes \in 0..MaxWrites /\ touched \subseteq File /\ late \subseteq File

(* Whatever fails and whenever the launcher dies, what a file of a detected *)
(* location held is still in its place, in the rollback directory or in     *)
(* the safety backup, unless the game itself replaced it; until the whole   *)
(* archive is in place this holds for every file, detected or not.          *)
Recoverable ==
    \A f \in File \ touched : before[f] = Original =>
        \/ live[f] = Original
        \/ rollback[f] = Original
        \/ protected /\ backup[f] = Original /\ f \in scope.covered
        \/ "archive" \in imported /\ f \notin scope.covered

(* A safety backup at its final path is the state that validation saw: a    *)
(* file the game changes while it is packed never slips in, and one is      *)
(* missing only if the game deleted it meanwhile.                           *)
BackupIsSnapshot ==
    protected => \A f \in scope.covered :
        \/ backup[f] = snapshot[f]
        \/ backup[f] = Absent /\ f \in touched

(* A restore that did not get past its import leaves the files as they      *)
(* were; one whose verification failed has put the safety backup back, if   *)
(* that import succeeded.  Undo errors are reported and excepted.           *)
FailureRestores ==
    outcome \in {"failed", "cancelled"} /\ ~stuck =>
        /\ "archive" \notin imported =>
               \A f \in File \ touched : live[f] = before[f]
        /\ "backup" \in imported =>
               \A f \in scope.covered \ touched : before[f] = Original => live[f] = Original

(* A restore that reports success placed every file of the archive: only    *)
(* what the game wrote after the file was read back differs.                *)
SuccessIsVerified ==
    outcome = "restored" => \A f \in scope.packed :
        \/ live[f] = Archived
        \/ f \in IF scope.manifest THEN late ELSE touched
=============================================================================
