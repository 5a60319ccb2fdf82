---------------------------- MODULE GameInstallProofs ---------------------------
(***************************************************************************)
(* That updating, uninstalling, crashing and recovering lose no            *)
(* installation and no save while one file operation fails at most, that   *)
(* an interrupted update is recovered and that an update is all or         *)
(* nothing: for any number of updates, saves and crashes.                  *)
(***************************************************************************)
EXTENDS GameInstall, TLAPS

(* The steps of an update: before the old tree is moved away, between two  *)
(* renames, and while the new tree is in place and the old one still kept. *)
Before == {"extract", "copy", "check", "mark", "swapping", "away"}
Between == {"in", "back", "undoBack"}
Swapped == {"verify", "complete", "completed", "drop", "undo"}
Copied == {"check", "mark", "swapping", "away", "in"}
Verified == {"complete", "completed", "drop", "cleanup"}

(* A removal that has the game's directory and may put it back.            *)
Removing == uninstall # "idle" /\ pending # None
Keeps == trans # None /\ trans.rollback # None

Bounds ==
    /\ saves \in 0..MaxSaves /\ updates \in 0..MaxUpdates
    /\ failures \in 0..MaxFailures /\ crashes \in 0..MaxCrashes

(* Which trees there are at each step, and what the marker says.           *)
Places ==
    /\ app # "up" => uninstall = "idle"
    /\ app = "recovering" => trans # None
    /\ Removing => path = None /\ update \notin Between
    /\ update \in Before => trans.rollback = None
    /\ update \in Copied => trans.staged # None
    /\ update \in Between => path = None
    /\ update \in Between \cup Swapped => trans.rollback # None
    /\ update = "back" => failures > 0
    /\ uninstall = "remove" => ~listed
    /\ uninstall = "restore" => ~listed \/ failures > 0
Markers ==
    /\ update \in {"extract", "copy", "check", "mark"} => trans.marker = "preparing"
    /\ update \in {"away", "in", "back", "verify", "complete"} => trans.marker = "swapping"
    /\ update \in {"undo", "undoBack"} =>
           trans.marker = "swapping" \/ (trans.marker = "torn" /\ failures > 0)
    /\ update = "drop" => trans.marker = "completed"
    /\ update \in {"swapping", "completed"} => trans.marker = "torn"
    /\ Keeps => trans.marker # "preparing"

(* Which payload each tree has.                                            *)
OnDisk(payload) == /\ path # None => path.payload = payload
                   /\ Removing => pending.payload = payload
Payloads ==
    /\ update \in Before => OnDisk(was)
    /\ update \in Copied => trans.staged.payload = updates
    /\ update \in Between \cup Swapped => trans.rollback.payload = was
    /\ update \in Swapped => OnDisk(updates)
    /\ update = "cleanup" => OnDisk(IF result = "success" THEN updates ELSE was)

(* Only a new tree that is still to be verified, or to be undone, may lack *)
(* the saves: one copied while the game was moved aside.                   *)
Suspect == Keeps /\ trans.marker \in {"swapping", "torn"}
HaveSaves ==
    /\ ~Suspect \/ update \in Verified =>
           /\ path # None => path.save >= 0
           /\ Removing => pending.save >= 0
    /\ Keeps => trans.rollback.save >= 0
    /\ update \notin {"idle", "prepare"} => digest >= 0

Wholes ==
    listed => /\ \A tree \in {path, pending} \ {None} : tree.whole
              /\ trans # None =>
                     \A tree \in {trans.rollback, trans.staged} \ {None} : tree.whole

(* Where a tree with every save that counts is.                            *)
Good(tree) == tree # None /\ tree.save >= safe
Aside == uninstall = "idle" /\ Good(pending)
InPlace == Good(path) \/ Good(pending)
Kept ==
    listed /\ failures <= 1 =>
        /\ InPlace \/ Keeps
        /\ Keeps => Good(trans.rollback) \/ Aside
        /\ update \in Verified => InPlace
        /\ trans # None /\ trans.marker = "completed" => InPlace
        /\ update \in {"mark", "swapping", "away", "in", "back", "verify"} =>
               digest >= safe \/ Aside

(* When the game is nowhere, what puts it back is under way or to come.    *)
Repairable ==
    Recovers /\ listed /\ failures = 0 /\ pending = None /\ path = None =>
        /\ Keeps /\ trans.marker = "swapping"
        /\ update \in Between \/ app \in {"down", "recovering"}

IInv == /\ TypeOK /\ Bounds /\ Places /\ Markers /\ Payloads /\ HaveSaves /\ Wholes
        /\ Kept /\ Repairable

-----------------------------------------------------------------------------
(* The counters stay within their bounds.                                   *)
LEMMA BoundStep ==
    ASSUME InstallAssumption, TypeOK, Bounds, [Next]_vars
    PROVE  Bounds'
PROOF
<1> USE DEF Bounds
<1>1. CASE Launch
  BY <1>1 DEF Launch, counters
<1>2. CASE Save
  BY <1>2 DEF Save
<1>3. CASE Quit
  BY <1>3 DEF Quit, counters
<1>4. CASE Ask
  BY <1>4 DEF Ask, game, Empty
<1>5. CASE Extract
  BY <1>5 DEF Extract, Goto, updating, Works, game
<1>6. CASE Refuse
  BY <1>6 DEF Refuse, Ends, updating, Works, game
<1>7. CASE Copy
  BY <1>7 DEF Copy, Goto, updating, Works, game
<1>8. CASE Check
  BY <1>8 DEF Check, Goto, Ends, updating, Works, game
<1>9. CASE Mark
  BY <1>9 DEF Mark, Goto, updating, Works, game
<1>10. CASE Marked
  BY <1>10 DEF Marked, Goto, Ends, Fails, updating, Works, game
<1>11. CASE Away
  BY <1>11 DEF Away, Goto, Ends, Fails, updating, Works, game
<1>12. CASE In
  BY <1>12 DEF In, Goto, Fails, updating, Works, game
<1>13. CASE Back
  BY <1>13 DEF Back, Ends, Fails, updating, Works, game
<1>14. CASE Verify
  BY <1>14 DEF Verify, Goto, updating, Works, game
<1>15. CASE Drop
  BY <1>15 DEF Drop, Ends, updating, Works, game
<1>16. CASE Undo
  BY <1>16 DEF Undo, Goto, Keep, Fails, updating, Works, game
<1>17. CASE UndoBack
  BY <1>17 DEF UndoBack, Ends, Keep, Fails, updating, Works, game
<1>18. CASE Cleanup
  BY <1>18 DEF Cleanup, Goto, updating, Works, game
<1>19. CASE Crash
  BY <1>19 DEF Crash
<1>20. CASE Start
  BY <1>20 DEF Start, Works, recovery, game
<1>21. CASE SetAside
  BY <1>21 DEF SetAside, Works, Fails, recovery, Interrupted, game
<1>22. CASE Recover
  BY <1>22 DEF Recover, Works, Fails, recovery, Interrupted, game
<1>23. CASE Discard
  BY <1>23 DEF Discard, Works, recovery, Interrupted, game
<1>24. CASE Stage
  BY <1>24 DEF Stage, Works, Fails, removing, game
<1>25. CASE Mutate
  BY <1>25 DEF Mutate, Works, Fails, removing, game
<1>26. CASE Remove
  BY <1>26 DEF Remove, Works, Fails, removing, game
<1>27. CASE Restore
  BY <1>27 DEF Restore, Works, Fails, removing, game
<1>28. CASE Begin
  BY <1>28 DEF Begin, Empty, counters, game
<1>29. CASE Decline
  BY <1>29 DEF Decline, Keep, Works, updating, game
<1>30. CASE UNCHANGED vars
  BY <1>30 DEF vars, counters, game
<1> QED
  BY <1>1, <1>2, <1>3, <1>4, <1>5, <1>6, <1>7, <1>8, <1>9, <1>10, <1>11, <1>12,
     <1>13, <1>14, <1>15, <1>16, <1>17, <1>18, <1>19, <1>20, <1>21, <1>22, <1>23,
     <1>24, <1>25, <1>26, <1>27, <1>28, <1>29, <1>30 DEF Next, Update, Uninstall

(* Copying builds a complete tree beside the game, and touches nothing else. *)
LEMMA CopyFacts ==
    ASSUME InstallAssumption, NoneAssumption, TypeOK, Bounds, Copy
    PROVE  /\ trans' \in Transaction /\ trans' # None /\ trans'.staged # None
           /\ trans'.staged.payload = updates /\ trans'.staged.whole
           /\ trans'.marker = trans.marker /\ trans'.rollback = trans.rollback
           /\ UNCHANGED <<path, digest, result, failures, updating>>
           /\ update = "copy" /\ update' = "check"
PROOF
<1> DEFINE new == [payload |-> updates, save |-> SaveIn(path), whole |-> TRUE]
<1>1. SaveIn(path) \in -1..MaxSaves
  BY DEF SaveIn, TypeOK, Tree, InstallAssumption
<1>2. new \in Tree /\ new.payload = updates /\ new.whole
  BY <1>1 DEF Tree, Bounds
<1>3. trans \in Transaction /\ trans' = [trans EXCEPT !.staged = new]
      /\ UNCHANGED <<path, digest, result, failures, updating>>
      /\ update = "copy" /\ update' = "check"
  BY DEF Copy, Goto, Works, TypeOK
<1> HIDE DEF new
<1> QED
  BY <1>2, <1>3, NoneAssumption DEF Transaction

(* Every variable keeps its type.                                           *)
LEMMA TypeStep ==
    ASSUME InstallAssumption, NoneAssumption, TypeOK, Bounds, Places, [Next]_vars
    PROVE  TypeOK'
PROOF
<1> USE DEF Bounds, TypeOK, Tree, Transaction, Marker
<1>1. CASE Launch
  BY <1>1 DEF Launch, counters, Places, Before, Copied, Between, Swapped
<1>2. CASE Save
  BY <1>2 DEF Save, Places, Before, Copied, Between, Swapped
<1>3. CASE Quit
  <2>1. {playing', tracked'} \subseteq BOOLEAN
    BY <1>3 DEF Quit, game
  <2> QED
    BY <1>3, <2>1 DEF Quit, counters
<1>4. CASE Ask
  BY <1>4 DEF Ask, game, Empty, Places, Before, Copied, Between, Swapped
<1>5. CASE Extract
  BY <1>5 DEF Extract, Goto, updating, Works, game, Places, Before, Copied,
     Between, Swapped
<1>6. CASE Refuse
  BY <1>6 DEF Refuse, Ends, updating, Works, game, Places, Before, Copied,
     Between, Swapped
<1>7. CASE Copy
  <2>1. /\ trans' \in Transaction /\ trans' # None
        /\ UNCHANGED <<path, digest, result, failures, updating>>
        /\ update = "copy" /\ update' = "check"
    BY <1>7, CopyFacts DEF Bounds
  <2> QED
    BY <2>1 DEF updating, game
<1>8. CASE Check
  BY <1>8 DEF Check, Goto, Ends, updating, Works, game, Places, Before, Copied,
     Between, Swapped
<1>9. CASE Mark
  BY <1>9 DEF Mark, Goto, updating, Works, game, Places, Before, Copied, Between,
     Swapped
<1>10. CASE Marked
  BY <1>10 DEF Marked, Goto, Ends, Fails, updating, Works, game, Places, Before,
     Copied, Between, Swapped
<1>11. CASE Away
  BY <1>11 DEF Away, Goto, Ends, Fails, updating, Works, game, Places, Before,
     Copied, Between, Swapped
<1>12. CASE In
  BY <1>12 DEF In, Goto, Fails, updating, Works, game, Places, Before, Copied,
     Between, Swapped
<1>13. CASE Back
  BY <1>13 DEF Back, Ends, Fails, updating, Works, game, Places, Before, Copied,
     Between, Swapped
<1>14. CASE Verify
  BY <1>14 DEF Verify, Goto, updating, Works, game, Places, Before, Copied,
     Between, Swapped
<1>15. CASE Drop
  BY <1>15 DEF Drop, Ends, updating, Works, game, Places, Before, Copied,
     Between, Swapped
<1>16. CASE Undo
  BY <1>16 DEF Undo, Goto, Keep, Fails, updating, Works, game, Places, Before,
     Copied, Between, Swapped
<1>17. CASE UndoBack
  BY <1>17 DEF UndoBack, Ends, Keep, Fails, updating, Works, game, Places,
     Before, Copied, Between, Swapped
<1>18. CASE Cleanup
  BY <1>18 DEF Cleanup, Goto, updating, Works, game, Places, Before, Copied,
     Between, Swapped
<1>19. CASE Crash
  <2>1. {playing', tracked'} \subseteq BOOLEAN
    BY <1>19 DEF Crash, game
  <2> QED
    BY <1>19, <2>1 DEF Crash
<1>20. CASE Start
  BY <1>20 DEF Start, Works, recovery, game, Places, Before, Copied, Between,
     Swapped
<1>21. CASE SetAside
  BY <1>21 DEF SetAside, Works, Fails, recovery, Interrupted, game, Places,
     Before, Copied, Between, Swapped
<1>22. CASE Recover
  BY <1>22 DEF Recover, Works, Fails, recovery, Interrupted, game, Places,
     Before, Copied, Between, Swapped
<1>23. CASE Discard
  BY <1>23 DEF Discard, Works, recovery, Interrupted, game, Places, Before,
     Copied, Between, Swapped
<1>24. CASE Stage
  BY <1>24 DEF Stage, Works, Fails, removing, game, Places, Before, Copied,
     Between, Swapped
<1>25. CASE Mutate
  <2>1. listed' \in BOOLEAN /\ uninstall' \in {"idle", "mutate", "remove", "restore"}
    BY <1>25 DEF Mutate
  <2>2. UNCHANGED <<path, pending, removing>>
    BY <1>25 DEF Mutate
  <2> QED
    BY <2>1, <2>2 DEF removing, game
<1>26. CASE Remove
  <2>1. pending' \in Tree \cup {None}
    BY <1>26 DEF Remove
  <2>2. uninstall' \in {"idle", "mutate", "remove", "restore"}
        /\ UNCHANGED <<path, listed, removing>>
    BY <1>26 DEF Remove
  <2> QED
    BY <2>1, <2>2 DEF removing, game
<1>27. CASE Restore
  BY <1>27 DEF Restore, Works, Fails, removing, game, Places, Before, Copied,
     Between, Swapped
<1>28. CASE Begin
  BY <1>28 DEF Begin, Empty, counters, game, Places, Before, Copied, Between,
     Swapped
<1>29. CASE Decline
  BY <1>29 DEF Decline, Keep, Works, updating, game, Places, Before, Copied,
     Between, Swapped
<1>30. CASE UNCHANGED vars
  BY <1>30 DEF vars, counters, game
<1> QED
  BY <1>1, <1>2, <1>3, <1>4, <1>5, <1>6, <1>7, <1>8, <1>9, <1>10, <1>11, <1>12,
     <1>13, <1>14, <1>15, <1>16, <1>17, <1>18, <1>19, <1>20, <1>21, <1>22, <1>23,
     <1>24, <1>25, <1>26, <1>27, <1>28, <1>29, <1>30 DEF Next, Update, Uninstall

(* The trees are where the steps expect them.                               *)
LEMMA PlaceStep ==
    ASSUME InstallAssumption, NoneAssumption, TypeOK, Bounds, Places, [Next]_vars
    PROVE  Places'
PROOF
<1> USE DEF Places, Removing, Before, Copied, Between, Swapped, Bounds, TypeOK,
        Tree, Transaction, Marker
<1>1. CASE Launch
  BY <1>1 DEF Launch, counters
<1>2. CASE Save
  BY <1>2 DEF Save
<1>3. CASE Quit
  BY <1>3 DEF Quit, counters
<1>4. CASE Ask
  BY <1>4 DEF Ask, game, Empty
<1>5. CASE Extract
  BY <1>5 DEF Extract, Goto, updating, Works, game
<1>6. CASE Refuse
  BY <1>6 DEF Refuse, Ends, updating, Works, game
<1>7. CASE Copy
  <2>1. /\ trans' \in Transaction /\ trans' # None /\ trans'.staged # None
        /\ trans'.marker = trans.marker /\ trans'.rollback = trans.rollback
        /\ UNCHANGED <<path, digest, result, failures, updating>>
        /\ update = "copy" /\ update' = "check"
    BY <1>7, CopyFacts
  <2> QED
    BY <2>1 DEF updating
<1>8. CASE Check
  BY <1>8 DEF Check, Goto, Ends, updating, Works, game
<1>9. CASE Mark
  BY <1>9 DEF Mark, Goto, updating, Works, game
<1>10. CASE Marked
  BY <1>10 DEF Marked, Goto, Ends, Fails, updating, Works, game
<1>11. CASE Away
  BY <1>11 DEF Away, Goto, Ends, Fails, updating, Works, game
<1>12. CASE In
  BY <1>12 DEF In, Goto, Fails, updating, Works, game
<1>13. CASE Back
  BY <1>13 DEF Back, Ends, Fails, updating, Works, game
<1>14. CASE Verify
  BY <1>14 DEF Verify, Goto, updating, Works, game
<1>15. CASE Drop
  BY <1>15 DEF Drop, Ends, updating, Works, game
<1>16. CASE Undo
  BY <1>16 DEF Undo, Goto, Keep, Fails, updating, Works, game
<1>17. CASE UndoBack
  BY <1>17 DEF UndoBack, Ends, Keep, Fails, updating, Works, game
<1>18. CASE Cleanup
  BY <1>18 DEF Cleanup, Goto, updating, Works, game
<1>19. CASE Crash
  BY <1>19 DEF Crash
<1>20. CASE Start
  BY <1>20 DEF Start, Works, recovery, game
<1>21. CASE SetAside
  BY <1>21 DEF SetAside, Works, Fails, recovery, Interrupted, game
<1>22. CASE Recover
  BY <1>22 DEF Recover, Works, Fails, recovery, Interrupted, game
<1>23. CASE Discard
  BY <1>23 DEF Discard, Works, recovery, Interrupted, game
<1>24. CASE Stage
  BY <1>24 DEF Stage, Works, Fails, removing, game
<1>25. CASE Mutate
  <2>1. CASE uninstall' = "remove"
    BY <1>25, <2>1 DEF Mutate, Works, Fails, removing, game
  <2>2. CASE uninstall' = "restore"
    BY <1>25, <2>2 DEF Mutate, Works, Fails, removing, game
  <2> QED
    BY <1>25, <2>1, <2>2 DEF Mutate
<1>26. CASE Remove
  <2>1. CASE uninstall' = "idle"
    BY <1>26, <2>1 DEF Remove, Works, Fails, removing, game
  <2>2. CASE uninstall' = "restore"
    BY <1>26, <2>2 DEF Remove, Works, Fails, removing, game
  <2> QED
    BY <1>26, <2>1, <2>2 DEF Remove
<1>27. CASE Restore
  BY <1>27 DEF Restore, Works, Fails, removing, game
<1>28. CASE Begin
  BY <1>28 DEF Begin, Empty, counters, game
<1>29. CASE Decline
  BY <1>29 DEF Decline, Keep, Works, updating, game
<1>30. CASE UNCHANGED vars
  BY <1>30 DEF vars, counters, game
<1> QED
  BY <1>1, <1>2, <1>3, <1>4, <1>5, <1>6, <1>7, <1>8, <1>9, <1>10, <1>11, <1>12,
     <1>13, <1>14, <1>15, <1>16, <1>17, <1>18, <1>19, <1>20, <1>21, <1>22, <1>23,
     <1>24, <1>25, <1>26, <1>27, <1>28, <1>29, <1>30 DEF Next, Update, Uninstall

(* The marker says which renames were made.                                 *)
LEMMA MarkerStep ==
    ASSUME InstallAssumption, NoneAssumption, TypeOK, Bounds, Places, Markers, [Next]_vars
    PROVE  Markers'
PROOF
<1> USE DEF Markers, Keeps, Places, Removing, Before, Copied, Between, Swapped,
        Bounds, TypeOK, Tree, Transaction, Marker
<1>1. CASE Launch
  BY <1>1 DEF Launch, counters
<1>2. CASE Save
  BY <1>2 DEF Save
<1>3. CASE Quit
  BY <1>3 DEF Quit, counters
<1>4. CASE Ask
  BY <1>4 DEF Ask, game, Empty
<1>5. CASE Extract
  BY <1>5 DEF Extract, Goto, updating, Works, game
<1>6. CASE Refuse
  BY <1>6 DEF Refuse, Ends, updating, Works, game
<1>7. CASE Copy
  <2>1. /\ trans' \in Transaction /\ trans' # None /\ trans'.staged # None
        /\ trans'.marker = trans.marker /\ trans'.rollback = trans.rollback
        /\ UNCHANGED <<path, digest, result, failures, updating>>
        /\ update = "copy" /\ update' = "check"
    BY <1>7, CopyFacts
  <2> QED
    BY <2>1 DEF updating
<1>8. CASE Check
  BY <1>8 DEF Check, Goto, Ends, updating, Works, game
<1>9. CASE Mark
  BY <1>9 DEF Mark, Goto, updating, Works, game
<1>10. CASE Marked
  BY <1>10 DEF Marked, Goto, Ends, Fails, updating, Works, game
<1>11. CASE Away
  BY <1>11 DEF Away, Goto, Ends, Fails, updating, Works, game
<1>12. CASE In
  BY <1>12 DEF In, Goto, Fails, updating, Works, game
<1>13. CASE Back
  BY <1>13 DEF Back, Ends, Fails, updating, Works, game
<1>14. CASE Verify
  BY <1>14 DEF Verify, Goto, updating, Works, game
<1>15. CASE Drop
  BY <1>15 DEF Drop, Ends, updating, Works, game
<1>16. CASE Undo
  BY <1>16 DEF Undo, Goto, Keep, Fails, updating, Works, game
<1>17. CASE UndoBack
  BY <1>17 DEF UndoBack, Ends, Keep, Fails, updating, Works, game
<1>18. CASE Cleanup
  BY <1>18 DEF Cleanup, Goto, updating, Works, game
<1>19. CASE Crash
  BY <1>19 DEF Crash
<1>20. CASE Start
  BY <1>20 DEF Start, Works, recovery, game
<1>21. CASE SetAside
  BY <1>21 DEF SetAside, Works, Fails, recovery, Interrupted, game
<1>22. CASE Recover
  BY <1>22 DEF Recover, Works, Fails, recovery, Interrupted, game
<1>23. CASE Discard
  BY <1>23 DEF Discard, Works, recovery, Interrupted, game
<1>24. CASE Stage
  BY <1>24 DEF Stage, Works, Fails, removing, game
<1>25. CASE Mutate
  BY <1>25 DEF Mutate, Works, Fails, removing, game
<1>26. CASE Remove
  BY <1>26 DEF Remove, Works, Fails, removing, game
<1>27. CASE Restore
  BY <1>27 DEF Restore, Works, Fails, removing, game
<1>28. CASE Begin
  BY <1>28 DEF Begin, Empty, counters, game
<1>29. CASE Decline
  BY <1>29 DEF Decline, Keep, Works, updating, game
<1>30. CASE UNCHANGED vars
  BY <1>30 DEF vars, counters, game
<1> QED
  BY <1>1, <1>2, <1>3, <1>4, <1>5, <1>6, <1>7, <1>8, <1>9, <1>10, <1>11, <1>12,
     <1>13, <1>14, <1>15, <1>16, <1>17, <1>18, <1>19, <1>20, <1>21, <1>22, <1>23,
     <1>24, <1>25, <1>26, <1>27, <1>28, <1>29, <1>30 DEF Next, Update, Uninstall

(* Every tree keeps its payload.                                            *)
LEMMA PayloadStep ==
    ASSUME InstallAssumption, NoneAssumption, TypeOK, Bounds, Places, Payloads, [Next]_vars
    PROVE  Payloads'
PROOF
<1> USE DEF Payloads, OnDisk, Places, Removing, Before, Copied, Between,
        Swapped, Bounds, TypeOK, Tree, Transaction, Marker
<1>1. CASE Launch
  BY <1>1 DEF Launch, counters
<1>2. CASE Save
  BY <1>2 DEF Save
<1>3. CASE Quit
  BY <1>3 DEF Quit, counters
<1>4. CASE Ask
  BY <1>4 DEF Ask, game, Empty
<1>5. CASE Extract
  BY <1>5 DEF Extract, Goto, updating, Works, game
<1>6. CASE Refuse
  BY <1>6 DEF Refuse, Ends, updating, Works, game
<1>7. CASE Copy
  <2>1. /\ trans' \in Transaction /\ trans' # None /\ trans'.staged # None
        /\ trans'.staged.payload = updates
        /\ trans'.marker = trans.marker /\ trans'.rollback = trans.rollback
        /\ UNCHANGED <<path, digest, result, failures, updating>>
        /\ update = "copy" /\ update' = "check"
    BY <1>7, CopyFacts
  <2> QED
    BY <2>1 DEF updating
<1>8. CASE Check
  BY <1>8 DEF Check, Goto, Ends, updating, Works, game
<1>9. CASE Mark
  BY <1>9 DEF Mark, Goto, updating, Works, game
<1>10. CASE Marked
  BY <1>10 DEF Marked, Goto, Ends, Fails, updating, Works, game
<1>11. CASE Away
  BY <1>11 DEF Away, Goto, Ends, Fails, updating, Works, game
<1>12. CASE In
  BY <1>12 DEF In, Goto, Fails, updating, Works, game
<1>13. CASE Back
  BY <1>13 DEF Back, Ends, Fails, updating, Works, game
<1>14. CASE Verify
  BY <1>14 DEF Verify, Goto, updating, Works, game
<1>15. CASE Drop
  BY <1>15 DEF Drop, Ends, updating, Works, game
<1>16. CASE Undo
  BY <1>16 DEF Undo, Goto, Keep, Fails, updating, Works, game
<1>17. CASE UndoBack
  BY <1>17 DEF UndoBack, Ends, Keep, Fails, updating, Works, game
<1>18. CASE Cleanup
  BY <1>18 DEF Cleanup, Goto, updating, Works, game
<1>19. CASE Crash
  BY <1>19 DEF Crash
<1>20. CASE Start
  BY <1>20 DEF Start, Works, recovery, game
<1>21. CASE SetAside
  BY <1>21 DEF SetAside, Works, Fails, recovery, Interrupted, game
<1>22. CASE Recover
  BY <1>22 DEF Recover, Works, Fails, recovery, Interrupted, game
<1>23. CASE Discard
  BY <1>23 DEF Discard, Works, recovery, Interrupted, game
<1>24. CASE Stage
  BY <1>24 DEF Stage, Works, Fails, removing, game
<1>25. CASE Mutate
  BY <1>25 DEF Mutate, Works, Fails, removing, game
<1>26. CASE Remove
  BY <1>26 DEF Remove, Works, Fails, removing, game
<1>27. CASE Restore
  BY <1>27 DEF Restore, Works, Fails, removing, game
<1>28. CASE Begin
  BY <1>28 DEF Begin, Empty, counters, game
<1>29. CASE Decline
  BY <1>29 DEF Decline, Keep, Works, updating, game
<1>30. CASE UNCHANGED vars
  BY <1>30 DEF vars, counters, game
<1> QED
  BY <1>1, <1>2, <1>3, <1>4, <1>5, <1>6, <1>7, <1>8, <1>9, <1>10, <1>11, <1>12,
     <1>13, <1>14, <1>15, <1>16, <1>17, <1>18, <1>19, <1>20, <1>21, <1>22, <1>23,
     <1>24, <1>25, <1>26, <1>27, <1>28, <1>29, <1>30 DEF Next, Update, Uninstall

(* A tree without saves is verified before it counts.                       *)
LEMMA SaveStep ==
    ASSUME InstallAssumption, NoneAssumption, TypeOK, Bounds, Places, Markers,
           HaveSaves, [Next]_vars
    PROVE  HaveSaves'
PROOF
<1> USE DEF HaveSaves, Suspect, Keeps, SaveIn, Verified, Markers, Places,
        Removing, Before, Copied, Between, Swapped, Bounds, TypeOK, Tree, Transaction,
        Marker
<1>1. CASE Launch
  BY <1>1 DEF Launch, counters
<1>2. CASE Save
  BY <1>2 DEF Save
<1>3. CASE Quit
  BY <1>3 DEF Quit, counters
<1>4. CASE Ask
  BY <1>4 DEF Ask, game, Empty
<1>5. CASE Extract
  BY <1>5 DEF Extract, Goto, updating, Works, game
<1>6. CASE Refuse
  BY <1>6 DEF Refuse, Ends, updating, Works, game
<1>7. CASE Copy
  <2>1. /\ trans' \in Transaction /\ trans' # None /\ trans'.staged # None
        /\ trans'.marker = trans.marker /\ trans'.rollback = trans.rollback
        /\ UNCHANGED <<path, digest, result, failures, updating>>
        /\ update = "copy" /\ update' = "check"
    BY <1>7, CopyFacts
  <2> QED
    BY <2>1 DEF updating
<1>8. CASE Check
  BY <1>8 DEF Check, Goto, Ends, updating, Works, game
<1>9. CASE Mark
  BY <1>9 DEF Mark, Goto, updating, Works, game
<1>10. CASE Marked
  BY <1>10 DEF Marked, Goto, Ends, Fails, updating, Works, game
<1>11. CASE Away
  BY <1>11 DEF Away, Goto, Ends, Fails, updating, Works, game
<1>12. CASE In
  BY <1>12 DEF In, Goto, Fails, updating, Works, game
<1>13. CASE Back
  BY <1>13 DEF Back, Ends, Fails, updating, Works, game
<1>14. CASE Verify
  BY <1>14 DEF Verify, Goto, updating, Works, game
<1>15. CASE Drop
  BY <1>15 DEF Drop, Ends, updating, Works, game
<1>16. CASE Undo
  BY <1>16 DEF Undo, Goto, Keep, Fails, updating, Works, game
<1>17. CASE UndoBack
  BY <1>17 DEF UndoBack, Ends, Keep, Fails, updating, Works, game
<1>18. CASE Cleanup
  BY <1>18 DEF Cleanup, Goto, updating, Works, game
<1>19. CASE Crash
  BY <1>19 DEF Crash
<1>20. CASE Start
  BY <1>20 DEF Start, Works, recovery, game
<1>21. CASE SetAside
  BY <1>21 DEF SetAside, Works, Fails, recovery, Interrupted, game
<1>22. CASE Recover
  BY <1>22 DEF Recover, Works, Fails, recovery, Interrupted, game
<1>23. CASE Discard
  BY <1>23 DEF Discard, Works, recovery, Interrupted, game
<1>24. CASE Stage
  BY <1>24 DEF Stage, Works, Fails, removing, game
<1>25. CASE Mutate
  BY <1>25 DEF Mutate, Works, Fails, removing, game
<1>26. CASE Remove
  BY <1>26 DEF Remove, Works, Fails, removing, game
<1>27. CASE Restore
  BY <1>27 DEF Restore, Works, Fails, removing, game
<1>28. CASE Begin
  BY <1>28 DEF Begin, Empty, counters, game
<1>29. CASE Decline
  BY <1>29 DEF Decline, Keep, Works, updating, game
<1>30. CASE UNCHANGED vars
  BY <1>30 DEF vars, counters, game
<1> QED
  BY <1>1, <1>2, <1>3, <1>4, <1>5, <1>6, <1>7, <1>8, <1>9, <1>10, <1>11, <1>12,
     <1>13, <1>14, <1>15, <1>16, <1>17, <1>18, <1>19, <1>20, <1>21, <1>22, <1>23,
     <1>24, <1>25, <1>26, <1>27, <1>28, <1>29, <1>30 DEF Next, Update, Uninstall

(* Only a tree the library no longer lists is incomplete.                   *)
LEMMA WholeStep ==
    ASSUME InstallAssumption, NoneAssumption, TypeOK, Places, Bounds, Wholes, [Next]_vars
    PROVE  Wholes'
PROOF
<1> USE DEF Wholes, Places, Removing, Before, Copied, Between, Swapped, Bounds,
        TypeOK, Tree, Transaction, Marker
<1>1. CASE Launch
  BY <1>1 DEF Launch, counters
<1>2. CASE Save
  BY <1>2 DEF Save
<1>3. CASE Quit
  BY <1>3 DEF Quit, counters
<1>4. CASE Ask
  BY <1>4 DEF Ask, game, Empty
<1>5. CASE Extract
  BY <1>5 DEF Extract, Goto, updating, Works, game
<1>6. CASE Refuse
  BY <1>6 DEF Refuse, Ends, updating, Works, game
<1>7. CASE Copy
  <2>1. /\ trans' \in Transaction /\ trans' # None /\ trans'.staged # None
        /\ trans'.staged.whole
        /\ trans'.marker = trans.marker /\ trans'.rollback = trans.rollback
        /\ UNCHANGED <<path, digest, result, failures, updating>>
        /\ update = "copy" /\ update' = "check"
    BY <1>7, CopyFacts
  <2> QED
    BY <2>1 DEF updating
<1>8. CASE Check
  BY <1>8 DEF Check, Goto, Ends, updating, Works, game
<1>9. CASE Mark
  BY <1>9 DEF Mark, Goto, updating, Works, game
<1>10. CASE Marked
  BY <1>10 DEF Marked, Goto, Ends, Fails, updating, Works, game
<1>11. CASE Away
  BY <1>11 DEF Away, Goto, Ends, Fails, updating, Works, game
<1>12. CASE In
  BY <1>12 DEF In, Goto, Fails, updating, Works, game
<1>13. CASE Back
  BY <1>13 DEF Back, Ends, Fails, updating, Works, game
<1>14. CASE Verify
  BY <1>14 DEF Verify, Goto, updating, Works, game
<1>15. CASE Drop
  BY <1>15 DEF Drop, Ends, updating, Works, game
<1>16. CASE Undo
  BY <1>16 DEF Undo, Goto, Keep, Fails, updating, Works, game
<1>17. CASE UndoBack
  BY <1>17 DEF UndoBack, Ends, Keep, Fails, updating, Works, game
<1>18. CASE Cleanup
  BY <1>18 DEF Cleanup, Goto, updating, Works, game
<1>19. CASE Crash
  BY <1>19 DEF Crash
<1>20. CASE Start
  BY <1>20 DEF Start, Works, recovery, game
<1>21. CASE SetAside
  BY <1>21 DEF SetAside, Works, Fails, recovery, Interrupted, game
<1>22. CASE Recover
  BY <1>22 DEF Recover, Works, Fails, recovery, Interrupted, game
<1>23. CASE Discard
  BY <1>23 DEF Discard, Works, recovery, Interrupted, game
<1>24. CASE Stage
  BY <1>24 DEF Stage, Works, Fails, removing, game
<1>25. CASE Mutate
  BY <1>25 DEF Mutate, Works, Fails, removing, game
<1>26. CASE Remove
  BY <1>26 DEF Remove, Works, Fails, removing, game
<1>27. CASE Restore
  BY <1>27 DEF Restore, Works, Fails, removing, game
<1>28. CASE Begin
  BY <1>28 DEF Begin, Empty, counters, game
<1>29. CASE Decline
  BY <1>29 DEF Decline, Keep, Works, updating, game
<1>30. CASE UNCHANGED vars
  BY <1>30 DEF vars, counters, game
<1> QED
  BY <1>1, <1>2, <1>3, <1>4, <1>5, <1>6, <1>7, <1>8, <1>9, <1>10, <1>11, <1>12,
     <1>13, <1>14, <1>15, <1>16, <1>17, <1>18, <1>19, <1>20, <1>21, <1>22, <1>23,
     <1>24, <1>25, <1>26, <1>27, <1>28, <1>29, <1>30 DEF Next, Update, Uninstall

(* A tree with every save that counts stays where it is or is moved.        *)
LEMMA KeptStep ==
    ASSUME InstallAssumption, NoneAssumption, TypeOK, Bounds, Places, Markers,
           HaveSaves, Kept, [Next]_vars
    PROVE  Kept'
PROOF
<1> USE DEF Kept, InPlace, Aside, Good, HaveSaves, Suspect, Keeps, SaveIn,
        Verified, Markers, Places, Removing, Before, Copied, Between, Swapped, Bounds,
        TypeOK, Tree, Transaction, Marker
<1>1. CASE Launch
  BY <1>1 DEF Launch, counters
<1>2. CASE Save
  BY <1>2 DEF Save, AtRisk
<1>3. CASE Quit
  BY <1>3 DEF Quit, counters
<1>4. CASE Ask
  BY <1>4 DEF Ask, game, Empty
<1>5. CASE Extract
  BY <1>5 DEF Extract, Goto, updating, Works, game
<1>6. CASE Refuse
  BY <1>6 DEF Refuse, Ends, updating, Works, game
<1>7. CASE Copy
  <2>1. /\ trans' \in Transaction /\ trans' # None /\ trans'.staged # None
        /\ trans'.marker = trans.marker /\ trans'.rollback = trans.rollback
        /\ UNCHANGED <<path, digest, result, failures, updating>>
        /\ update = "copy" /\ update' = "check"
    BY <1>7, CopyFacts
  <2> QED
    BY <2>1 DEF updating, game
<1>8. CASE Check
  BY <1>8 DEF Check, Goto, Ends, updating, Works, game
<1>9. CASE Mark
  BY <1>9 DEF Mark, Goto, updating, Works, game
<1>10. CASE Marked
  BY <1>10 DEF Marked, Goto, Ends, Fails, updating, Works, game
<1>11. CASE Away
  BY <1>11 DEF Away, Goto, Ends, Fails, updating, Works, game
<1>12. CASE In
  BY <1>12 DEF In, Goto, Fails, updating, Works, game
<1>13. CASE Back
  BY <1>13 DEF Back, Ends, Fails, updating, Works, game
<1>14. CASE Verify
  BY <1>14 DEF Verify, Goto, updating, Works, game
<1>15. CASE Drop
  BY <1>15 DEF Drop, Ends, updating, Works, game
<1>16. CASE Undo
  BY <1>16 DEF Undo, Goto, Keep, Fails, updating, Works, game
<1>17. CASE UndoBack
  BY <1>17 DEF UndoBack, Ends, Keep, Fails, updating, Works, game
<1>18. CASE Cleanup
  BY <1>18 DEF Cleanup, Goto, updating, Works, game
<1>19. CASE Crash
  BY <1>19 DEF Crash
<1>20. CASE Start
  BY <1>20 DEF Start, Works, recovery, game
<1>21. CASE SetAside
  BY <1>21 DEF SetAside, Works, Fails, recovery, Interrupted, game
<1>22. CASE Recover
  BY <1>22 DEF Recover, Works, Fails, recovery, Interrupted, game
<1>23. CASE Discard
  BY <1>23 DEF Discard, Works, recovery, Interrupted, game
<1>24. CASE Stage
  BY <1>24 DEF Stage, Works, Fails, removing, game
<1>25. CASE Mutate
  <2>1. CASE uninstall' = "remove"
    BY <1>25, <2>1 DEF Mutate
  <2>2. CASE uninstall' = "restore"
    <3>1. /\ failures' = failures + 1 /\ listed' = listed /\ uninstall = "mutate"
          /\ UNCHANGED <<path, pending, trans, update, digest, safe>>
      BY <1>25, <2>2 DEF Mutate, Fails, removing, game
    <3> QED
      BY <2>2, <3>1
  <2> QED
    BY <1>25, <2>1, <2>2 DEF Mutate
<1>26. CASE Remove
  BY <1>26 DEF Remove, Works, Fails, removing, game
<1>27. CASE Restore
  BY <1>27 DEF Restore, Works, Fails, removing, game
<1>28. CASE Begin
  BY <1>28 DEF Begin, Empty, counters, game
<1>29. CASE Decline
  BY <1>29 DEF Decline, Keep, Works, updating, game
<1>30. CASE UNCHANGED vars
  BY <1>30 DEF vars, counters, game
<1> QED
  BY <1>1, <1>2, <1>3, <1>4, <1>5, <1>6, <1>7, <1>8, <1>9, <1>10, <1>11, <1>12,
     <1>13, <1>14, <1>15, <1>16, <1>17, <1>18, <1>19, <1>20, <1>21, <1>22, <1>23,
     <1>24, <1>25, <1>26, <1>27, <1>28, <1>29, <1>30 DEF Next, Update, Uninstall

(* What puts the game back is never given up.                               *)
LEMMA RepairStep ==
    ASSUME InstallAssumption, NoneAssumption, TypeOK, Bounds, Places, Markers,
           Repairable, [Next]_vars
    PROVE  Repairable'
PROOF
<1> USE DEF Repairable, Keeps, Markers, Places, Removing, Before, Copied,
        Between, Swapped, Bounds, TypeOK, Tree, Transaction, Marker
<1>1. CASE Launch
  BY <1>1 DEF Launch, counters
<1>2. CASE Save
  BY <1>2 DEF Save
<1>3. CASE Quit
  BY <1>3 DEF Quit, counters
<1>4. CASE Ask
  BY <1>4 DEF Ask, game, Empty
<1>5. CASE Extract
  BY <1>5 DEF Extract, Goto, updating, Works, game
<1>6. CASE Refuse
  BY <1>6 DEF Refuse, Ends, updating, Works, game
<1>7. CASE Copy
  <2>1. /\ trans' \in Transaction /\ trans' # None /\ trans'.staged # None
        /\ trans'.marker = trans.marker /\ trans'.rollback = trans.rollback
        /\ UNCHANGED <<path, digest, result, failures, updating>>
        /\ update = "copy" /\ update' = "check"
    BY <1>7, CopyFacts
  <2> QED
    BY <2>1 DEF updating
<1>8. CASE Check
  BY <1>8 DEF Check, Goto, Ends, updating, Works, game
<1>9. CASE Mark
  BY <1>9 DEF Mark, Goto, updating, Works, game
<1>10. CASE Marked
  BY <1>10 DEF Marked, Goto, Ends, Fails, updating, Works, game
<1>11. CASE Away
  BY <1>11 DEF Away, Goto, Ends, Fails, updating, Works, game
<1>12. CASE In
  BY <1>12 DEF In, Goto, Fails, updating, Works, game
<1>13. CASE Back
  BY <1>13 DEF Back, Ends, Fails, updating, Works, game
<1>14. CASE Verify
  BY <1>14 DEF Verify, Goto, updating, Works, game
<1>15. CASE Drop
  BY <1>15 DEF Drop, Ends, updating, Works, game
<1>16. CASE Undo
  BY <1>16 DEF Undo, Goto, Keep, Fails, updating, Works, game
<1>17. CASE UndoBack
  BY <1>17 DEF UndoBack, Ends, Keep, Fails, updating, Works, game
<1>18. CASE Cleanup
  BY <1>18 DEF Cleanup, Goto, updating, Works, game
<1>19. CASE Crash
  BY <1>19 DEF Crash
<1>20. CASE Start
  BY <1>20 DEF Start, Works, recovery, game
<1>21. CASE SetAside
  BY <1>21 DEF SetAside, Works, Fails, recovery, Interrupted, game
<1>22. CASE Recover
  BY <1>22 DEF Recover, Works, Fails, recovery, Interrupted, game
<1>23. CASE Discard
  BY <1>23 DEF Discard, Works, recovery, Interrupted, game
<1>24. CASE Stage
  BY <1>24 DEF Stage, Works, Fails, removing, game
<1>25. CASE Mutate
  BY <1>25 DEF Mutate, Works, Fails, removing, game
<1>26. CASE Remove
  BY <1>26 DEF Remove, Works, Fails, removing, game
<1>27. CASE Restore
  BY <1>27 DEF Restore, Works, Fails, removing, game
<1>28. CASE Begin
  BY <1>28 DEF Begin, Empty, counters, game
<1>29. CASE Decline
  BY <1>29 DEF Decline, Keep, Works, updating, game
<1>30. CASE UNCHANGED vars
  BY <1>30 DEF vars, counters, game
<1> QED
  BY <1>1, <1>2, <1>3, <1>4, <1>5, <1>6, <1>7, <1>8, <1>9, <1>10, <1>11, <1>12,
     <1>13, <1>14, <1>15, <1>16, <1>17, <1>18, <1>19, <1>20, <1>21, <1>22, <1>23,
     <1>24, <1>25, <1>26, <1>27, <1>28, <1>29, <1>30 DEF Next, Update, Uninstall

-----------------------------------------------------------------------------
(* The inductive invariant holds throughout.                                *)
THEOREM Inductive == Spec => []IInv
PROOF
<1>1. Init => IInv
  <2> SUFFICES ASSUME Init PROVE IInv
    OBVIOUS
  <2> USE InstallAssumption, NoneAssumption DEF Init
  <2>1. 0 \in 0..MaxUpdates /\ 0 \in 0..MaxSaves /\ 0 \in -1..MaxSaves
        /\ -1 \in -1..MaxSaves /\ 0 \in 0..MaxFailures /\ 0 \in 0..MaxCrashes
    BY DEF InstallAssumption
  <2>2. path \in Tree /\ path.payload = 0 /\ path.save = 0 /\ path.whole
    BY <2>1 DEF Tree
  <2>3. path # None
    BY <2>2 DEF NoneAssumption
  <2>4. TypeOK
    <3>1. {playing, tracked} \subseteq BOOLEAN
      BY Zenon
    <3>2. safe \in 0..saves
      OBVIOUS
    <3> QED
      BY <2>1, <2>2, <3>1, <3>2 DEF TypeOK
  <2>5. Bounds
    BY <2>1 DEF Bounds
  <2>6. Places /\ Markers /\ Payloads
    BY DEF Places, Markers, Payloads, Removing, Keeps, Before, Between, Swapped,
       Copied
  <2>7. HaveSaves /\ Wholes /\ Kept /\ Repairable
    BY <2>2, <2>3 DEF HaveSaves, Wholes, Kept, Repairable, Removing, Keeps, Suspect,
       InPlace, Good, Verified
  <2> QED
    BY <2>4, <2>5, <2>6, <2>7 DEF IInv
<1>2. IInv /\ [Next]_vars => IInv'
  BY InstallAssumption, NoneAssumption, TypeStep, BoundStep, PlaceStep,
     MarkerStep, PayloadStep, SaveStep, WholeStep, KeptStep, RepairStep DEF IInv
<1> QED
  BY <1>1, <1>2, PTL DEF Spec

(* Every variable keeps its type, and an update has its transaction.        *)
THEOREM TypeInvariant == Spec => []TypeOK
BY Inductive, PTL DEF IInv

(* While the library lists the game, and not more than one file operation   *)
(* has failed, a complete installation with every save that counts is on    *)
(* disk: whatever GameArchiveUpdater, recover_incomplete_game_updates and   *)
(* GameLifecycleService do to it, and wherever the program crashes.         *)
THEOREM NothingIsLost == Spec => [](failures <= 1 => NothingLost)
PROOF
<1>1. IInv => (failures <= 1 => NothingLost)
  <2> SUFFICES ASSUME IInv, failures <= 1, listed
               PROVE  \E tree \in Trees \ {None} : tree.whole /\ tree.save >= safe
    BY DEF NothingLost
  <2>1. Wholes /\ Kept
    BY DEF IInv
  <2>2. CASE Good(path)
    BY <2>1, <2>2 DEF Good, Wholes, Trees
  <2>3. CASE Good(pending)
    BY <2>1, <2>3 DEF Good, Wholes, Trees
  <2>4. CASE Keeps /\ Good(trans.rollback)
    BY <2>1, <2>4 DEF Good, Wholes, Trees, Keeps
  <2> QED
    BY <2>1, <2>2, <2>3, <2>4 DEF Kept, InPlace, Aside
<1> QED
  BY <1>1, Inductive, PTL

(* An update that was interrupted is recovered when the program starts, in  *)
(* the directory that recovery looks through                                *)
(* (recover_incomplete_game_updates).                                       *)
THEOREM InterruptedIsRepaired ==
  ASSUME Recovers
  PROVE  Spec => []InterruptedIsRecovered
PROOF
<1>1. IInv => InterruptedIsRecovered
  BY Recovers DEF IInv, Repairable, InterruptedIsRecovered, Between
<1> QED
  BY <1>1, Inductive, PTL

(* An update that reports success has left the new payload in place and one *)
(* that reports failure the old one (GameArchiveUpdater.update).            *)
THEOREM UpdateIsAtomic == Spec => []AllOrNothing
PROOF
<1>1. IInv => AllOrNothing
  BY DEF IInv, Payloads, OnDisk, AllOrNothing
<1> QED
  BY <1>1, Inductive, PTL

================================================================================
