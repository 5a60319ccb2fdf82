--------------------------- MODULE SaveRestoreProofs ---------------------------
(***************************************************************************)
(* That a restore never loses a file it found, for every set of files and  *)
(* every number of writes by the game.  The four properties of a restore   *)
(* follow together from one inductive invariant: where the call is         *)
(* (Control), where the content of a file the game leaves alone is at that *)
(* point (Held), and what the current loop has done so far (Progress).     *)
(***************************************************************************)
EXTENDS SaveRestore, TLAPS

Early == {"start", "validate", "recheck", "pack"}
Importing == {"stage", "apply", "undo", "verify"}

(* Where the call is decides which import is running, what the rollback    *)
(* directory may hold and whether there is a safety backup.                *)
Control ==
    /\ phase = "end" <=> outcome # "none"
    /\ phase \in Early =>
           /\ source = "archive" /\ imported = {} /\ rollback = Nothing
           /\ ~protected /\ ~stuck
    /\ phase \in Early \ {"pack"} => backup = Nothing
    /\ phase \in (Early \ {"pack"}) \cup {"stage"} => current = NoFile
    /\ phase = "stage" => rollback = Nothing /\ ~stuck
    /\ phase = "apply" =>
           /\ ~stuck
           /\ todo \cup replaced = Planned /\ todo \cap replaced = {}
           /\ current \in todo \cup {NoFile}
    /\ phase = "verify" =>
           /\ source = "archive" /\ rollback = Nothing /\ current = NoFile /\ ~stuck
           /\ "archive" \in imported /\ scope.manifest
    /\ source = "backup" => protected /\ "archive" \in imported
    /\ source = "archive" /\ phase \in {"stage", "apply", "undo"} => imported = {}
    /\ "backup" \in imported => ~Running
    /\ phase \in Importing \/ "archive" \in imported => (Located => protected)

(* Where a file the game has not touched is.                               *)
HeldAt(f) ==
    /\ phase \in Early \/ (phase = "stage" /\ source = "archive") =>
           live[f] = before[f]
    /\ phase = "apply" /\ source = "archive" =>
           IF f \in replaced \cup {current}
              THEN rollback[f] = before[f] /\ (f = current => live[f] = Absent)
              ELSE live[f] = before[f] /\ rollback[f] = Absent
    /\ phase = "undo" /\ source = "archive" =>
           /\ rollback[f] \in {Absent, before[f]}
           /\ live[f] = before[f] \/ rollback[f] = before[f]
           /\ f \in replaced => rollback[f] = before[f]
           /\ ~stuck /\ f \notin replaced \cup todo => live[f] = before[f]
    /\ f \in scope.covered /\ (phase \in {"recheck", "pack"} \/ protected) =>
           snapshot[f] = before[f]

Held == \A f \in File \ touched : HeldAt(f)

(* What the loop of the current phase has done with the files it visited.  *)
Packed ==
    phase = "pack" => \A f \in scope.covered :
        IF f \in todo THEN backup[f] = Absent
        ELSE backup[f] = snapshot[f] \/ (backup[f] = Absent /\ f \in touched)

Progress ==
    /\ Packed
    /\ phase = "apply" => \A f \in replaced \ touched : live[f] = Incoming(f)
    /\ phase = "undo" => /\ todo \subseteq Originals
                         /\ ~stuck => todo = Originals
    /\ phase = "verify" => \A f \in scope.packed \ todo : live[f] = Archived \/ f \in late

IInv ==
    /\ TypeOK /\ Control /\ Held /\ Progress
    /\ Recoverable /\ BackupIsSnapshot /\ FailureRestores /\ SuccessIsVerified

(* What a file may hold. *)
LEMMA ContentFacts ==
    /\ Absent \in Content /\ Original \in Content /\ Archived \in Content
    /\ \A n \in 1..MaxWrites : Played(n) \in Content
BY RestoreAssumption DEF Content, Absent, Original, Archived, Played

(* Every step keeps the types. *)
LEMMA TypeStep ==
    ASSUME TypeOK, [Next]_vars
    PROVE  TypeOK'
PROOF
<1> USE RestoreAssumption, ContentFacts DEF vars, inputs, packing, importing,
        game, End, Go, TypeOK, Nothing
<1>1. CASE Start
    BY <1>1 DEF Start, Located
<1>2. CASE Validate
    BY <1>2 DEF Validate
<1>3. CASE Recheck
    BY <1>3 DEF Recheck, Scope
<1>4. CASE ConfirmFile
    BY <1>4 DEF ConfirmFile, ExportFails, Matches
<1>5. CASE Publish
    BY <1>5 DEF Publish, ExportFails
<1>6. CASE Stage
    BY <1>6 DEF Stage, ImportFails, CancelSeen, Planned, Scope
<1>7. CASE Install
    BY <1>7 DEF Install, Incoming, Planned
<1>8. CASE Abort
    BY <1>8 DEF Abort, Originals
<1>9. CASE Undone
    BY <1>9 DEF Undone, Cleanup, ImportFails, CancelSeen
<1>10. CASE Applied
    BY <1>10 DEF Applied, Cleanup, Planned, Scope
<1>11. CASE Verified
    BY <1>11 DEF Verified
<1>12. ASSUME NEW f \in File, PackFile(f) PROVE TypeOK'
    BY <1>12 DEF PackFile, ExportFails, Matches
<1>13. ASSUME NEW f \in File, Displace(f) PROVE TypeOK'
  <2>1. live[f] \in Content
    OBVIOUS
  <2>2. /\ rollback' = [rollback EXCEPT ![f] = live[f]]
        /\ live' = [live EXCEPT ![f] = Absent] /\ current' = f
        /\ UNCHANGED <<scope, before, snapshot, backup, protected, phase, todo,
                       source, replaced, stuck, imported, cancelled, outcome,
                       writes, touched, late>>
    BY <1>13 DEF Displace
  <2> QED
    BY <2>1, <2>2
<1>14. ASSUME NEW f \in File, Remove(f) PROVE TypeOK'
  <2>0. \/ live' = [live EXCEPT ![f] = Absent] /\ UNCHANGED stuck
        \/ stuck' = TRUE /\ UNCHANGED live
    BY <1>14 DEF Remove
  <2>1. live' \in [File -> Content] /\ stuck' \in BOOLEAN
    <3>1. [live EXCEPT ![f] = Absent] \in [File -> Content]
      OBVIOUS
    <3> QED
      BY <2>0, <3>1
  <2>2. replaced' \subseteq File
    BY <1>14 DEF Remove
  <2>3. UNCHANGED <<scope, before, snapshot, backup, protected, phase, todo, current,
                    source, rollback, imported, cancelled, outcome, writes, touched,
                    late>>
    BY <1>14 DEF Remove
  <2> QED
    BY <2>1, <2>2, <2>3
<1>15. ASSUME NEW f \in File, PutBack(f) PROVE TypeOK'
  <2>1. rollback[f] \in Content
    OBVIOUS
  <2>2. live' \in [File -> Content] /\ rollback' \in [File -> Content]
    BY <1>15, <2>1 DEF PutBack
  <2> QED
    BY <1>15, <2>2 DEF PutBack
<1>16. ASSUME NEW f \in File, VerifyFile(f) PROVE TypeOK'
    BY <1>16 DEF VerifyFile, Rejected
<1>17. ASSUME NEW f \in File, GameWrites(f) PROVE TypeOK'
    BY <1>17 DEF GameWrites, Planned
<1>18. ASSUME NEW f \in File, GameDeletes(f) PROVE TypeOK'
    BY <1>18 DEF GameDeletes, Planned
<1>19. CASE Cancel
    BY <1>19 DEF Cancel
<1>20. CASE Crash
    BY <1>20 DEF Crash
<1>21. CASE UNCHANGED vars
    BY <1>21
<1> QED
    BY <1>1, <1>2, <1>3, <1>4, <1>5, <1>6, <1>7, <1>8, <1>9, <1>10, <1>11, <1>12,
       <1>13, <1>14, <1>15, <1>16, <1>17, <1>18, <1>19, <1>20, <1>21 DEF Next

(* Every step keeps the control. *)
LEMMA ControlStep ==
    ASSUME TypeOK, Control, [Next]_vars
    PROVE  Control'
PROOF
<1> USE RestoreAssumption DEF vars, inputs, packing, importing, game, End, Go,
        TypeOK, Control, Early, Importing, Running, Located, Planned
<1>1. CASE Start
    BY <1>1 DEF Start, Located
<1>2. CASE Validate
    BY <1>2 DEF Validate
<1>3. CASE Recheck
    BY <1>3 DEF Recheck
<1>4. CASE ConfirmFile
    BY <1>4 DEF ConfirmFile, ExportFails, Matches
<1>5. CASE Publish
    BY <1>5 DEF Publish, ExportFails
<1>6. CASE Stage
    BY <1>6 DEF Stage, ImportFails, CancelSeen, Planned
<1>7. CASE Install
    BY <1>7 DEF Install, Incoming, Planned
<1>8. CASE Abort
    BY <1>8 DEF Abort, Originals
<1>9. CASE Undone
    BY <1>9 DEF Undone, Cleanup, ImportFails, CancelSeen
<1>10. CASE Applied
    BY <1>10 DEF Applied, Cleanup, Planned
<1>11. CASE Verified
    BY <1>11 DEF Verified
<1>12. ASSUME NEW f \in File, PackFile(f) PROVE Control'
    BY <1>12 DEF PackFile, ExportFails, Matches
<1>13. ASSUME NEW f \in File, Displace(f) PROVE Control'
    BY <1>13 DEF Displace, CancelSeen, Planned
<1>14. ASSUME NEW f \in File, Remove(f) PROVE Control'
    BY <1>14 DEF Remove
<1>15. ASSUME NEW f \in File, PutBack(f) PROVE Control'
    BY <1>15 DEF PutBack
<1>16. ASSUME NEW f \in File, VerifyFile(f) PROVE Control'
    BY <1>16 DEF VerifyFile, Rejected
<1>17. ASSUME NEW f \in File, GameWrites(f) PROVE Control'
    BY <1>17 DEF GameWrites, Planned
<1>18. ASSUME NEW f \in File, GameDeletes(f) PROVE Control'
    BY <1>18 DEF GameDeletes, Planned
<1>19. CASE Cancel
    BY <1>19 DEF Cancel
<1>20. CASE Crash
    BY <1>20 DEF Crash
<1>21. CASE UNCHANGED vars
    BY <1>21
<1> QED
    BY <1>1, <1>2, <1>3, <1>4, <1>5, <1>6, <1>7, <1>8, <1>9, <1>10, <1>11, <1>12,
       <1>13, <1>14, <1>15, <1>16, <1>17, <1>18, <1>19, <1>20, <1>21 DEF Next

(* A step leaves every file the game has not touched where Held says.      *)
LEMMA HeldStep ==
    ASSUME TypeOK, Control, Held, Progress, [Next]_vars
    PROVE  Held'
PROOF
<1> USE RestoreAssumption DEF vars, inputs, packing, importing, game, End, Go,
        TypeOK, Control, Early, Importing, Held, HeldAt, Nothing
<1>1. CASE Start
    BY <1>1 DEF Start, Located
<1>2. CASE Validate
    BY <1>2 DEF Validate
<1>3. CASE Recheck
    BY <1>3 DEF Recheck
<1>4. CASE ConfirmFile
    BY <1>4 DEF ConfirmFile, ExportFails, Matches
<1>5. CASE Publish
    BY <1>5 DEF Publish, ExportFails
<1>6. CASE Stage
    BY <1>6 DEF Stage, ImportFails, CancelSeen, Planned
<1>7. CASE Install
    BY <1>7 DEF Install, Incoming, Planned
<1>8. CASE Abort
    BY <1>8 DEF Abort, Originals, Progress
<1>9. CASE Undone
    BY <1>9 DEF Undone, Cleanup, ImportFails, CancelSeen
<1>10. CASE Applied
    BY <1>10 DEF Applied, Cleanup, Planned
<1>11. CASE Verified
    BY <1>11 DEF Verified
<1>12. ASSUME NEW f \in File, PackFile(f) PROVE Held'
    BY <1>12 DEF PackFile, ExportFails, Matches
<1>13. ASSUME NEW f \in File, Displace(f) PROVE Held'
    BY <1>13 DEF Displace, CancelSeen, Planned
<1>14. ASSUME NEW f \in File, Remove(f) PROVE Held'
    BY <1>14 DEF Remove, Progress, Originals
<1>15. ASSUME NEW f \in File, PutBack(f) PROVE Held'
    BY <1>15 DEF PutBack, Progress, Originals
<1>16. ASSUME NEW f \in File, VerifyFile(f) PROVE Held'
    BY <1>16 DEF VerifyFile, Rejected
<1>17. ASSUME NEW f \in File, GameWrites(f) PROVE Held'
    BY <1>17 DEF GameWrites, Planned
<1>18. ASSUME NEW f \in File, GameDeletes(f) PROVE Held'
    BY <1>18 DEF GameDeletes, Planned
<1>19. CASE Cancel
    BY <1>19 DEF Cancel
<1>20. CASE Crash
    BY <1>20 DEF Crash
<1>21. CASE UNCHANGED vars
    BY <1>21
<1> QED
    BY <1>1, <1>2, <1>3, <1>4, <1>5, <1>6, <1>7, <1>8, <1>9, <1>10, <1>11, <1>12,
       <1>13, <1>14, <1>15, <1>16, <1>17, <1>18, <1>19, <1>20, <1>21 DEF Next

(* Every step keeps the account of the current loop.                        *)
LEMMA ProgressStep ==
    ASSUME TypeOK, Control, Held, Progress, [Next]_vars
    PROVE  Progress'
PROOF
<1> USE RestoreAssumption DEF vars, inputs, packing, importing, game, End, Go,
        TypeOK, Control, Early, Importing, Progress, Packed,
            Incoming, Originals
<1>1. CASE Start
    BY <1>1 DEF Start, Located
<1>2. CASE Validate
    BY <1>2 DEF Validate
<1>3. CASE Recheck
    BY <1>3 DEF Recheck, Nothing, Scope
<1>4. CASE ConfirmFile
    BY <1>4 DEF ConfirmFile, ExportFails, Matches
<1>5. CASE Publish
    BY <1>5 DEF Publish, ExportFails
<1>6. CASE Stage
    BY <1>6 DEF Stage, ImportFails, CancelSeen, Planned
<1>7. CASE Install
    BY <1>7 DEF Install, Incoming, Planned
<1>8. CASE Abort
    BY <1>8 DEF Abort
<1>9. CASE Undone
    BY <1>9 DEF Undone, Cleanup, ImportFails, CancelSeen
<1>10. CASE Applied
    BY <1>10 DEF Applied, Cleanup, Planned
<1>11. CASE Verified
    BY <1>11 DEF Verified
<1>12. ASSUME NEW f \in File, PackFile(f) PROVE Progress'
  <2>1. f \in scope.covered /\ f \notin touched => live[f] = snapshot[f]
    BY <1>12 DEF PackFile, Held, HeldAt
  <2>2. ASSUME phase' = "pack", NEW g \in scope.covered
        PROVE  IF g \in todo' THEN backup'[g] = Absent
               ELSE backup'[g] = snapshot[g] \/ (backup'[g] = Absent /\ g \in touched)
    <3>1. g \in File
      BY DEF Scope
    <3>2. CASE g = f
      BY <1>12, <2>1, <2>2, <3>2 DEF PackFile, ExportFails, Matches
    <3>3. CASE g # f
      BY <1>12, <2>2, <3>1, <3>3 DEF PackFile, ExportFails
    <3> QED
      BY <3>2, <3>3
  <2> QED
    BY <1>12, <2>2 DEF PackFile, ExportFails
<1>13. ASSUME NEW f \in File, Displace(f) PROVE Progress'
    BY <1>13 DEF Displace, CancelSeen, Planned
<1>14. ASSUME NEW f \in File, Remove(f) PROVE Progress'
    BY <1>14 DEF Remove
<1>15. ASSUME NEW f \in File, PutBack(f) PROVE Progress'
    BY <1>15 DEF PutBack
<1>16. ASSUME NEW f \in File, VerifyFile(f) PROVE Progress'
    BY <1>16 DEF VerifyFile, Rejected
<1>17. ASSUME NEW f \in File, GameWrites(f) PROVE Progress'
    BY <1>17 DEF GameWrites, Planned
<1>18. ASSUME NEW f \in File, GameDeletes(f) PROVE Progress'
    BY <1>18 DEF GameDeletes, Planned
<1>19. CASE Cancel
    BY <1>19 DEF Cancel
<1>20. CASE Crash
    BY <1>20 DEF Crash
<1>21. CASE UNCHANGED vars
    BY <1>21
<1> QED
    BY <1>1, <1>2, <1>3, <1>4, <1>5, <1>6, <1>7, <1>8, <1>9, <1>10, <1>11, <1>12,
       <1>13, <1>14, <1>15, <1>16, <1>17, <1>18, <1>19, <1>20, <1>21 DEF Next

(* Every step leaves each file it found where it can be recovered.         *)
LEMMA RecoverableStep ==
    ASSUME IInv, [Next]_vars
    PROVE  Recoverable'
PROOF
<1> USE RestoreAssumption DEF vars, inputs, packing, importing, game, End, Go,
        IInv, TypeOK, Control, Early,
            Importing, Recoverable, Held, HeldAt, Located, BackupIsSnapshot, Nothing
<1>1. CASE Start
    BY <1>1 DEF Start, Located
<1>2. CASE Validate
    BY <1>2 DEF Validate
<1>3. CASE Recheck
    BY <1>3 DEF Recheck
<1>4. CASE ConfirmFile
    BY <1>4 DEF ConfirmFile, ExportFails, Matches
<1>5. CASE Publish
    BY <1>5 DEF Publish, ExportFails
<1>6. CASE Stage
    BY <1>6 DEF Stage, ImportFails, CancelSeen, Planned
<1>7. CASE Install
    BY <1>7 DEF Install, Incoming, Planned
<1>8. CASE Abort
    BY <1>8 DEF Abort, Originals
<1>9. CASE Undone
    BY <1>9 DEF Undone, Cleanup, ImportFails, CancelSeen, Progress
<1>10. CASE Applied
    BY <1>10 DEF Applied, Cleanup, Planned
<1>11. CASE Verified
    BY <1>11 DEF Verified
<1>12. ASSUME NEW f \in File, PackFile(f) PROVE Recoverable'
    BY <1>12 DEF PackFile, ExportFails, Matches
<1>13. ASSUME NEW f \in File, Displace(f) PROVE Recoverable'
    BY <1>13 DEF Displace, CancelSeen, Planned
<1>14. ASSUME NEW f \in File, Remove(f) PROVE Recoverable'
    BY <1>14 DEF Remove
<1>15. ASSUME NEW f \in File, PutBack(f) PROVE Recoverable'
    BY <1>15 DEF PutBack, Progress, Originals
<1>16. ASSUME NEW f \in File, VerifyFile(f) PROVE Recoverable'
    BY <1>16 DEF VerifyFile, Rejected
<1>17. ASSUME NEW f \in File, GameWrites(f) PROVE Recoverable'
    BY <1>17 DEF GameWrites, Planned
<1>18. ASSUME NEW f \in File, GameDeletes(f) PROVE Recoverable'
    BY <1>18 DEF GameDeletes, Planned
<1>19. CASE Cancel
    BY <1>19 DEF Cancel
<1>20. CASE Crash
    BY <1>20 DEF Crash
<1>21. CASE UNCHANGED vars
    BY <1>21
<1> QED
    BY <1>1, <1>2, <1>3, <1>4, <1>5, <1>6, <1>7, <1>8, <1>9, <1>10, <1>11, <1>12,
       <1>13, <1>14, <1>15, <1>16, <1>17, <1>18, <1>19, <1>20, <1>21 DEF Next

(* Every step keeps the safety backup what validation saw.                 *)
LEMMA BackupStep ==
    ASSUME IInv, [Next]_vars
    PROVE  BackupIsSnapshot'
PROOF
<1> USE RestoreAssumption DEF vars, inputs, packing, importing, game, End, Go,
        IInv, TypeOK, Control, Early,
            Importing, BackupIsSnapshot
<1>1. CASE Start
    BY <1>1 DEF Start, Located
<1>2. CASE Validate
    BY <1>2 DEF Validate
<1>3. CASE Recheck
    BY <1>3 DEF Recheck
<1>4. CASE ConfirmFile
    BY <1>4 DEF ConfirmFile, ExportFails, Matches
<1>5. CASE Publish
    BY <1>5 DEF Publish, ExportFails, Progress, Packed
<1>6. CASE Stage
    BY <1>6 DEF Stage, ImportFails, CancelSeen, Planned
<1>7. CASE Install
    BY <1>7 DEF Install, Incoming, Planned
<1>8. CASE Abort
    BY <1>8 DEF Abort, Originals
<1>9. CASE Undone
    BY <1>9 DEF Undone, Cleanup, ImportFails, CancelSeen
<1>10. CASE Applied
    BY <1>10 DEF Applied, Cleanup, Planned
<1>11. CASE Verified
    BY <1>11 DEF Verified
<1>12. ASSUME NEW f \in File, PackFile(f) PROVE BackupIsSnapshot'
    BY <1>12 DEF PackFile, ExportFails, Matches
<1>13. ASSUME NEW f \in File, Displace(f) PROVE BackupIsSnapshot'
    BY <1>13 DEF Displace, CancelSeen, Planned
<1>14. ASSUME NEW f \in File, Remove(f) PROVE BackupIsSnapshot'
    BY <1>14 DEF Remove
<1>15. ASSUME NEW f \in File, PutBack(f) PROVE BackupIsSnapshot'
    BY <1>15 DEF PutBack
<1>16. ASSUME NEW f \in File, VerifyFile(f) PROVE BackupIsSnapshot'
    BY <1>16 DEF VerifyFile, Rejected
<1>17. ASSUME NEW f \in File, GameWrites(f) PROVE BackupIsSnapshot'
    BY <1>17 DEF GameWrites, Planned
<1>18. ASSUME NEW f \in File, GameDeletes(f) PROVE BackupIsSnapshot'
    BY <1>18 DEF GameDeletes, Planned
<1>19. CASE Cancel
    BY <1>19 DEF Cancel
<1>20. CASE Crash
    BY <1>20 DEF Crash
<1>21. CASE UNCHANGED vars
    BY <1>21
<1> QED
    BY <1>1, <1>2, <1>3, <1>4, <1>5, <1>6, <1>7, <1>8, <1>9, <1>10, <1>11, <1>12,
       <1>13, <1>14, <1>15, <1>16, <1>17, <1>18, <1>19, <1>20, <1>21 DEF Next

(* Every step that fails the restore has restored the files.               *)
LEMMA FailureStep ==
    ASSUME IInv, [Next]_vars
    PROVE  FailureRestores'
PROOF
<1> USE RestoreAssumption DEF vars, inputs, packing, importing, game, End, Go,
        IInv, TypeOK, Control, Early,
            Importing, FailureRestores, Held, HeldAt, Running
<1>1. CASE Start
    BY <1>1 DEF Start, Located
<1>2. CASE Validate
    BY <1>2 DEF Validate
<1>3. CASE Recheck
    BY <1>3 DEF Recheck
<1>4. CASE ConfirmFile
    BY <1>4 DEF ConfirmFile, ExportFails, Matches
<1>5. CASE Publish
    BY <1>5 DEF Publish, ExportFails
<1>6. CASE Stage
    BY <1>6 DEF Stage, ImportFails, CancelSeen, Planned
<1>7. CASE Install
    BY <1>7 DEF Install, Incoming, Planned
<1>8. CASE Abort
    BY <1>8 DEF Abort, Originals
<1>9. CASE Undone
    BY <1>9 DEF Undone, Cleanup, ImportFails, CancelSeen
<1>10. CASE Applied
  <2>1. CASE source = "archive"
    BY <1>10, <2>1 DEF Applied
  <2>2. CASE source = "backup"
    <3>1. ASSUME NEW g \in scope.covered \ touched, before[g] = Original
          PROVE  live[g] = Original
      <4>1. g \in File \ touched
        BY DEF Scope
      <4>2. backup[g] = Original
        BY <2>2, <3>1, <4>1 DEF BackupIsSnapshot
      <4>3. g \in replaced
        BY <1>10, <2>2, <4>1, <4>2 DEF Applied, Planned, Original, Absent
      <4> QED
        BY <1>10, <2>2, <4>2, <4>3 DEF Applied, Progress, Incoming
    <3> QED
      BY <1>10, <2>2, <3>1 DEF Applied
  <2> QED
    BY <2>1, <2>2
<1>11. CASE Verified
    BY <1>11 DEF Verified
<1>12. ASSUME NEW f \in File, PackFile(f) PROVE FailureRestores'
    BY <1>12 DEF PackFile, ExportFails, Matches
<1>13. ASSUME NEW f \in File, Displace(f) PROVE FailureRestores'
    BY <1>13 DEF Displace, CancelSeen, Planned
<1>14. ASSUME NEW f \in File, Remove(f) PROVE FailureRestores'
    BY <1>14 DEF Remove
<1>15. ASSUME NEW f \in File, PutBack(f) PROVE FailureRestores'
    BY <1>15 DEF PutBack
<1>16. ASSUME NEW f \in File, VerifyFile(f) PROVE FailureRestores'
    BY <1>16 DEF VerifyFile, Rejected
<1>17. ASSUME NEW f \in File, GameWrites(f) PROVE FailureRestores'
    BY <1>17 DEF GameWrites, Planned
<1>18. ASSUME NEW f \in File, GameDeletes(f) PROVE FailureRestores'
    BY <1>18 DEF GameDeletes, Planned
<1>19. CASE Cancel
    BY <1>19 DEF Cancel
<1>20. CASE Crash
    BY <1>20 DEF Crash
<1>21. CASE UNCHANGED vars
    BY <1>21
<1> QED
    BY <1>1, <1>2, <1>3, <1>4, <1>5, <1>6, <1>7, <1>8, <1>9, <1>10, <1>11, <1>12,
       <1>13, <1>14, <1>15, <1>16, <1>17, <1>18, <1>19, <1>20, <1>21 DEF Next

(* Every step that reports success has placed the archive.                 *)
LEMMA SuccessStep ==
    ASSUME IInv, [Next]_vars
    PROVE  SuccessIsVerified'
PROOF
<1> USE RestoreAssumption DEF vars, inputs, packing, importing, game, End, Go,
        IInv, TypeOK, Control, Early,
            Importing, SuccessIsVerified, Running
<1>1. CASE Start
    BY <1>1 DEF Start, Located
<1>2. CASE Validate
    BY <1>2 DEF Validate
<1>3. CASE Recheck
    BY <1>3 DEF Recheck
<1>4. CASE ConfirmFile
    BY <1>4 DEF ConfirmFile, ExportFails, Matches
<1>5. CASE Publish
    BY <1>5 DEF Publish, ExportFails
<1>6. CASE Stage
    BY <1>6 DEF Stage, ImportFails, CancelSeen, Planned
<1>7. CASE Install
    BY <1>7 DEF Install, Incoming, Planned
<1>8. CASE Abort
    BY <1>8 DEF Abort, Originals
<1>9. CASE Undone
    BY <1>9 DEF Undone, Cleanup, ImportFails, CancelSeen
<1>10. CASE Applied
    BY <1>10 DEF Applied, Cleanup, Planned, Progress, Incoming
<1>11. CASE Verified
    BY <1>11 DEF Verified, Progress
<1>12. ASSUME NEW f \in File, PackFile(f) PROVE SuccessIsVerified'
    BY <1>12 DEF PackFile, ExportFails, Matches
<1>13. ASSUME NEW f \in File, Displace(f) PROVE SuccessIsVerified'
    BY <1>13 DEF Displace, CancelSeen, Planned
<1>14. ASSUME NEW f \in File, Remove(f) PROVE SuccessIsVerified'
    BY <1>14 DEF Remove
<1>15. ASSUME NEW f \in File, PutBack(f) PROVE SuccessIsVerified'
    BY <1>15 DEF PutBack
<1>16. ASSUME NEW f \in File, VerifyFile(f) PROVE SuccessIsVerified'
    BY <1>16 DEF VerifyFile, Rejected
<1>17. ASSUME NEW f \in File, GameWrites(f) PROVE SuccessIsVerified'
    BY <1>17 DEF GameWrites, Planned
<1>18. ASSUME NEW f \in File, GameDeletes(f) PROVE SuccessIsVerified'
    BY <1>18 DEF GameDeletes, Planned
<1>19. CASE Cancel
    BY <1>19 DEF Cancel
<1>20. CASE Crash
    BY <1>20 DEF Crash
<1>21. CASE UNCHANGED vars
    BY <1>21
<1> QED
    BY <1>1, <1>2, <1>3, <1>4, <1>5, <1>6, <1>7, <1>8, <1>9, <1>10, <1>11, <1>12,
       <1>13, <1>14, <1>15, <1>16, <1>17, <1>18, <1>19, <1>20, <1>21 DEF Next

-----------------------------------------------------------------------------
(* The inductive invariant holds throughout.                               *)
THEOREM Inductive == Spec => []IInv
PROOF
<1>1. Init => IInv
  <2> SUFFICES ASSUME Init PROVE IInv
    OBVIOUS
  <2> USE RestoreAssumption, ContentFacts DEF Init, Nothing
  <2>1. TypeOK
    <3>1. live \in [File -> Content] /\ Nothing \in [File -> Content]
      OBVIOUS
    <3>2. writes \in 0..MaxWrites
      OBVIOUS
    <3> QED
      BY <3>1, <3>2 DEF TypeOK
  <2>2. Control
    BY DEF Control, Early, Importing, Running
  <2>3. Held /\ Progress
    BY DEF Held, HeldAt, Progress, Packed
  <2> QED
    BY <2>1, <2>2, <2>3 DEF IInv, TypeOK, Recoverable, BackupIsSnapshot,
       FailureRestores, SuccessIsVerified, Original, Absent
<1>2. IInv /\ [Next]_vars => IInv'
  BY TypeStep, ControlStep, HeldStep, ProgressStep, RecoverableStep, BackupStep,
     FailureStep, SuccessStep DEF IInv
<1> QED
  BY <1>1, <1>2, PTL DEF Spec

(* Every variable of a restore keeps its type.                             *)
THEOREM TypeInvariant == Spec => []TypeOK
BY Inductive, PTL DEF IInv

(* Whatever fails, whenever the launcher dies and whatever the game writes, *)
(* a file that a detected location held is in its place, in the rollback    *)
(* directory or in the safety backup (restore_archive_with_safety_backup).  *)
THEOREM NothingIsLost == Spec => []Recoverable
BY Inductive, PTL DEF IInv

(* The safety backup that export_save publishes is what validation saw.    *)
THEOREM BackupIsFaithful == Spec => []BackupIsSnapshot
BY Inductive, PTL DEF IInv

(* A restore that reports failure or cancellation, and no undo error, has  *)
(* left or put back the files it found.                                    *)
THEOREM FailureIsUndone == Spec => []FailureRestores
BY Inductive, PTL DEF IInv

(* A restore that reports success has placed every file of the archive.    *)
THEOREM SuccessIsComplete == Spec => []SuccessIsVerified
BY Inductive, PTL DEF IInv
================================================================================
