---------------------------- MODULE GameLaunchProofs ---------------------------
(***************************************************************************)
(* That the locks of GameLaunch outlive the work they stand for, that a    *)
(* closed window has left no work behind, that only the user closes it and *)
(* that a cancelled launch starts nothing: for every set of processes and  *)
(* every number of inputs.                                                 *)
(***************************************************************************)
EXTENDS GameLaunch, TLAPS

Holding == {k \in Kind : op[k].at \in {"checking", "busy"}}

(* What the workers and the shutdown controller keep in step: a cloud      *)
(* operation holds the game exactly during its check and its transfer, the *)
(* window is closing exactly while a shutdown drains or has ended, and a   *)
(* launch that is not pending carries no refusal over to the next one.     *)
Coupling ==
    /\ claims \cap Kind = Holding
    /\ closing <=> shutdown \in {"draining", "closed"}
    /\ prelaunch.at = "none" => prelaunch = NotPending

IInv == TypeOK /\ Coupling /\ LockOutlivesWork /\ ClosedIsDrained /\ OnlyTheUserCloses

-----------------------------------------------------------------------------
(* The operators the actions are built from keep the type of op, and change *)
(* one entry of it at most.                                                *)
LEMMA SubmitFacts ==
    ASSUME NEW o \in [Kind -> Operation], NEW k \in Kind,
           NEW does \in {"nothing", "upload", "restore"}
    PROVE  /\ Submit(o, k, does) \in [Kind -> Operation]
           /\ Submit(o, k, does)[k].at \in Active
           /\ \A j \in Kind \ {k} : Submit(o, k, does)[j] = o[j]
           /\ o[k].at \notin Active => Submit(o, k, does)[k].at = "queued"
           /\ o[k].at \in Active => Submit(o, k, does) = o
BY DEF Submit, Operation, Idle, Active, Stage, Result

LEMMA CancelFacts ==
    ASSUME NEW o \in [Kind -> Operation], NEW k \in Kind
    PROVE  /\ CancelOp(o, k) \in [Kind -> Operation]
           /\ \A j \in Kind : CancelOp(o, k)[j].at = o[j].at
BY DEF CancelOp, Operation, Active

LEMMA RetireFacts ==
    ASSUME NEW o \in [Kind -> Operation], NEW k \in Kind
    PROVE  /\ Retire(o, k) \in [Kind -> Operation]
           /\ Retire(o, k)[k].at = "idle"
           /\ \A j \in Kind \ {k} : Retire(o, k)[j] = o[j]
BY DEF Retire, Operation, Idle, Stage, Result

LEMMA EndedFacts ==
    ASSUME op \in [Kind -> Operation], NEW k \in Kind, NEW r \in Result
    PROVE  /\ Ended(k, r) \in [Kind -> Operation]
           /\ Ended(k, r)[k].at \in {"idle", "done"}
           /\ \A j \in Kind \ {k} : Ended(k, r)[j] = op[j]
PROOF
<1>1. CASE k = "exit"
  BY <1>1, RetireFacts DEF Ended
<1>2. CASE k # "exit"
  <2>1. op[k] \in Operation
    OBVIOUS
  <2>2. [op[k] EXCEPT !.at = "done", !.result = r] \in Operation
    BY <2>1 DEF Operation, Stage
  <2>3. Ended(k, r) = [op EXCEPT ![k] = [op[k] EXCEPT !.at = "done", !.result = r]]
    BY <1>2 DEF Ended
  <2> QED
    BY <2>2, <2>3 DEF Operation
<1> QED
  BY <1>1, <1>2

LEMMA RefuseFacts ==
    ASSUME NEW lock \in Lock
    PROVE  /\ Refuse(lock) \in Lock /\ Refuse(lock).at = lock.at
           /\ lock.at = "none" => Refuse(lock) = lock
BY DEF Refuse, Lock

LEMMA AtFacts ==
    ASSUME op \in [Kind -> Operation], NEW k \in Kind, NEW s \in Stage,
           NEW new, new = [op EXCEPT ![k].at = s]
    PROVE  /\ new \in [Kind -> Operation] /\ new[k].at = s
           /\ \A j \in Kind \ {k} : new[j] = op[j]
BY DEF Operation

(* A step of a worker changes its own operation only, never makes an       *)
(* operation active again, and claims the game as it says.                 *)
LEMMA WorkerFacts ==
    ASSUME TypeOK, claims \cap Kind = Holding, NEW k \in Kind, Worker(k)
    PROVE  /\ op' \in [Kind -> Operation] /\ claims' \subseteq Kind \cup {"status"}
           /\ op[k].at \in Active
           /\ \A j \in Kind \ {k} : op'[j] = op[j]
           /\ claims' \cap Kind = Holding'
           /\ UNCHANGED <<locks, games, closer, inputs>>
PROOF
<1> USE EndedFacts DEF TypeOK, Active, Holding
<1>1. op[k] \in Operation
  OBVIOUS
<1>2. CASE StartOp(k)
  <2>1. FailedClaim(k) \in Result
    BY DEF FailedClaim, Result
  <2>2. CASE op[k].cancelled \/ ~Free
    BY <1>2, <2>1, <2>2 DEF StartOp
  <2>3. CASE ~(op[k].cancelled \/ ~Free)
    <3> DEFINE s == IF Checks(k) THEN "checking" ELSE "busy"
    <3>1. s \in Stage /\ s \in {"checking", "busy"}
      BY DEF Stage
    <3>2. op' = [op EXCEPT ![k].at = s] /\ claims' = claims \cup {k}
      BY <1>2, <2>3 DEF StartOp
    <3> HIDE DEF s
    <3> QED
      BY <1>2, <3>1, <3>2, AtFacts DEF StartOp
  <2> QED
    BY <2>2, <2>3
<1>3. CASE EndCheck(k)
  <2>1. ASSUME NEW r \in Result, op' = Ended(k, r)
        PROVE  /\ op' \in [Kind -> Operation] /\ op'[k].at \in {"idle", "done"}
               /\ \A j \in Kind \ {k} : op'[j] = op[j]
    BY <2>1
  <2>2. ASSUME NEW does \in {"upload", "restore"},
               op' = [op EXCEPT ![k].at = "between", ![k].does = does]
        PROVE  /\ op' \in [Kind -> Operation] /\ op'[k].at = "between"
               /\ \A j \in Kind \ {k} : op'[j] = op[j]
    <3> DEFINE new == [op[k] EXCEPT !.at = "between", !.does = does]
    <3>1. new \in Operation /\ new.at = "between"
      BY <1>1 DEF Operation, Stage
    <3>2. op' = [op EXCEPT ![k] = new]
      BY <2>2
    <3> HIDE DEF new
    <3> QED
      BY <3>1, <3>2
  <2>3. /\ op' \in [Kind -> Operation] /\ op'[k].at \in {"idle", "done", "between"}
        /\ \A j \in Kind \ {k} : op'[j] = op[j]
    BY <1>3, <2>1, <2>2 DEF EndCheck, Result
  <2> QED
    BY <1>3, <2>3 DEF EndCheck
<1>4. CASE BeginTransfer(k)
  <2>1. CASE Free
    BY <1>4, <2>1, AtFacts DEF BeginTransfer, Stage
  <2>2. CASE ~Free
    <3>1. "ok" \in Result
      BY DEF Result
    <3>2. op' = Ended(k, "ok") /\ UNCHANGED claims
      BY <1>4, <2>2 DEF BeginTransfer
    <3> QED
      BY <1>4, <3>1, <3>2 DEF BeginTransfer
  <2> QED
    BY <2>1, <2>2
<1>5. CASE EndTransfer(k)
  <2>1. Outcomes(k) \subseteq Result
    BY DEF Outcomes, Result
  <2> QED
    BY <1>5, <2>1 DEF EndTransfer
<1> QED
  BY <1>2, <1>3, <1>4, <1>5 DEF Worker

(* A launch starts one process that was unused and its tracker, or nothing. *)
LEMMA LaunchFacts ==
    ASSUME TypeOK, ContinueLaunch
    PROVE  /\ proc' \in [Process -> {"unused", "running", "exited"}]
           /\ session' \in [proc : Process \cup {NoProcess},
                             state : {"none", "running", "stopping", "exited"}]
           /\ session' = NoSession <=> session'.proc = NoProcess
           /\ owner' \in Process \cup {NoProcess}
           /\ tracker' \in [Process -> {"none", "watching", "ended", "finished"}]
           /\ UNCHANGED <<interrupted, killing>>
BY LaunchAssumption DEF ContinueLaunch, games, TypeOK, NoSession

LEMMA KindFacts ==
    /\ {"prelaunch", "exit", "upload", "restore", "preflight", "manual"} \subseteq Kind
    /\ \A k \in {"upload", "restore"} : k \in Kind
    /\ "status" \notin Kind
BY DEF Kind

LEMMA LockFacts ==
    /\ NotPending \in Lock
    /\ [at |-> "waiting", refused |-> FALSE] \in Lock
    /\ \A lock \in Lock : /\ [lock EXCEPT !.at = "asking"] \in Lock
                         /\ [lock EXCEPT !.at = "restoring"] \in Lock
BY DEF Lock, NotPending

(* A shutdown request keeps the types of what it may change. *)
LEMMA RequestFacts ==
    ASSUME TypeOK, NEW asked \in BOOLEAN, NEW left \in SUBSET (0..epoch),
           Request(asked, left)
    PROVE  /\ prelaunch' \in Lock /\ manual' \in Lock
           /\ op' \in [Kind -> Operation]
           /\ \A k \in Kind : op'[k].at = op[k].at
           /\ session' \in {session, Stopped(session)}
           /\ killing' \in {killing, owner}
           /\ tracker' \in [Process -> {"none", "watching", "ended", "finished"}]
           /\ interrupted' \subseteq Process
           /\ shutdown' \in {"draining", "cancelled", "closed"}
           /\ closing' \in BOOLEAN /\ late' \in BOOLEAN /\ wanted' \in BOOLEAN
           /\ epoch' \in {epoch, epoch + 1}
           /\ retries' \subseteq left \cup {epoch'}
           /\ UNCHANGED <<workflow, claims, proc, owner>>
PROOF
<1> USE DEF TypeOK, Request, Aborted
<1>1. prelaunch' \in Lock /\ manual' \in Lock
  BY RefuseFacts
<1>2. PICK E \in SUBSET Watching : CancelWork(E)
  OBVIOUS
<1>3. op' \in [Kind -> Operation] /\ \A k \in Kind : op'[k].at = op[k].at
  BY <1>2, CancelFacts DEF CancelWork
<1>4. /\ session' \in {session, Stopped(session)}
      /\ killing' \in {killing, owner}
      /\ tracker' \in [Process -> {"none", "watching", "ended", "finished"}]
      /\ interrupted' \subseteq Process
  BY <1>2 DEF CancelWork, Watching
<1>5. /\ shutdown' \in {"draining", "cancelled", "closed"}
      /\ closing' \in BOOLEAN /\ late' \in BOOLEAN /\ wanted' \in BOOLEAN
  OBVIOUS
<1>6. epoch' \in {epoch, epoch + 1} /\ retries' \subseteq left \cup {epoch'}
  OBVIOUS
<1> QED
  BY <1>1, <1>3, <1>4, <1>5, <1>6

(* Submitting, cancelling and retiring an operation leave the claims alone. *)
LEMMA SubmitKeeps ==
    ASSUME op \in [Kind -> Operation], NEW k \in Kind,
           NEW does \in {"nothing", "upload", "restore"}, op' \in {op, Submit(op, k, does)}
    PROVE  Holding' = Holding
PROOF
<1>1. ASSUME NEW j \in Kind
      PROVE  op'[j].at \in {"checking", "busy"} <=> op[j].at \in {"checking", "busy"}
  <2>1. CASE op' = op
    BY <2>1
  <2>2. CASE op' = Submit(op, k, does)
    <3>1. CASE j = k
      BY <2>2, <3>1, SubmitFacts DEF Active
    <3>2. CASE j # k
      BY <2>2, <3>2, SubmitFacts
    <3> QED
      BY <3>1, <3>2
  <2> QED
    BY <2>1, <2>2
<1> QED
  BY <1>1 DEF Holding

LEMMA CancelKeeps ==
    ASSUME op \in [Kind -> Operation], NEW k \in Kind, op' = CancelOp(op, k)
    PROVE  /\ Holding' = Holding
           /\ \A j \in Kind : op'[j].at = op[j].at
BY CancelFacts DEF Holding

LEMMA RetireKeeps ==
    ASSUME op \in [Kind -> Operation], NEW k \in Kind, op[k].at = "done",
           op' = Retire(op, k)
    PROVE  Holding' = Holding
PROOF
<1>1. ASSUME NEW j \in Kind
      PROVE  op'[j].at \in {"checking", "busy"} <=> op[j].at \in {"checking", "busy"}
  BY RetireFacts
<1> QED
  BY <1>1 DEF Holding

LEMMA SameKeeps ==
    ASSUME UNCHANGED op
    PROVE  Holding' = Holding
BY DEF Holding

(* Every step keeps each lock as long as its work.                         *)
LEMMA LockStep ==
    ASSUME TypeOK, Coupling, LockOutlivesWork, [Next]_vars
    PROVE  LockOutlivesWork'
PROOF
<1> USE LaunchAssumption DEF vars, locks, games, closer, Input, Kind, TypeOK,
        LockOutlivesWork, Coupling, IsActive, Active, NotPending, Lock
<1>1. ASSUME NEW k \in Kind, Worker(k) PROVE LockOutlivesWork'
    BY <1>1, WorkerFacts
<1>2. CASE StatusReleases
    BY <1>2 DEF StatusReleases
<1>3. CASE KillEnds
    BY <1>3 DEF KillEnds
<1>4. CASE Observe
    BY <1>4 DEF Observe
<1>5. CASE PrelaunchResult
    BY <1>5, RetireFacts DEF PrelaunchResult, ContinueLaunch
<1>6. CASE AutoSyncDone
    BY <1>6, RetireFacts DEF AutoSyncDone
<1>7. CASE ManualChecked
    BY <1>7, RetireFacts DEF ManualChecked
<1>8. CASE ManualDone
    BY <1>8, RetireFacts DEF ManualDone
<1>9. ASSUME NEW p \in Process, TrackerEnds(p) PROVE LockOutlivesWork'
    BY <1>9 DEF TrackerEnds
<1>10. ASSUME NEW p \in Process, FinishTracker(p) PROVE LockOutlivesWork'
    BY <1>10, SubmitFacts DEF FinishTracker
<1>11. ASSUME NEW e \in retries, Retry(e) PROVE LockOutlivesWork'
    BY <1>11, CancelFacts, RefuseFacts DEF Retry, Request, Aborted, CancelWork
<1>12. CASE DeadlinePasses
    BY <1>12 DEF DeadlinePasses
<1>13. CASE StatusClaims
    BY <1>13 DEF StatusClaims
<1>14. CASE StopGame
    BY <1>14 DEF StopGame, Stopped
<1>15. ASSUME NEW p \in Process, GameExits(p) PROVE LockOutlivesWork'
    BY <1>15 DEF GameExits
<1>16. CASE Launch
    BY <1>16, SubmitFacts DEF Launch, ContinueLaunch
<1>17. CASE CancelLaunch
    BY <1>17, CancelFacts DEF CancelLaunch
<1>18. CASE QuotaAnswered
    BY <1>18 DEF QuotaAnswered, ContinueLaunch
<1>19. ASSUME NEW kind \in {"upload", "restore"}, AutoSync(kind) PROVE LockOutlivesWork'
    BY <1>19, SubmitFacts DEF AutoSync
<1>20. CASE ManualStart
    BY <1>20, SubmitFacts DEF ManualStart
<1>21. CASE ManualCancel
    BY <1>21, CancelFacts DEF ManualCancel, ManualKind
<1>22. CASE ManualConfirmed
    BY <1>22, SubmitFacts, SMTT(30) DEF ManualConfirmed
<1>23. CASE Close
    BY <1>23, CancelFacts, RefuseFacts DEF Close, Request, Aborted, CancelWork
<1>24. CASE KeepOpen
    BY <1>24 DEF KeepOpen, Aborted
<1>25. CASE UNCHANGED vars
    BY <1>25
<1> QED
    BY <1>1, <1>2, <1>3, <1>4, <1>5, <1>6, <1>7, <1>8, <1>9, <1>10, <1>11, <1>12,
       <1>13, <1>14, <1>15, <1>16, <1>17, <1>18, <1>19, <1>20, <1>21, <1>22, <1>23,
       <1>24, <1>25
       DEF Next, Progress, Environment, Delivery

(* No step but the user's closes.                                          *)
LEMMA OnlyUserStep ==
    ASSUME TypeOK, Coupling, OnlyTheUserCloses, [Next]_vars
    PROVE  OnlyTheUserCloses'
PROOF
<1> USE LaunchAssumption DEF vars, locks, games, closer, Input, Kind, TypeOK,
        Coupling, OnlyTheUserCloses
<1>1. ASSUME NEW k \in Kind, Worker(k) PROVE OnlyTheUserCloses'
    BY <1>1, WorkerFacts
<1>2. CASE StatusReleases
    BY <1>2 DEF StatusReleases
<1>3. CASE KillEnds
    BY <1>3 DEF KillEnds
<1>4. CASE Observe
    BY <1>4 DEF Observe
<1>5. CASE PrelaunchResult
    BY <1>5 DEF PrelaunchResult, ContinueLaunch
<1>6. CASE AutoSyncDone
    BY <1>6 DEF AutoSyncDone
<1>7. CASE ManualChecked
    BY <1>7 DEF ManualChecked
<1>8. CASE ManualDone
    BY <1>8 DEF ManualDone
<1>9. ASSUME NEW p \in Process, TrackerEnds(p) PROVE OnlyTheUserCloses'
    BY <1>9 DEF TrackerEnds
<1>10. ASSUME NEW p \in Process, FinishTracker(p) PROVE OnlyTheUserCloses'
    BY <1>10 DEF FinishTracker
<1>11. ASSUME NEW e \in retries, Retry(e) PROVE OnlyTheUserCloses'
    BY <1>11 DEF Retry, Request, Aborted, CancelWork
<1>12. CASE DeadlinePasses
    BY <1>12 DEF DeadlinePasses
<1>13. CASE StatusClaims
    BY <1>13 DEF StatusClaims
<1>14. CASE StopGame
    BY <1>14 DEF StopGame, Stopped
<1>15. ASSUME NEW p \in Process, GameExits(p) PROVE OnlyTheUserCloses'
    BY <1>15 DEF GameExits
<1>16. CASE Launch
    BY <1>16 DEF Launch, ContinueLaunch
<1>17. CASE CancelLaunch
    BY <1>17 DEF CancelLaunch
<1>18. CASE QuotaAnswered
    BY <1>18 DEF QuotaAnswered, ContinueLaunch
<1>19. ASSUME NEW kind \in {"upload", "restore"}, AutoSync(kind) PROVE OnlyTheUserCloses'
    BY <1>19 DEF AutoSync
<1>20. CASE ManualStart
    BY <1>20 DEF ManualStart
<1>21. CASE ManualCancel
    BY <1>21 DEF ManualCancel, ManualKind
<1>22. CASE ManualConfirmed
    BY <1>22 DEF ManualConfirmed
<1>23. CASE Close
    BY <1>23 DEF Close, Request, Aborted, CancelWork
<1>24. CASE KeepOpen
    BY <1>24 DEF KeepOpen, Aborted
<1>25. CASE UNCHANGED vars
    BY <1>25
<1> QED
    BY <1>1, <1>2, <1>3, <1>4, <1>5, <1>6, <1>7, <1>8, <1>9, <1>10, <1>11, <1>12,
       <1>13, <1>14, <1>15, <1>16, <1>17, <1>18, <1>19, <1>20, <1>21, <1>22, <1>23,
       <1>24, <1>25
       DEF Next, Progress, Environment, Delivery

(* Every step keeps the types.                                             *)
LEMMA TypeStep ==
    ASSUME TypeOK, Coupling, [Next]_vars
    PROVE  TypeOK'
PROOF
<1> USE LaunchAssumption, KindFacts DEF vars, locks, games, closer, Input,
        TypeOK, Coupling
<1>1. ASSUME NEW k \in Kind, Worker(k) PROVE TypeOK'
  <2>1. op' \in [Kind -> Operation] /\ claims' \subseteq Kind \cup {"status"}
    BY <1>1, WorkerFacts
  <2>2. UNCHANGED <<locks, games, closer, inputs>>
    BY <1>1, WorkerFacts
  <2> QED
    BY <2>1, <2>2
<1>2. CASE StatusReleases
    BY <1>2 DEF StatusReleases
<1>3. CASE KillEnds
    BY <1>3 DEF KillEnds
<1>4. CASE Observe
    BY <1>4 DEF Observe, NoSession
<1>5. CASE PrelaunchResult
  <2>1. prelaunch' \in Lock
    <3>1. [prelaunch EXCEPT !.at = "asking"] \in Lock
      BY LockFacts
    <3> QED
      BY <1>5, <3>1, LockFacts DEF PrelaunchResult
  <2>4. op' \in [Kind -> Operation]
    BY <1>5, RetireFacts DEF PrelaunchResult
  <2>2. ContinueLaunch \/ UNCHANGED games
    BY <1>5 DEF PrelaunchResult
  <2>3. UNCHANGED <<workflow, manual, claims, closer, inputs>>
    BY <1>5 DEF PrelaunchResult
  <2> QED
    BY <2>1, <2>2, <2>3, <2>4, LaunchFacts
<1>6. CASE AutoSyncDone
    BY <1>6, RetireFacts DEF AutoSyncDone
<1>7. CASE ManualChecked
    BY <1>7, RetireFacts DEF ManualChecked, Lock, NotPending
<1>8. CASE ManualDone
    BY <1>8, RetireFacts DEF ManualDone, Lock, NotPending
<1>9. ASSUME NEW p \in Process, TrackerEnds(p) PROVE TypeOK'
    BY <1>9 DEF TrackerEnds
<1>10. ASSUME NEW p \in Process, FinishTracker(p) PROVE TypeOK'
    BY <1>10, SubmitFacts DEF FinishTracker, NoSession
<1>11. ASSUME NEW e \in retries, Retry(e) PROVE TypeOK'
    BY <1>11, RequestFacts DEF Retry, Stopped, NoSession
<1>12. CASE DeadlinePasses
    BY <1>12 DEF DeadlinePasses
<1>13. CASE StatusClaims
    BY <1>13 DEF StatusClaims
<1>14. CASE StopGame
    BY <1>14 DEF StopGame, Stopped, NoSession
<1>15. ASSUME NEW p \in Process, GameExits(p) PROVE TypeOK'
    BY <1>15 DEF GameExits
<1>16. CASE Launch
  <2>1. prelaunch' \in Lock
    BY <1>16, LockFacts DEF Launch
  <2>4. op' \in [Kind -> Operation]
    BY <1>16, SubmitFacts DEF Launch
  <2>2. ContinueLaunch \/ UNCHANGED games
    BY <1>16 DEF Launch
  <2>3. UNCHANGED <<workflow, manual, claims, closer>> /\ inputs' \in 0..MaxInputs
    BY <1>16 DEF Launch
  <2> QED
    BY <2>1, <2>2, <2>3, <2>4, LaunchFacts
<1>17. CASE CancelLaunch
  <2>1. prelaunch' \in Lock /\ prelaunch'.at # "none"
    BY <1>17 DEF CancelLaunch, Lock
  <2>2. op' \in [Kind -> Operation]
    BY <1>17, CancelFacts DEF CancelLaunch
  <2>3. UNCHANGED <<workflow, manual, claims, games, closer, inputs>>
    BY <1>17 DEF CancelLaunch
  <2> QED
    BY <2>1, <2>2, <2>3
<1>18. CASE QuotaAnswered
  <2>1. prelaunch' \in Lock
    BY <1>18, LockFacts DEF QuotaAnswered
  <2>2. ContinueLaunch \/ UNCHANGED games
    BY <1>18 DEF QuotaAnswered
  <2>3. UNCHANGED <<workflow, manual, op, claims, closer, inputs>>
    BY <1>18 DEF QuotaAnswered
  <2> QED
    BY <2>1, <2>2, <2>3, LaunchFacts
<1>19. ASSUME NEW kind \in {"upload", "restore"}, AutoSync(kind) PROVE TypeOK'
    BY <1>19, SubmitFacts DEF AutoSync
<1>20. CASE ManualStart
    BY <1>20, SubmitFacts DEF ManualStart, Lock, NotPending
<1>21. CASE ManualCancel
  <2>1. ManualKind \in Kind
    BY DEF ManualKind
  <2>2. manual' \in Lock /\ op' \in [Kind -> Operation]
    BY <1>21, <2>1, CancelFacts DEF ManualCancel, Lock
  <2> QED
    BY <1>21, <2>2 DEF ManualCancel
<1>22. CASE ManualConfirmed
  <2>1. manual' \in Lock
    <3>1. [manual EXCEPT !.at = "restoring"] \in Lock
      BY LockFacts
    <3> QED
      BY <1>22, <3>1, LockFacts DEF ManualConfirmed
  <2>2. op' \in [Kind -> Operation]
    BY <1>22, SubmitFacts DEF ManualConfirmed
  <2> QED
    BY <1>22, <2>1, <2>2 DEF ManualConfirmed
<1>23. CASE Close
  <2>1. PICK asked \in BOOLEAN : Request(asked, retries)
    BY <1>23 DEF Close
  <2>5. inputs' \in 0..MaxInputs
    BY <1>23 DEF Close
  <2>2. /\ {owner', killing'} \subseteq Process \cup {NoProcess}
        /\ session' \in [proc : Process \cup {NoProcess},
                          state : {"none", "running", "stopping", "exited"}]
        /\ session' = NoSession <=> session'.proc = NoProcess
    BY <2>1, RequestFacts DEF Stopped, NoSession
  <2>3. epoch' \in Nat /\ retries' \subseteq 0..epoch'
    <3>1. epoch' \in {epoch, epoch + 1} /\ retries' \subseteq retries \cup {epoch'}
      BY <2>1, RequestFacts
    <3> QED
      BY <3>1
  <2>4. {closing', late', wanted'} \subseteq BOOLEAN
    BY <2>1, RequestFacts
  <2> QED
    BY <2>1, <2>2, <2>3, <2>4, <2>5, RequestFacts
<1>24. CASE KeepOpen
  <2>1. epoch' \in Nat /\ retries' \subseteq 0..epoch'
    BY <1>24 DEF KeepOpen, Aborted
  <2>2. {closing', late', wanted'} \subseteq BOOLEAN
    BY <1>24 DEF KeepOpen, Aborted
  <2> QED
    BY <1>24, <2>1, <2>2 DEF KeepOpen, Aborted
<1>25. CASE UNCHANGED vars
    BY <1>25
<1> QED
    BY <1>1, <1>2, <1>3, <1>4, <1>5, <1>6, <1>7, <1>8, <1>9, <1>10, <1>11, <1>12,
       <1>13, <1>14, <1>15, <1>16, <1>17, <1>18, <1>19, <1>20, <1>21, <1>22, <1>23,
       <1>24, <1>25
       DEF Next, Progress, Environment, Delivery

(* Every step keeps workers, claims and shutdown in step.                   *)
LEMMA CouplingStep ==
    ASSUME TypeOK, Coupling, [Next]_vars
    PROVE  Coupling'
PROOF
<1> USE LaunchAssumption, KindFacts DEF vars, locks, games, closer, Input,
        TypeOK, Coupling
<1>1. ASSUME NEW k \in Kind, Worker(k) PROVE Coupling'
    BY <1>1, WorkerFacts
<1>2. CASE StatusReleases
    BY <1>2, SameKeeps DEF StatusReleases
<1>3. CASE KillEnds
    BY <1>3, SameKeeps DEF KillEnds
<1>4. CASE Observe
    BY <1>4, SameKeeps DEF Observe
<1>5. CASE PrelaunchResult
  <2>1. Holding' = Holding
    BY <1>5, RetireKeeps DEF PrelaunchResult
  <2>2. prelaunch' \in {NotPending, [prelaunch EXCEPT !.at = "asking"]}
    BY <1>5 DEF PrelaunchResult
  <2>3. prelaunch'.at = "none" => prelaunch' = NotPending
    BY <2>2 DEF NotPending, Lock
  <2> QED
    BY <1>5, <2>1, <2>3 DEF PrelaunchResult
<1>6. CASE AutoSyncDone
    BY <1>6, RetireKeeps DEF AutoSyncDone
<1>7. CASE ManualChecked
    BY <1>7, RetireKeeps DEF ManualChecked
<1>8. CASE ManualDone
    BY <1>8, RetireKeeps DEF ManualDone
<1>9. ASSUME NEW p \in Process, TrackerEnds(p) PROVE Coupling'
    BY <1>9, SameKeeps DEF TrackerEnds
<1>10. ASSUME NEW p \in Process, FinishTracker(p) PROVE Coupling'
  <2>1. Holding' = Holding
    BY <1>10, SubmitKeeps DEF FinishTracker
  <2> QED
    BY <1>10, <2>1 DEF FinishTracker
<1>11. ASSUME NEW e \in retries, Retry(e) PROVE Coupling'
  <2>1. CASE shutdown = "draining" /\ e = epoch
    <3>1. PICK asked \in BOOLEAN, left \in SUBSET (0..epoch) : Request(asked, left)
      BY <1>11, <2>1 DEF Retry
    <3>2. claims' \cap Kind = Holding'
      BY <3>1, RequestFacts DEF Holding
    <3>3. closing' <=> shutdown' \in {"draining", "closed"}
      BY <3>1 DEF Request, Aborted
    <3>4. prelaunch'.at = "none" => prelaunch' = NotPending
      BY <3>1, RefuseFacts DEF Request
    <3> QED
      BY <3>2, <3>3, <3>4
  <2>2. CASE ~(shutdown = "draining" /\ e = epoch)
    BY <1>11, <2>2, SameKeeps DEF Retry
  <2> QED
    BY <2>1, <2>2
<1>12. CASE DeadlinePasses
    BY <1>12, SameKeeps DEF DeadlinePasses
<1>13. CASE StatusClaims
  <2>1. Holding' = Holding /\ Holding = {}
    BY <1>13, SameKeeps DEF StatusClaims, Free
  <2> QED
    BY <1>13, <2>1 DEF StatusClaims
<1>14. CASE StopGame
    BY <1>14, SameKeeps DEF StopGame, Stopped
<1>15. ASSUME NEW p \in Process, GameExits(p) PROVE Coupling'
    BY <1>15, SameKeeps DEF GameExits
<1>16. CASE Launch
  <2>1. Holding' = Holding
    <3>1. op' \in {op, Submit(op, "prelaunch", "nothing")}
      BY <1>16 DEF Launch
    <3> QED
      BY <3>1, SubmitKeeps
  <2> QED
    BY <1>16, <2>1 DEF Launch
<1>17. CASE CancelLaunch
    BY <1>17, CancelKeeps DEF CancelLaunch
<1>18. CASE QuotaAnswered
    BY <1>18, SameKeeps DEF QuotaAnswered, NotPending, ContinueLaunch
<1>19. ASSUME NEW kind \in {"upload", "restore"}, AutoSync(kind) PROVE Coupling'
    BY <1>19, SubmitKeeps DEF AutoSync
<1>20. CASE ManualStart
    BY <1>20, SubmitKeeps DEF ManualStart
<1>21. CASE ManualCancel
  <2>1. ManualKind \in Kind
    BY DEF ManualKind
  <2> QED
    BY <1>21, <2>1, CancelKeeps DEF ManualCancel
<1>22. CASE ManualConfirmed
  <2>1. Holding' = Holding
    <3>1. op' \in {op, Submit(op, "manual", "restore")}
      BY <1>22 DEF ManualConfirmed
    <3> QED
      BY <3>1, SubmitKeeps
  <2> QED
    BY <1>22, <2>1 DEF ManualConfirmed
<1>23. CASE Close
  <2>1. PICK asked \in BOOLEAN : Request(asked, retries)
    BY <1>23 DEF Close
  <2>2. claims' \cap Kind = Holding'
    BY <2>1, RequestFacts DEF Holding
  <2>3. closing' <=> shutdown' \in {"draining", "closed"}
    BY <2>1 DEF Request, Aborted
  <2>4. prelaunch'.at = "none" => prelaunch' = NotPending
    BY <2>1, RefuseFacts DEF Request
  <2> QED
    BY <2>2, <2>3, <2>4
<1>24. CASE KeepOpen
    BY <1>24, SameKeeps DEF KeepOpen, Aborted
<1>25. CASE UNCHANGED vars
    BY <1>25, SameKeeps
<1> QED
    BY <1>1, <1>2, <1>3, <1>4, <1>5, <1>6, <1>7, <1>8, <1>9, <1>10, <1>11, <1>12,
       <1>13, <1>14, <1>15, <1>16, <1>17, <1>18, <1>19, <1>20, <1>21, <1>22, <1>23,
       <1>24, <1>25
       DEF Next, Progress, Environment, Delivery

(* No step closes the window over work, and none begins work behind it.     *)
LEMMA ClosedStep ==
    ASSUME TypeOK, Coupling, ClosedIsDrained, [Next]_vars
    PROVE  ClosedIsDrained'
PROOF
<1> USE LaunchAssumption, KindFacts DEF vars, locks, games, closer, Input,
        TypeOK, Coupling, ClosedIsDrained, IsActive, Holding, Active, Watching
<1>1. ASSUME NEW k \in Kind, Worker(k) PROVE ClosedIsDrained'
    BY <1>1, WorkerFacts
<1>2. CASE StatusReleases
    BY <1>2 DEF StatusReleases
<1>3. CASE KillEnds
    BY <1>3 DEF KillEnds
<1>4. CASE Observe
    BY <1>4 DEF Observe
<1>5. CASE PrelaunchResult
    BY <1>5, RetireFacts DEF PrelaunchResult, ContinueLaunch
<1>6. CASE AutoSyncDone
    BY <1>6, RetireFacts DEF AutoSyncDone
<1>7. CASE ManualChecked
    BY <1>7, RetireFacts DEF ManualChecked
<1>8. CASE ManualDone
    BY <1>8, RetireFacts DEF ManualDone
<1>9. ASSUME NEW p \in Process, TrackerEnds(p) PROVE ClosedIsDrained'
    BY <1>9 DEF TrackerEnds
<1>10. ASSUME NEW p \in Process, FinishTracker(p) PROVE ClosedIsDrained'
    BY <1>10, SubmitFacts DEF FinishTracker
<1>11. ASSUME NEW e \in retries, Retry(e) PROVE ClosedIsDrained'
  <2>1. CASE shutdown = "draining" /\ e = epoch
    <3>1. PICK asked \in BOOLEAN, left \in SUBSET (0..epoch) : Request(asked, left)
      BY <1>11, <2>1 DEF Retry
    <3>2. op' \in [Kind -> Operation] /\ claims' \cap Kind = claims \cap Kind
          /\ \A k \in Kind : op'[k].at = op[k].at
      BY <3>1, RequestFacts
    <3>3. shutdown' = "closed" => ~Waiting
      BY <3>1 DEF Request, Aborted
    <3> QED
      BY <3>2, <3>3 DEF Waiting, Watching
  <2>2. CASE ~(shutdown = "draining" /\ e = epoch)
    BY <1>11, <2>2 DEF Retry, Watching
  <2> QED
    BY <2>1, <2>2
<1>12. CASE DeadlinePasses
    BY <1>12 DEF DeadlinePasses
<1>13. CASE StatusClaims
    BY <1>13 DEF StatusClaims
<1>14. CASE StopGame
    BY <1>14 DEF StopGame, Stopped
<1>15. ASSUME NEW p \in Process, GameExits(p) PROVE ClosedIsDrained'
    BY <1>15 DEF GameExits
<1>16. CASE Launch
    BY <1>16, SubmitFacts DEF Launch, ContinueLaunch
<1>17. CASE CancelLaunch
    BY <1>17, CancelKeeps DEF CancelLaunch
<1>18. CASE QuotaAnswered
    BY <1>18 DEF QuotaAnswered, ContinueLaunch
<1>19. ASSUME NEW kind \in {"upload", "restore"}, AutoSync(kind) PROVE ClosedIsDrained'
    BY <1>19, SubmitFacts DEF AutoSync
<1>20. CASE ManualStart
    BY <1>20, SubmitFacts DEF ManualStart
<1>21. CASE ManualCancel
  <2>1. ManualKind \in Kind
    BY DEF ManualKind
  <2> QED
    BY <1>21, <2>1, CancelKeeps DEF ManualCancel
<1>22. CASE ManualConfirmed
    BY <1>22, SubmitFacts DEF ManualConfirmed
<1>23. CASE Close
  <2>1. PICK asked \in BOOLEAN : Request(asked, retries)
    BY <1>23 DEF Close
  <2>2. op' \in [Kind -> Operation] /\ claims' \cap Kind = claims \cap Kind
        /\ \A k \in Kind : op'[k].at = op[k].at
    BY <2>1, RequestFacts
  <2>3. shutdown' = "closed" => ~Waiting
    BY <2>1 DEF Request, Aborted
  <2> QED
    BY <2>2, <2>3 DEF Waiting, Watching
<1>24. CASE KeepOpen
    BY <1>24 DEF KeepOpen, Aborted
<1>25. CASE UNCHANGED vars
    BY <1>25
<1> QED
    BY <1>1, <1>2, <1>3, <1>4, <1>5, <1>6, <1>7, <1>8, <1>9, <1>10, <1>11, <1>12,
       <1>13, <1>14, <1>15, <1>16, <1>17, <1>18, <1>19, <1>20, <1>21, <1>22, <1>23,
       <1>24, <1>25
       DEF Next, Progress, Environment, Delivery

(* A step that starts a process is allowed to.                              *)
StartsRefused ==
    \E p \in Process : /\ proc[p] = "unused" /\ proc'[p] = "running"
                       /\ prelaunch.refused \/ closing

(* Only a launch that was not cancelled starts a process.                   *)
LEMMA StartStep ==
    ASSUME TypeOK, Coupling, [Next]_vars
    PROVE  ~StartsRefused
PROOF
<1> USE LaunchAssumption, KindFacts DEF vars, locks, games, closer, Input,
        TypeOK, Coupling, StartsRefused
<1>1. ASSUME NEW k \in Kind, Worker(k) PROVE ~StartsRefused
    BY <1>1, WorkerFacts
<1>2. CASE StatusReleases
    BY <1>2 DEF StatusReleases
<1>3. CASE KillEnds
    BY <1>3 DEF KillEnds
<1>4. CASE Observe
    BY <1>4 DEF Observe
<1>5. CASE PrelaunchResult
    BY <1>5 DEF PrelaunchResult, ContinueLaunch, CanContinue
<1>6. CASE AutoSyncDone
    BY <1>6 DEF AutoSyncDone
<1>7. CASE ManualChecked
    BY <1>7 DEF ManualChecked
<1>8. CASE ManualDone
    BY <1>8 DEF ManualDone
<1>9. ASSUME NEW p \in Process, TrackerEnds(p) PROVE ~StartsRefused
    BY <1>9 DEF TrackerEnds
<1>10. ASSUME NEW p \in Process, FinishTracker(p) PROVE ~StartsRefused
    BY <1>10 DEF FinishTracker
<1>11. ASSUME NEW e \in retries, Retry(e) PROVE ~StartsRefused
  <2>1. CASE shutdown = "draining" /\ e = epoch
    <3>1. PICK asked \in BOOLEAN, left \in SUBSET (0..epoch) : Request(asked, left)
      BY <1>11, <2>1 DEF Retry
    <3> QED
      BY <3>1, RequestFacts
  <2>2. CASE ~(shutdown = "draining" /\ e = epoch)
    BY <1>11, <2>2 DEF Retry
  <2> QED
    BY <2>1, <2>2
<1>12. CASE DeadlinePasses
    BY <1>12 DEF DeadlinePasses
<1>13. CASE StatusClaims
    BY <1>13 DEF StatusClaims
<1>14. CASE StopGame
    BY <1>14 DEF StopGame, Stopped
<1>15. ASSUME NEW p \in Process, GameExits(p) PROVE ~StartsRefused
    BY <1>15 DEF GameExits
<1>16. CASE Launch
    BY <1>16 DEF Launch, ContinueLaunch, NotPending
<1>17. CASE CancelLaunch
    BY <1>17 DEF CancelLaunch
<1>18. CASE QuotaAnswered
    BY <1>18 DEF QuotaAnswered, ContinueLaunch, CanContinue
<1>19. ASSUME NEW kind \in {"upload", "restore"}, AutoSync(kind) PROVE ~StartsRefused
    BY <1>19 DEF AutoSync
<1>20. CASE ManualStart
    BY <1>20 DEF ManualStart
<1>21. CASE ManualCancel
    BY <1>21 DEF ManualCancel, ManualKind
<1>22. CASE ManualConfirmed
    BY <1>22 DEF ManualConfirmed
<1>23. CASE Close
  <2>1. PICK asked \in BOOLEAN : Request(asked, retries)
    BY <1>23 DEF Close
  <2> QED
    BY <2>1, RequestFacts
<1>24. CASE KeepOpen
    BY <1>24 DEF KeepOpen, Aborted
<1>25. CASE UNCHANGED vars
    BY <1>25
<1> QED
    BY <1>1, <1>2, <1>3, <1>4, <1>5, <1>6, <1>7, <1>8, <1>9, <1>10, <1>11, <1>12,
       <1>13, <1>14, <1>15, <1>16, <1>17, <1>18, <1>19, <1>20, <1>21, <1>22, <1>23,
       <1>24, <1>25
       DEF Next, Progress, Environment, Delivery

-----------------------------------------------------------------------------
(* The inductive invariant holds throughout.                                *)
THEOREM Inductive == Spec => []IInv
PROOF
<1>1. Init => IInv
  <2> SUFFICES ASSUME Init PROVE IInv
    OBVIOUS
  <2> USE LaunchAssumption DEF Init
  <2>1. Idle \in Operation /\ Idle.at = "idle" /\ NotPending \in Lock
    BY DEF Idle, Operation, Stage, Result, NotPending, Lock
  <2>2. op \in [Kind -> Operation] /\ \A k \in Kind : op[k].at = "idle"
    BY <2>1
  <2>3. TypeOK
    <3>1. {closing, late, wanted} \subseteq BOOLEAN
      OBVIOUS
    <3>2. session \in [proc : Process \cup {NoProcess},
                     state : {"none", "running", "stopping", "exited"}]
          /\ session.proc = NoProcess
      BY DEF NoSession
    <3> QED
      BY <2>1, <2>2, <3>1, <3>2 DEF TypeOK
  <2>4. Coupling
    BY <2>2 DEF Coupling, Holding
  <2> QED
    BY <2>2, <2>3, <2>4 DEF IInv, LockOutlivesWork, ClosedIsDrained,
       OnlyTheUserCloses,
       IsActive, Active, Kind
<1>2. IInv /\ [Next]_vars => IInv'
  BY TypeStep, CouplingStep, LockStep, ClosedStep, OnlyUserStep DEF IInv
<1> QED
  BY <1>1, <1>2, PTL DEF Spec

(* Every variable of the launcher keeps its type.                           *)
THEOREM TypeInvariant == Spec => []TypeOK
BY Inductive, PTL DEF IInv

(* While a worker may touch the saves for the prelaunch, the automatic or   *)
(* the manual controller, that controller holds its lock                    *)
(* (PrelaunchController, CloudWorkflowController, ManualRestoreController). *)
THEOREM LocksHold == Spec => []LockOutlivesWork
BY Inductive, PTL DEF IInv

(* ShutdownController closes the window behind the last work only.          *)
THEOREM ClosingDrains == Spec => []ClosedIsDrained
BY Inductive, PTL DEF IInv

(* A retry of a shutdown that was called off never closes the window.       *)
THEOREM ClosingIsAsked == Spec => []OnlyTheUserCloses
BY Inductive, PTL DEF IInv

(* A cancelled launch starts no process, and a closing launcher none.       *)
THEOREM CancelHolds == Spec => CancelledNeverLaunches
PROOF
<1>1. IInv /\ [Next]_vars =>
          [\A p \in Process : proc[p] = "unused" /\ proc'[p] = "running" =>
              ~prelaunch.refused /\ ~closing]_vars
  BY StartStep DEF IInv, StartsRefused
<1> QED
  BY <1>1, Inductive, PTL DEF Spec, CancelledNeverLaunches
================================================================================
