------------------------ MODULE RequestManagerWorkProofs ------------------------
(* Proofs about the work RequestManager has to do: no wake-up is lost,     *)
(* workers that end leave nothing behind, a cancelled request starts no    *)
(* attempt and a late result is not published.                             *)
EXTENDS RequestManagerProofs

(* Whatever notifies leaves nobody asleep and ends no thread.              *)
LEMMA NotifyWakes ==
    \A w \in Worker : /\ NotifyAll[w] # "waiting"
                      /\ NotifyAll[w] = "exited" <=> phase[w] = "exited"
  BY DEF NotifyAll

LEMMA TakeableKept ==
    ASSUME UNCHANGED <<spec, queue, serviceActive, backgroundActive, closed>>
    PROVE  Takeable' = Takeable
  BY DEF Takeable, EligibleIn, Eligible, Background, BackgroundLimit

(* A step of w changes the phase of w only, except for the notification.   *)
LEMMA WorkerPhases ==
    ASSUME TypeOK, NEW w \in Worker, WorkerStep(w), NEW v \in Worker, v # w
    PROVE  /\ phase'[v] = "waiting" => phase[v] = "waiting"
           /\ phase'[v] = "exited" <=> phase[v] = "exited"
<1>1. CASE \E r \in queue : Take(w, r)
  BY <1>1 DEF Take, TypeOK
<1>2. CASE Wait(w) \/ Exit(w)
  BY <1>2 DEF Wait, Exit, TypeOK
<1>3. CASE Begin(w) \/ LoaderReturns(w) \/ LoaderRaises(w) \/ BackoffEnds(w)
  BY <1>3 DEF Begin, LoaderReturns, LoaderRaises, BackoffEnds, Finish,
              StartAttempt, Proceed, TypeOK
<1>4. CASE Settle(w) \/ Resolve(w) \/ TaskDone(w)
  BY <1>4 DEF Settle, Resolve, TaskDone, TypeOK
<1>5. CASE Release(w)
  <2>1. phase'[v] = NotifyAll[v]
    BY <1>5 DEF Release, NotifyAll
  <2>2. QED
    BY <2>1, NotifyWakes
<1>6. QED
  BY <1>1, <1>2, <1>3, <1>4, <1>5 DEF WorkerStep

LEMMA WakeupCaller ==
    ASSUME TypeOK, NoLostWakeup, CallerStep
    PROVE  NoLostWakeup'
<1>1. CASE phase' = NotifyAll
  BY <1>1, NotifyWakes DEF NoLostWakeup
<1>2. CASE UNCHANGED <<spec, closed, queue, workers>>
  BY <1>2, TakeableKept DEF NoLostWakeup, workers
<1>3. ASSUME NEW c \in Caller, NEW s \in RequestSpec, Join(c, s) \/ Schedule(c, s)
      PROVE  phase' = NotifyAll \/ UNCHANGED <<spec, closed, queue, workers>>
  BY <1>3 DEF Join, Schedule, vars, registry, requests, workers
<1>4. ASSUME NEW c \in Caller, NEW k \in Key, Invalidate(c, k)
      PROVE  UNCHANGED <<spec, closed, queue, workers>>
  BY <1>4 DEF Invalidate
<1>5. ASSUME NEW k \in Key, Cancel(k)
      PROVE  UNCHANGED <<spec, closed, queue, workers>>
  BY <1>5 DEF Cancel, registry
<1>6. ASSUME NEW R \in SUBSET (ActiveRequests \ cancelled), CancelMatching(R)
      PROVE  phase' = NotifyAll
  BY <1>6 DEF CancelMatching
<1>7. Shutdown => phase' = NotifyAll
  BY DEF Shutdown
<1>8. QED
  BY <1>1, <1>2, <1>3, <1>4, <1>5, <1>6, <1>7 DEF CallerStep

LEMMA WakeupWorker ==
    ASSUME TypeOK, NoLostWakeup, NEW w \in Worker, WorkerStep(w)
    PROVE  NoLostWakeup'
<1>1. CASE \E r \in queue : Take(w, r)
  <2>1. \A v \in Worker : phase[v] # "waiting"
    BY <1>1 DEF Take, NoLostWakeup
  <2>2. \A v \in Worker : phase'[v] # "waiting"
    BY <1>1, <2>1 DEF Take, TypeOK
  <2>3. QED
    BY <2>2 DEF NoLostWakeup
<1>2. CASE Wait(w)
  <2>1. Takeable = {} /\ Takeable' = Takeable
    BY <1>2, TakeableKept DEF Wait, registry, requests
  <2>2. QED
    BY <2>1 DEF NoLostWakeup
<1>3. CASE Release(w)
  <2>1. \A v \in Worker : phase'[v] # "waiting"
    BY <1>3, NotifyWakes DEF Release, NotifyAll
  <2>2. QED
    BY <2>1 DEF NoLostWakeup
<1>4. CASE Exit(w) \/ Begin(w) \/ LoaderReturns(w) \/ LoaderRaises(w)
           \/ BackoffEnds(w) \/ Settle(w) \/ Resolve(w) \/ TaskDone(w)
  <2>1. UNCHANGED <<spec, queue, serviceActive, backgroundActive, closed>>
    BY <1>4 DEF Exit, Begin, LoaderReturns, LoaderRaises, BackoffEnds, Finish,
                StartAttempt, Proceed, Settle, Resolve, TaskDone, registry, requests
  <2>2. phase'[w] # "waiting"
    BY <1>4 DEF Exit, Begin, LoaderReturns, LoaderRaises, BackoffEnds, Finish,
                StartAttempt, Proceed, Settle, Resolve, TaskDone, TypeOK
  <2>3. QED
    BY <2>1, <2>2, TakeableKept, WorkerPhases DEF NoLostWakeup
<1>5. QED
  BY <1>1, <1>2, <1>3, <1>4 DEF WorkerStep

(* While a worker sleeps there is nothing it could take, whatever the size *)
(* of the pool, the lanes and the limits: every event that makes a request *)
(* takeable wakes the sleepers.                                            *)
THEOREM Wakeup == Spec => []NoLostWakeup
<1>1. Init => NoLostWakeup
  BY DEF Init, NoLostWakeup
<1>2. TypeOK /\ NoLostWakeup /\ [Next]_vars => NoLostWakeup'
  <2> SUFFICES ASSUME TypeOK, NoLostWakeup, [Next]_vars PROVE NoLostWakeup'
    OBVIOUS
  <2>1. CASE UNCHANGED vars \/ \E c \in Caller : Announcement(c)
    <3>1. UNCHANGED <<spec, closed, queue, workers>>
      BY <2>1 DEF vars, Announcement, Notify, registry, requests
    <3>2. QED
      BY <3>1, TakeableKept DEF NoLostWakeup, workers
  <2>2. QED
    BY <2>1, WakeupCaller, WakeupWorker DEF Next
<1>3. QED
  BY <1>1, <1>2, TypeCorrect, PTL DEF Spec

-----------------------------------------------------------------------------
(* The end.  A worker ends when it may take nothing.  After shutdown only  *)
(* a saturated service keeps a queued request from being taken, so another *)
(* worker holds its slot and polls again when it has given it back.        *)
Attended ==
    /\ \A w \in Worker : phase[w] = "exited" => closed
    /\ queue # {} => \E w \in Worker : phase[w] # "exited"

LEMMA SaturatedIsServed ==
    ASSUME TypeOK, SlotAccounting, closed, Takeable = {}, NEW r \in queue
    PROVE  \E v \in Worker : phase[v] \in Holding
<1> DEFINE s == spec[r].service
<1>1. EligibleIn(FALSE) = {} /\ EligibleIn(TRUE) = {}
  BY DEF Takeable
<1>2. Background(r) \in BOOLEAN
  BY DEF Background
<1>3. ~Eligible(r)
  BY <1>1, <1>2 DEF EligibleIn
<1>4. s \in Service /\ ~(serviceActive[s] < ServiceLimit[s])
  BY <1>3 DEF Eligible
<1>5. Cardinality(Worker) \in Nat
  BY ConstantsAssumption, FS_CardinalityType
<1>6. ServiceLimit[s] >= 1 /\ ServiceLimit[s] \in Nat
  BY <1>4, <1>5, ConstantsAssumption
<1>7. serviceActive[s] = Cardinality(ServedBy(s)) /\ serviceActive[s] \in Int
  BY <1>4 DEF SlotAccounting, TypeOK
<1>8. Cardinality(ServedBy(s)) # 0
  BY <1>4, <1>6, <1>7
<1>9. ServedBy(s) # {}
  BY <1>8, FS_EmptySet
<1>10. QED
  BY <1>9 DEF ServedBy, HeldBy

LEMMA AttendedStep ==
    ASSUME TypeOK, SlotAccounting, Attended, [Next]_vars
    PROVE  Attended'
<1>1. CASE UNCHANGED vars \/ \E c \in Caller : Announcement(c)
  <2>1. UNCHANGED <<closed, queue, phase>>
    BY <1>1 DEF vars, registry, requests, workers, Announcement, Notify
  <2>2. QED
    BY <2>1 DEF Attended
<1>2. CASE CallerStep
  <2>1. \A w \in Worker : phase'[w] = "exited" <=> phase[w] = "exited"
    BY <1>2, NotifyWakes DEF CallerStep, Join, Schedule, Invalidate, Cancel,
       CancelMatching, Shutdown, vars, workers
  <2>2. closed => closed'
    BY <1>2 DEF CallerStep, Join, Schedule, Invalidate, Cancel,
       CancelMatching, Shutdown, vars, registry
  <2>3. queue' = queue \/ ~closed
    BY <1>2 DEF CallerStep, Join, Schedule, Invalidate, Cancel,
       CancelMatching, Shutdown, vars, requests
  <2>4. QED
    BY <2>1, <2>2, <2>3, ConstantsAssumption DEF Attended
<1>3. ASSUME NEW w \in Worker, WorkerStep(w) PROVE Attended'
  <2>1. closed' = closed /\ queue' \subseteq queue
    BY <1>3 DEF WorkerStep, Take, Wait, Exit, Begin, LoaderReturns,
       LoaderRaises, BackoffEnds, Finish, StartAttempt, Proceed, Settle,
       Resolve, Release, TaskDone, registry, requests
  <2>2. CASE Exit(w)
    <3>1. closed /\ Takeable = {} /\ phase[w] = "idle" /\ queue' = queue
      BY <2>2 DEF Exit, requests
    <3>2. ASSUME queue # {} PROVE \E v \in Worker : phase'[v] # "exited"
      <4>1. PICK v \in Worker : phase[v] \in Holding
        BY <3>1, <3>2, SaturatedIsServed
      <4>2. v # w /\ phase[v] # "exited"
        BY <3>1, <4>1 DEF Holding, Running
      <4>3. QED
        BY <1>3, <4>2, WorkerPhases
    <3>3. QED
      BY <2>1, <3>1, <3>2 DEF Attended
  <2>3. CASE ~Exit(w)
    <3>1. phase'[w] # "exited"
      BY <1>3, <2>3 DEF WorkerStep, Take, Wait, Begin, LoaderReturns,
         LoaderRaises, BackoffEnds, Finish, StartAttempt, Proceed, Settle,
         Resolve, Release, TaskDone, NotifyAll, TypeOK
    <3>2. QED
      BY <1>3, <2>1, <3>1, WorkerPhases DEF Attended
  <2>4. QED
    BY <2>2, <2>3
<1>4. QED
  BY <1>1, <1>2, <1>3 DEF Next

(* Workers that end after shutdown leave no request queued or unanswered,  *)
(* though each may end while requests of a saturated service are waiting.  *)
THEOREM Abandoned == Spec => []NothingAbandoned
<1>1. Init => Attended
  BY ConstantsAssumption DEF Init, Attended
<1>2. TypeOK /\ SlotAccounting /\ Attended /\ [Next]_vars => Attended'
  BY AttendedStep
<1>3. TypeOK /\ Ownership /\ PendingWorkBarrier /\ Attended => NothingAbandoned
  <2> SUFFICES ASSUME TypeOK, Ownership, PendingWorkBarrier, Attended,
                      \A w \in Worker : phase[w] = "exited"
               PROVE  queue = {} /\ \A r \in Submitted : future[r] # "pending"
    BY DEF NothingAbandoned
  <2>1. queue = {}
    BY DEF Attended
  <2>2. \A w \in Worker : job[w] = NoRequest
    BY DEF Ownership, Occupied, Holding, Running
  <2>3. \A r \in Submitted : r # NoRequest
    BY DEF Submitted, NoRequest
  <2>4. \A r \in Submitted : r \notin unfinished
    BY <2>1, <2>2, <2>3 DEF Ownership
  <2>5. QED
    BY <2>1, <2>4 DEF PendingWorkBarrier
<1>4. QED
  BY <1>1, <1>2, <1>3, TypeCorrect, OneFlight, Slots, PTL DEF Spec

-----------------------------------------------------------------------------
(* A request whose token is set never calls its loader (again): every      *)
(* attempt, the first and the ones after a backoff, starts behind a test   *)
(* of the token.                                                           *)
THEOREM NeverLoads == Spec => CancelledNeverLoads
<1>1. ASSUME TypeOK, [Next]_vars, NEW r \in cancelled
      PROVE  loads'[r] = loads[r]
  <2>1. CASE UNCHANGED vars \/ CallerStep \/ \E c \in Caller : Announcement(c)
    BY <2>1 DEF vars, requests, CallerStep, Join, Schedule, Invalidate, Cancel,
       CancelMatching, Shutdown, Announcement, Notify
  <2>2. ASSUME NEW w \in Worker, StartAttempt(w), job[w] \notin cancelled
        PROVE  loads'[r] = loads[r]
    BY <1>1, <2>2 DEF StartAttempt, TypeOK
  <2>3. ASSUME NEW w \in Worker, WorkerStep(w),
               ~(StartAttempt(w) /\ job[w] \notin cancelled)
        PROVE  loads' = loads
    BY <2>3 DEF WorkerStep, Take, Wait, Exit, Begin, LoaderReturns,
       LoaderRaises, BackoffEnds, Finish, Settle, Resolve, Release, TaskDone,
       requests
  <2>4. QED
    BY <1>1, <2>1, <2>2, <2>3 DEF Next
<1>2. TypeOK /\ [Next]_vars => [\A r \in cancelled : loads'[r] = loads[r]]_vars
  BY <1>1
<1>3. QED
  BY <1>2, TypeCorrect, PTL DEF Spec, CancelledNeverLoads

(* A result older than the key's tombstone is never published: neither a   *)
(* worker's, nor the one a caller announces after it left the lock.        *)
THEOREM LateResult == Spec => LateResultNeverWins
<1>1. ASSUME TypeOK, [Next]_vars, NEW k \in Key, states'[k] # states[k]
      PROVE  states'[k].generation >= lastGeneration[k] \/ states'[k].id = sequence + 1
  <2>1. states' # states
    BY <1>1
  <2>2. ASSUME NEW c \in Caller, NEW s \in RequestSpec, Schedule(c, s)
        PROVE  states'[k].id = sequence + 1
    BY <1>1, <2>2 DEF Schedule, TypeOK
  <2>3. ASSUME NEW c \in Caller, NEW j \in Key, Invalidate(c, j)
        PROVE  states'[k].generation >= lastGeneration[k]
    BY <1>1, <2>3 DEF Invalidate, TypeOK
  <2>4. ASSUME NEW c \in Caller, NEW n \in notifying[c], Notify(c, n)
        PROVE  states'[k].generation >= lastGeneration[k]
    <3>1. n.key \in Key /\ n.result.generation \in Int
      BY <1>1, <2>4 DEF TypeOK, Result
    <3>2. k = n.key /\ states'[k] = n.result /\ ~(n.result.generation < lastGeneration[k])
      BY <1>1, <2>4, <3>1 DEF Notify, TypeOK
    <3>3. QED
      BY <1>1, <3>1, <3>2 DEF TypeOK
  <2>5. ASSUME NEW w \in Worker, Settle(w)
        PROVE  states'[k].generation >= lastGeneration[k]
    <3>1. /\ IsCurrent(job[w]) /\ k = spec[job[w]].key
          /\ states'[k] = ResultOf(job[w], PublishedStatus(job[w], outcome[w]))
      BY <1>1, <2>5 DEF Settle, TypeOK
    <3>2. QED
      BY <3>1 DEF IsCurrent, ResultOf
  <2>6. ASSUME CallerStep, states' # states
        PROVE  \/ \E c \in Caller, s \in RequestSpec : Schedule(c, s)
               \/ \E c \in Caller, j \in Key : Invalidate(c, j)
    BY <2>6 DEF CallerStep, Join, Cancel, CancelMatching, Shutdown, vars, registry
  <2>7. ASSUME NEW w \in Worker, WorkerStep(w), states' # states PROVE Settle(w)
    BY <2>7 DEF WorkerStep, Take, Wait, Exit, Begin, LoaderReturns,
       LoaderRaises, BackoffEnds, Finish, StartAttempt, Proceed, Resolve,
       Release, TaskDone, registry
  <2>8. states' # states => ~UNCHANGED vars
    BY DEF vars, registry
  <2>9. QED
    BY <1>1, <2>1, <2>2, <2>3, <2>4, <2>5, <2>6, <2>7, <2>8 DEF Next, Announcement
<1>2. TypeOK /\ [Next]_vars =>
        [\A k \in Key : states'[k] # states[k] =>
            \/ states'[k].generation >= lastGeneration[k]
            \/ states'[k].id = sequence + 1]_vars
  BY <1>1
<1>3. QED
  BY <1>2, TypeCorrect, PTL DEF Spec, LateResultNeverWins
=============================================================================
