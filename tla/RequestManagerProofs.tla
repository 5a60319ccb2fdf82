------------------------- MODULE RequestManagerProofs -------------------------
(* Proofs about RequestManager, for every set of keys, services, callers   *)
(* and workers, every request and every bound.                             *)
EXTENDS RequestManager, FiniteSetTheorems, TLAPS

-----------------------------------------------------------------------------
(* Type correctness, with the ownership of requests it takes: a worker     *)
(* holds a request exactly from Take to TaskDone, no request is held twice *)
(* or held and queued, and the unfinished ones are the held and queued.    *)

Occupied == Holding \cup {"released"}

Ownership ==
    /\ \A w \in Worker : job[w] # NoRequest <=> phase[w] \in Occupied
    /\ \A v, w \in Worker : job[v] = job[w] /\ job[v] # NoRequest => v = w
    /\ \A w \in Worker : job[w] \notin queue
    /\ \A r \in Submitted :
          r \in unfinished <=> r \in queue \/ \E w \in Worker : job[w] = r

LEMMA NotifyAllType ==
    ASSUME TypeOK
    PROVE  NotifyAll \in [Worker -> Phase]
BY DEF TypeOK, NotifyAll, Phase

LEMMA ScheduleType ==
    ASSUME TypeOK, NEW c \in Caller, NEW s \in RequestSpec, Schedule(c, s)
    PROVE  TypeOK'
<1> DEFINE new == sequence + 1
           generation == GenerationFor(s)
<1>0. /\ s \in SpecOf(Key, Service \cup {NoService})
      /\ s.key \in Key /\ s.generation \in Nat
  BY ConstantsAssumption DEF SpecOf
<1>1. generation \in Nat
  BY <1>0 DEF TypeOK, GenerationFor
<1>2. [s EXCEPT !.generation = generation] \in SpecOf(Key, Service \cup {NoService})
  BY <1>0, <1>1 DEF SpecOf
<1>3. sequence' = new /\ new \in 1..MaxRequests /\ sequence \in 0..MaxRequests
  BY ConstantsAssumption DEF Schedule, TypeOK
<1>n. sequence' \in 0..MaxRequests
  BY <1>3
<1>4. spec' \in [Submitted' -> SpecOf(Key, Service \cup {NoService})]
  <2>1. spec' = [r \in 1..new |-> IF r = new
                    THEN [s EXCEPT !.generation = generation] ELSE spec[r]]
    BY DEF Schedule
  <2>2. Submitted' = 1..new /\ \A r \in 1..new : r # new => r \in Submitted
    BY <1>3 DEF Submitted
  <2> HIDE DEF new, generation
  <2>3. QED BY <2>1, <2>2, <1>2 DEF TypeOK
<1>5. Submitted \subseteq Submitted' /\ new \in Submitted' /\ new \in Request
  BY <1>3 DEF Submitted, Request
<1>6. [status |-> "loading", generation |-> generation, id |-> new] \in Result
  BY <1>1, <1>5 DEF Result, Status
<1>7. /\ active' = [active EXCEPT ![s.key] = new]
      /\ states' = [states EXCEPT ![s.key] =
            [status |-> "loading", generation |-> generation, id |-> new]]
      /\ lastGeneration' = [lastGeneration EXCEPT
            ![s.key] = IF @ > generation THEN @ ELSE generation]
      /\ queue' = queue \cup {new} /\ unfinished' = unfinished \cup {new}
      /\ cancelled' = cancelled \cup ({active[s.key]} \ {NoRequest})
      /\ phase' = NotifyAll
      /\ notifying' = [notifying EXCEPT ![c] = {[key |-> s.key, result |->
            [status |-> "loading", generation |-> generation, id |-> new]]}]
      /\ UNCHANGED <<closed, loads, future, job, outcome, serviceActive,
                     backgroundActive>>
  BY DEF Schedule, Announce, Dropped
<1> HIDE DEF new, generation
<1>8. active' \in [Key -> Submitted' \cup {NoRequest}]
  BY <1>0, <1>5, <1>7 DEF TypeOK
<1>9. states' \in [Key -> Result] /\ lastGeneration' \in [Key -> Int]
  BY <1>0, <1>1, <1>6, <1>7 DEF TypeOK
<1>10. /\ queue' \subseteq Submitted' /\ unfinished' \subseteq Submitted'
       /\ cancelled' \subseteq Submitted'
  BY <1>0, <1>5, <1>7 DEF TypeOK
<1>11. \A d \in Caller : \A n \in notifying'[d] : n.key \in Key /\ n.result \in Result
  BY <1>0, <1>6, <1>7 DEF TypeOK
<1>12. job' \in [Worker -> Submitted' \cup {NoRequest}]
  BY <1>5, <1>7 DEF TypeOK
<1>13. phase' \in [Worker -> Phase]
  BY <1>7, NotifyAllType
<1>14. QED
  BY <1>n, <1>4, <1>7, <1>8, <1>9, <1>10, <1>11, <1>12, <1>13 DEF TypeOK

LEMMA SubmittedSame ==
    ASSUME UNCHANGED sequence
    PROVE  Submitted' = Submitted
BY DEF Submitted

LEMMA CallerType ==
    ASSUME TypeOK, CallerStep
    PROVE  TypeOK'
<1>0. ActiveRequests \subseteq Submitted
  BY DEF TypeOK, ActiveRequests
<1>1. ASSUME NEW c \in Caller, NEW s \in RequestSpec, Join(c, s)
      PROVE  TypeOK'
  BY <1>1, SubmittedSame DEF TypeOK, Join, vars, registry, requests, workers
<1>2. ASSUME NEW c \in Caller, NEW k \in Key, Invalidate(c, k)
      PROVE  TypeOK'
  <2>1. [status |-> "idle", generation |-> lastGeneration[k] + 1,
         id |-> NoRequest] \in Result
    BY DEF TypeOK, Result, Status
  <2>2. /\ active' \in [Key -> Submitted \cup {NoRequest}]
        /\ cancelled' \subseteq Submitted
        /\ lastGeneration' \in [Key -> Int]
    BY <1>2 DEF TypeOK, Invalidate, Dropped
  <2>3. states' \in [Key -> Result]
    BY <1>2, <2>1 DEF TypeOK, Invalidate
  <2>4. \A d \in Caller : \A n \in notifying'[d] : n.key \in Key /\ n.result \in Result
    BY <1>2, <2>1 DEF TypeOK, Invalidate, Announce
  <2>5. UNCHANGED <<sequence, spec, closed, queue, unfinished, loads, future, workers>>
    BY <1>2 DEF Invalidate
  <2>6. QED
    BY <2>2, <2>3, <2>4, <2>5, SubmittedSame DEF TypeOK, workers
<1>3. ASSUME NEW k \in Key, Cancel(k)
      PROVE  TypeOK'
  BY <1>3, SubmittedSame DEF TypeOK, Cancel, registry, workers
<1>4. ASSUME NEW R \in SUBSET (ActiveRequests \ cancelled), CancelMatching(R)
      PROVE  TypeOK'
  <2>1. cancelled' \subseteq Submitted /\ phase' \in [Worker -> Phase]
    BY <1>0, <1>4, NotifyAllType DEF TypeOK, CancelMatching
  <2>2. QED
    BY <1>4, <2>1, SubmittedSame DEF TypeOK, CancelMatching, registry
<1>5. CASE Shutdown
  <2>1. cancelled' \subseteq Submitted /\ phase' \in [Worker -> Phase]
    BY <1>0, <1>5, NotifyAllType DEF TypeOK, Shutdown
  <2>2. QED
    BY <1>5, <2>1, SubmittedSame DEF TypeOK, Shutdown
<1>6. QED
  BY <1>1, <1>2, <1>3, <1>4, <1>5, ScheduleType DEF CallerStep

LEMMA NotifyType ==
    ASSUME TypeOK, NEW c \in Caller, NEW n \in notifying[c], Notify(c, n)
    PROVE  TypeOK'
<1>1. n.key \in Key /\ n.result \in Result /\ n.result.generation \in Int
  BY DEF TypeOK, Result
<1>2. lastGeneration' \in [Key -> Int] /\ states' \in [Key -> Result]
  BY <1>1 DEF TypeOK, Notify
<1>3. \A d \in Caller : \A m \in notifying'[d] : m.key \in Key /\ m.result \in Result
  BY DEF TypeOK, Notify
<1>4. QED
  BY <1>2, <1>3, SubmittedSame DEF TypeOK, Notify, requests, workers

(* The request of a worker that holds one has been submitted.              *)
LEMMA HeldSubmitted ==
    ASSUME TypeOK, Ownership, NEW w \in Worker,
           phase[w] \in Occupied
    PROVE  /\ job[w] \in Submitted /\ job[w] \in Request
           /\ spec[job[w]] \in SpecOf(Key, Service \cup {NoService})
           /\ spec[job[w]].key \in Key /\ spec[job[w]].generation \in Nat
BY ConstantsAssumption, SMTT(30) DEF TypeOK, Ownership, Submitted, Request, SpecOf,
   NoRequest

LEMMA WorkerType ==
    ASSUME TypeOK, Ownership, NEW w \in Worker, WorkerStep(w)
    PROVE  TypeOK'
<1> USE DEF registry, requests, workers
<1>1. ASSUME NEW r \in queue, Take(w, r)
      PROVE  TypeOK'
  <2>1. serviceActive' \in [Service -> Int] /\ backgroundActive' \in Int
    BY <1>1 DEF TypeOK, Take
  <2>2. /\ phase' \in [Worker -> Phase] /\ queue' \subseteq Submitted
        /\ job' \in [Worker -> Submitted \cup {NoRequest}]
    BY <1>1 DEF TypeOK, Take, Phase, Holding, Running
  <2>3. QED
    BY <1>1, <2>1, <2>2, SubmittedSame DEF TypeOK, Take
<1>2. CASE Wait(w) \/ Exit(w)
  BY <1>2, SubmittedSame DEF TypeOK, Wait, Exit, Phase
<1>3. ASSUME NEW status \in FinalStatus, Finish(w, status)
      PROVE  TypeOK'
  BY <1>3, SubmittedSame DEF TypeOK, Finish, Proceed, Phase, Holding, Running
<1>4. CASE StartAttempt(w)
  <2>0. loads \in [Request -> Nat] /\ loads' = [loads EXCEPT ![job[w]] = @ + 1]
    BY <1>4 DEF TypeOK, StartAttempt
  <2>1. phase' \in [Worker -> Phase]
    BY <1>4 DEF TypeOK, StartAttempt, Proceed, Phase, Holding, Running
  <2>n. loads' \in [Request -> Nat]
    <3>1. \A r \in Request : loads'[r] \in Nat
      BY <2>0
    <3>2. QED
      BY <2>0, <3>1
  <2>2. outcome' \in [Worker -> FinalStatus]
    BY <1>4 DEF TypeOK, StartAttempt, Proceed
  <2>3. QED
    BY <1>4, <2>1, <2>n, <2>2, SubmittedSame DEF TypeOK, StartAttempt, Proceed
<1>5. CASE Proceed(w, "backoff", outcome[w]) /\ UNCHANGED loads
  BY <1>5, SubmittedSame DEF TypeOK, Proceed, Phase, Holding, Running
<1>6. CASE Begin(w) \/ LoaderReturns(w) \/ LoaderRaises(w) \/ BackoffEnds(w)
  <2>1. {"cancelled", "offline", "error", "ready"} \subseteq FinalStatus
    BY DEF FinalStatus
  <2>2. QED
    BY <1>3, <1>4, <1>5, <1>6, <2>1
    DEF Begin, LoaderReturns, LoaderRaises, BackoffEnds
<1>7. CASE Settle(w)
  <2>1. job[w] \in Request /\ spec[job[w]].key \in Key
        /\ spec[job[w]].generation \in Nat
    BY <1>7, HeldSubmitted DEF Settle, Holding, Running, Occupied
  <2>2. ResultOf(job[w], PublishedStatus(job[w], outcome[w])) \in Result
    BY <2>1 DEF TypeOK, ResultOf, PublishedStatus, Result, Status
  <2>3. QED
    BY <1>7, <2>1, <2>2, SubmittedSame
    DEF TypeOK, Settle, ActiveWithout, Phase, Holding
<1>8. CASE Resolve(w)
  BY <1>8, SubmittedSame DEF TypeOK, Resolve, Phase, Holding
<1>9. CASE Release(w)
  <2>1. serviceActive' \in [Service -> Int] /\ backgroundActive' \in Int
    BY <1>9 DEF TypeOK, Release, AtLeastZero
  <2>2. phase' \in [Worker -> Phase]
    BY <1>9, NotifyAllType DEF Release, Phase
  <2>3. QED
    BY <1>9, <2>1, <2>2, SubmittedSame DEF TypeOK, Release
<1>10. CASE TaskDone(w)
  BY <1>10, SubmittedSame DEF TypeOK, TaskDone, Phase, FinalStatus
<1>11. QED
  BY <1>1, <1>2, <1>6, <1>7, <1>8, <1>9, <1>10 DEF WorkerStep

LEMMA TypeStep ==
    ASSUME TypeOK, Ownership, [Next]_vars
    PROVE  TypeOK'
<1>1. CASE UNCHANGED vars
  BY <1>1, SubmittedSame DEF TypeOK, vars, registry, requests, workers
<1>2. CASE Next
  BY <1>2, CallerType, NotifyType, WorkerType DEF Next, Announcement
<1>3. QED
  BY <1>1, <1>2

(* notify_all changes no phase but "waiting".                              *)
LEMMA NotifyAllPhase ==
    ASSUME TypeOK, NEW w \in Worker
    PROVE  /\ NotifyAll[w] # "waiting"
           /\ NotifyAll[w] \in Occupied <=> phase[w] \in Occupied
           /\ NotifyAll[w] \in Holding <=> phase[w] \in Holding
           /\ NotifyAll[w] \in Running <=> phase[w] \in Running
           /\ NotifyAll[w] = "exited" <=> phase[w] = "exited"
           /\ NotifyAll[w] # phase[w] =>
                 phase[w] = "waiting" /\ NotifyAll[w] = "idle"
BY DEF TypeOK, NotifyAll, Occupied, Holding, Running

LEMMA OwnershipKept ==
    ASSUME Ownership, UNCHANGED <<sequence, job, queue, unfinished>>,
           \A w \in Worker : phase'[w] \in Occupied <=> phase[w] \in Occupied
    PROVE  Ownership'
BY SubmittedSame DEF Ownership

LEMMA OwnershipWorker ==
    ASSUME TypeOK, Ownership, NEW w \in Worker, WorkerStep(w)
    PROVE  Ownership'
<1> USE DEF registry, requests, workers
<1>1. ASSUME NEW r \in queue, Take(w, r)
      PROVE  Ownership'
  <2>1. /\ phase[w] = "idle" /\ phase' = [phase EXCEPT ![w] = "taken"]
        /\ job' = [job EXCEPT ![w] = r] /\ queue' = queue \ {r}
        /\ unfinished' = unfinished /\ Submitted' = Submitted
    BY <1>1, SubmittedSame DEF Take
  <2>2. job[w] = NoRequest /\ r \in Submitted /\ r # NoRequest
    <3>1. job[w] = NoRequest
      BY <2>1 DEF Ownership, Occupied, Holding, Running
    <3>2. r \in Submitted
      BY DEF TypeOK
    <3>3. QED
      BY <3>1, <3>2 DEF Submitted, NoRequest
  <2>3. \A v \in Worker : job'[v] = (IF v = w THEN r ELSE job[v])
    BY <2>1 DEF TypeOK
  <2>4. \A v \in Worker : phase'[v] = (IF v = w THEN "taken" ELSE phase[v])
    BY <2>1 DEF TypeOK
  <2>5. "taken" \in Occupied
    BY DEF Occupied, Holding, Running
  <2>6. \A v \in Worker : job'[v] # NoRequest <=> phase'[v] \in Occupied
    BY <2>2, <2>3, <2>4, <2>5 DEF Ownership
  <2>7. \A v, u \in Worker : job'[v] = job'[u] /\ job'[v] # NoRequest => u = v
    BY <2>2, <2>3 DEF Ownership
  <2>8. \A v \in Worker : job'[v] \notin queue'
    BY <2>1, <2>3 DEF Ownership
  <2>9. \A q \in Submitted : q \in unfinished' <=>
            q \in queue' \/ \E v \in Worker : job'[v] = q
    <3>1. ASSUME NEW q \in Submitted
          PROVE  (\E v \in Worker : job'[v] = q) <=>
                    q = r \/ \E v \in Worker : job[v] = q
      <4>1. q # NoRequest
        BY DEF Submitted, NoRequest
      <4>2. QED
        BY <2>2, <2>3, <4>1
    <3>2. QED
      BY <2>1, <2>2, <3>1 DEF Ownership
  <2>10. QED
    BY <2>1, <2>6, <2>7, <2>8, <2>9 DEF Ownership
<1>2. CASE Wait(w) \/ Exit(w)
  BY <1>2, OwnershipKept DEF TypeOK, Wait, Exit, Occupied, Holding, Running
<1>3. ASSUME phase[w] \in Occupied, NEW next \in Occupied,
             phase' = [phase EXCEPT ![w] = next],
             UNCHANGED <<sequence, job, queue, unfinished>>
      PROVE  Ownership'
  BY <1>3, OwnershipKept DEF TypeOK
<1>4. CASE \/ Begin(w) \/ LoaderReturns(w) \/ LoaderRaises(w) \/ BackoffEnds(w)
           \/ Settle(w) \/ Resolve(w)
  BY <1>3, <1>4
  DEF Begin, LoaderReturns, LoaderRaises, BackoffEnds, Settle, Resolve, Finish,
      StartAttempt, Proceed, Occupied, Holding, Running
<1>5. CASE Release(w)
  <2>1. /\ phase[w] \in Occupied /\ "released" \in Occupied
        /\ phase' = [NotifyAll EXCEPT ![w] = "released"]
        /\ UNCHANGED <<sequence, job, queue, unfinished>>
    BY <1>5 DEF Release, Occupied, Holding
  <2>2. \A v \in Worker : phase'[v] \in Occupied <=> phase[v] \in Occupied
    BY <2>1, NotifyAllPhase, NotifyAllType
  <2>3. QED
    BY <2>1, <2>2, OwnershipKept
<1>6. CASE TaskDone(w)
  <2>1. /\ phase[w] \in Occupied /\ phase' = [phase EXCEPT ![w] = "idle"]
        /\ job' = [job EXCEPT ![w] = NoRequest] /\ queue' = queue
        /\ unfinished' = unfinished \ {job[w]} /\ Submitted' = Submitted
    BY <1>6, SubmittedSame DEF TaskDone, Occupied
  <2>2. /\ \A v \in Worker : job'[v] = (IF v = w THEN NoRequest ELSE job[v])
        /\ \A v \in Worker : phase'[v] = (IF v = w THEN "idle" ELSE phase[v])
        /\ "idle" \notin Occupied /\ NoRequest \notin Submitted
    BY <2>1 DEF TypeOK, Occupied, Holding, Running, Submitted, NoRequest
  <2>3. \A v \in Worker : job'[v] # NoRequest <=> phase'[v] \in Occupied
    BY <2>2 DEF Ownership
  <2>4. \A v, u \in Worker : job'[v] = job'[u] /\ job'[v] # NoRequest => u = v
    BY <2>2 DEF Ownership
  <2>5. \A v \in Worker : job'[v] \notin queue'
    BY <2>1, <2>2 DEF Ownership, TypeOK
  <2>6. \A q \in Submitted : q \in unfinished' <=>
            q \in queue' \/ \E v \in Worker : job'[v] = q
    BY <2>1, <2>2 DEF Ownership
  <2>7. QED
    BY <2>1, <2>3, <2>4, <2>5, <2>6 DEF Ownership
<1>7. QED
  BY <1>1, <1>2, <1>4, <1>5, <1>6 DEF WorkerStep

LEMMA OwnershipStep ==
    ASSUME TypeOK, Ownership, [Next]_vars
    PROVE  Ownership'
<1>1. ASSUME NEW c \in Caller, NEW s \in RequestSpec, Schedule(c, s)
      PROVE  Ownership'
  <2>1. /\ job' = job /\ phase' = NotifyAll
        /\ queue' = queue \cup {sequence + 1}
        /\ unfinished' = unfinished \cup {sequence + 1}
        /\ sequence' = sequence + 1
    BY <1>1 DEF Schedule
  <2>2. Submitted' = Submitted \cup {sequence + 1} /\ sequence + 1 \notin Submitted
        /\ sequence + 1 # NoRequest
    BY <2>1 DEF TypeOK, Submitted, NoRequest
  <2>3. \A w \in Worker : job[w] # sequence + 1
    BY <2>2 DEF TypeOK
  <2>4. \A w \in Worker : job'[w] # NoRequest <=> phase'[w] \in Occupied
    BY <2>1, NotifyAllPhase DEF Ownership
  <2>5. \A q \in Submitted' : q \in unfinished' <=>
            q \in queue' \/ \E v \in Worker : job'[v] = q
    BY <2>1, <2>2 DEF Ownership
  <2>6. QED
    BY <2>1, <2>3, <2>4, <2>5 DEF Ownership
<1>2. CASE Shutdown \/ \E R \in SUBSET (ActiveRequests \ cancelled) : CancelMatching(R)
  BY <1>2, OwnershipKept, NotifyAllPhase DEF Shutdown, CancelMatching, registry
<1>3. CASE \/ UNCHANGED vars
           \/ \E k \in Key : Cancel(k)
           \/ \E c \in Caller, s \in RequestSpec : Join(c, s)
           \/ \E c \in Caller, k \in Key : Invalidate(c, k)
           \/ \E c \in Caller : Announcement(c)
  BY <1>3, OwnershipKept
  DEF vars, Cancel, Join, Invalidate, Announcement, Notify, registry, requests, workers
<1>4. QED
  BY <1>1, <1>2, <1>3, OwnershipWorker DEF Next, CallerStep

LEMMA InitType == Init => TypeOK /\ Ownership
<1> SUFFICES ASSUME Init PROVE TypeOK /\ Ownership
  OBVIOUS
<1>1. Submitted = {}
  BY DEF Init, Submitted
<1>2. Unknown \in Result
  BY DEF Unknown, Result, Status, Request
<1>3. TypeOK
  <2>1. /\ sequence \in 0..MaxRequests
        /\ spec \in [Submitted -> SpecOf(Key, Service \cup {NoService})]
    BY <1>1, ConstantsAssumption DEF Init
  <2>2. /\ active \in [Key -> Submitted \cup {NoRequest}]
        /\ states \in [Key -> Result] /\ lastGeneration \in [Key -> Int]
    BY <1>2 DEF Init
  <2>3. /\ loads \in [Request -> Nat]
        /\ future \in [Request -> FinalStatus \cup {"pending"}]
        /\ phase \in [Worker -> Phase] /\ outcome \in [Worker -> FinalStatus]
        /\ job \in [Worker -> Submitted \cup {NoRequest}]
    BY DEF Init, FinalStatus, Phase
  <2>4. /\ closed \in BOOLEAN /\ queue \subseteq Submitted
        /\ unfinished \subseteq Submitted /\ cancelled \subseteq Submitted
    BY DEF Init
  <2>5. serviceActive \in [Service -> Int] /\ backgroundActive \in Int
    BY DEF Init
  <2>6. \A c \in Caller : \A n \in notifying[c] : n.key \in Key /\ n.result \in Result
    BY DEF Init
  <2>7. QED
    BY <2>1, <2>2, <2>3, <2>4, <2>5, <2>6 DEF TypeOK
<1>4. Ownership
  BY <1>1 DEF Init, Ownership, Occupied, Holding, Running
<1>5. QED
  BY <1>3, <1>4

(* Every variable keeps its type: counters stay numbers, published results *)
(* name submitted requests, and a worker's request is a submitted one.     *)
THEOREM TypeCorrect == Spec => [](TypeOK /\ Ownership)
<1>1. TypeOK /\ Ownership /\ [Next]_vars => (TypeOK /\ Ownership)'
  BY TypeStep, OwnershipStep
<1>2. QED
  BY InitType, <1>1, PTL DEF Spec

-----------------------------------------------------------------------------
(* One flight per key.  A step changes which requests are live in three    *)
(* ways only: a submission adds one, a worker's Settle ends one, and every *)
(* other step keeps them.                                                  *)

LEMMA LiveKept ==
    ASSUME UNCHANGED <<queue, job>>,
           \A w \in Worker : phase'[w] \in Running <=> phase[w] \in Running,
           NEW r
    PROVE  Live(r)' <=> Live(r)
BY DEF Live

LEMMA LiveSchedule ==
    ASSUME TypeOK, NEW c \in Caller, NEW s \in RequestSpec, Schedule(c, s),
           NEW r
    PROVE  Live(r)' <=> Live(r) \/ r = sequence + 1
<1>1. /\ queue' = queue \cup {sequence + 1} /\ job' = job /\ phase' = NotifyAll
  BY DEF Schedule
<1>2. QED
  BY <1>1, NotifyAllPhase DEF Live

LEMMA LiveTake ==
    ASSUME TypeOK, Ownership, NEW w \in Worker, NEW q \in queue, Take(w, q),
           NEW r
    PROVE  Live(r)' <=> Live(r)
<1>1. /\ queue' = queue \ {q} /\ job' = [job EXCEPT ![w] = q]
      /\ phase' = [phase EXCEPT ![w] = "taken"] /\ phase[w] = "idle"
  BY DEF Take
<1>2. /\ \A v \in Worker : job'[v] = (IF v = w THEN q ELSE job[v])
      /\ \A v \in Worker : phase'[v] = (IF v = w THEN "taken" ELSE phase[v])
      /\ "taken" \in Running /\ phase[w] \notin Running
  BY <1>1 DEF TypeOK, Running
<1>3. QED
  BY <1>1, <1>2 DEF Live

LEMMA LiveSettle ==
    ASSUME TypeOK, Ownership, NEW w \in Worker, Settle(w), NEW r
    PROVE  Live(r)' <=> Live(r) /\ r # job[w]
<1>1. /\ queue' = queue /\ job' = job /\ phase[w] = "finishing"
      /\ phase' = [phase EXCEPT ![w] = "settled"]
  BY DEF Settle, requests
<1>2. /\ \A v \in Worker : phase'[v] = (IF v = w THEN "settled" ELSE phase[v])
      /\ "settled" \notin Running /\ phase[w] \in Running
      /\ phase[w] \in Occupied
  BY <1>1 DEF TypeOK, Running, Occupied, Holding
<1>3. /\ job[w] # NoRequest /\ job[w] \notin queue
      /\ \A v \in Worker : job[v] = job[w] => v = w
  BY <1>2 DEF Ownership
<1>4. QED
  BY <1>1, <1>2, <1>3 DEF Live

LEMMA LiveWorker ==
    ASSUME TypeOK, Ownership, NEW w \in Worker, WorkerStep(w), ~Settle(w), NEW r
    PROVE  Live(r)' <=> Live(r)
<1> USE DEF requests
<1>1. ASSUME NEW next, UNCHANGED <<queue, job>>,
             phase' = [phase EXCEPT ![w] = next],
             next \in Running <=> phase[w] \in Running
      PROVE  Live(r)' <=> Live(r)
  BY <1>1, LiveKept DEF TypeOK
<1>2. CASE Wait(w) \/ Exit(w) \/ Resolve(w)
  BY <1>1, <1>2 DEF Wait, Exit, Resolve, Running
<1>3. CASE Begin(w) \/ LoaderReturns(w) \/ LoaderRaises(w) \/ BackoffEnds(w)
  BY <1>1, <1>3
  DEF Begin, LoaderReturns, LoaderRaises, BackoffEnds, Finish, StartAttempt,
      Proceed, Running
<1>4. CASE Release(w)
  <2>1. /\ UNCHANGED <<queue, job>> /\ phase[w] = "resolved"
        /\ phase' = [NotifyAll EXCEPT ![w] = "released"]
    BY <1>4 DEF Release
  <2>2. \A v \in Worker : phase'[v] \in Running <=> phase[v] \in Running
    BY <2>1, NotifyAllPhase, NotifyAllType DEF Running
  <2>3. QED
    BY <2>1, <2>2, LiveKept
<1>5. CASE TaskDone(w)
  <2>1. /\ queue' = queue /\ phase[w] = "released"
        /\ \A v \in Worker : phase'[v] = (IF v = w THEN "idle" ELSE phase[v])
        /\ \A v \in Worker : v # w => job'[v] = job[v]
    BY <1>5 DEF TaskDone, TypeOK
  <2>2. QED
    BY <2>1 DEF Live, Running
<1>6. QED
  BY <1>2, <1>3, <1>4, <1>5, LiveTake DEF WorkerStep

(* A submitted request without an answer can still be answered: it is live *)
(* or its worker is about to resolve it.                                   *)
Awaiting(r) == \E w \in Worker : job[w] = r /\ phase[w] = "settled"
Unanswered ==
    \A r \in Submitted : future[r] = "pending" => Live(r) \/ Awaiting(r)

FlightInv == SingleFlight /\ ActiveIsLive /\ ShutdownCancelsAll /\ Unanswered

LEMMA FlightSchedule ==
    ASSUME TypeOK, FlightInv, NEW c \in Caller, NEW s \in RequestSpec,
           Schedule(c, s)
    PROVE  FlightInv'
<1> DEFINE new == sequence + 1
<1>1. /\ closed = FALSE /\ closed' = FALSE /\ s.key \in Key
      /\ active' = [active EXCEPT ![s.key] = new]
      /\ cancelled' = cancelled \cup ({active[s.key]} \ {NoRequest})
      /\ future' = future /\ job' = job /\ phase' = NotifyAll
      /\ sequence' = new
  BY ConstantsAssumption DEF Schedule, Dropped, TypeOK, SpecOf
<1>2. Submitted' = Submitted \cup {new} /\ new \notin Submitted /\ new # NoRequest
  BY <1>1 DEF TypeOK, Submitted, NoRequest
<1>3. /\ \A r \in Submitted : spec'[r].key = spec[r].key
      /\ spec'[new].key = s.key
  <2>1. \A r \in Submitted' : spec'[r] =
            IF r = new THEN [s EXCEPT !.generation = GenerationFor(s)] ELSE spec[r]
    BY <1>1 DEF Schedule, Submitted
  <2>2. [s EXCEPT !.generation = GenerationFor(s)].key = s.key
    BY ConstantsAssumption DEF SpecOf
  <2>3. QED
    BY <2>1, <2>2, <1>2
<1>4. \A r : Live(r)' <=> Live(r) \/ r = new
  BY LiveSchedule
<1>5. \A r : Awaiting(r)' <=> Awaiting(r)
  BY <1>1, NotifyAllPhase DEF Awaiting
<1> HIDE DEF new
<1>6. SingleFlight'
  <2>1. ASSUME NEW r \in Submitted', Live(r)'
        PROVE  active'[spec'[r].key] = r \/ r \in cancelled'
    <3>1. CASE r = new
      BY <1>1, <1>3, <3>1 DEF TypeOK
    <3>2. CASE r # new
      <4>1. r \in Submitted /\ Live(r) /\ r # NoRequest
        BY <1>2, <1>4, <2>1, <3>2 DEF Submitted, NoRequest
      <4>2. active[spec[r].key] = r \/ r \in cancelled
        BY <4>1 DEF FlightInv, SingleFlight
      <4>3. QED
        BY <1>1, <1>3, <4>1, <4>2 DEF TypeOK
    <3>3. QED
      BY <3>1, <3>2
  <2>2. QED
    BY <2>1 DEF SingleFlight
<1>7. ActiveIsLive'
  <2>1. ASSUME NEW k \in Key, active'[k] # NoRequest
        PROVE  \E q : q = active'[k] /\ Live(q)' /\ spec'[q].key = k
    <3>1. CASE k = s.key
      BY <1>1, <1>3, <1>4, <3>1 DEF TypeOK
    <3>2. CASE k # s.key
      <4>1. active'[k] = active[k] /\ active[k] \in Submitted
        BY <1>1, <2>1, <3>2 DEF TypeOK
      <4>2. Live(active[k]) /\ spec[active[k]].key = k
        BY <2>1, <4>1 DEF FlightInv, ActiveIsLive
      <4>3. QED
        BY <1>3, <1>4, <4>1, <4>2
    <3>3. QED
      BY <3>1, <3>2
  <2>2. QED
    BY <2>1 DEF ActiveIsLive, Live
<1>8. ShutdownCancelsAll'
  BY <1>1 DEF ShutdownCancelsAll
<1>9. Unanswered'
  BY <1>1, <1>2, <1>4, <1>5 DEF FlightInv, Unanswered
<1>10. QED
  BY <1>6, <1>7, <1>8, <1>9 DEF FlightInv

(* Steps that cancel or drop active requests but end no flight.            *)
LEMMA FlightCaller ==
    ASSUME TypeOK, FlightInv, CallerStep,
           ~ \E c \in Caller, s \in RequestSpec : Schedule(c, s)
    PROVE  FlightInv'
<1> USE DEF registry, requests, workers
<1>1. /\ UNCHANGED <<sequence, spec, queue, job, future>>
      /\ Submitted' = Submitted
      /\ cancelled \subseteq cancelled'
      /\ phase' = phase \/ phase' = NotifyAll
  BY SubmittedSame
  DEF CallerStep, Join, Invalidate, Cancel, CancelMatching, Shutdown, vars
<1>2. \A w \in Worker : /\ phase'[w] \in Running <=> phase[w] \in Running
                        /\ phase'[w] = "settled" <=> phase[w] = "settled"
  BY <1>1, NotifyAllPhase
<1>3. \A r : (Live(r)' <=> Live(r)) /\ (Awaiting(r)' <=> Awaiting(r))
  BY <1>1, <1>2, LiveKept DEF Awaiting
<1>4. Unanswered'
  BY <1>1, <1>3 DEF FlightInv, Unanswered
<1>5. ASSUME active' = active, closed' = closed \/ ActiveRequests \subseteq cancelled'
      PROVE  FlightInv'
  <2>1. SingleFlight'
    BY <1>1, <1>3, <1>5 DEF FlightInv, SingleFlight
  <2>2. ActiveIsLive'
    BY <1>1, <1>3, <1>5 DEF FlightInv, ActiveIsLive
  <2>3. ShutdownCancelsAll'
    <3>1. CASE closed' = closed
      BY <1>1, <1>3, <3>1 DEF FlightInv, ShutdownCancelsAll
    <3>2. CASE ActiveRequests \subseteq cancelled'
      <4>1. ASSUME NEW r \in Submitted, Live(r)
            PROVE  r \in cancelled'
        <5>1. active[spec[r].key] = r \/ r \in cancelled
          BY <4>1 DEF FlightInv, SingleFlight
        <5>2. spec[r].key \in Key /\ r # NoRequest
          BY DEF TypeOK, SpecOf, Submitted, NoRequest
        <5>3. QED
          BY <1>1, <3>2, <5>1, <5>2 DEF ActiveRequests
      <4>2. QED
        BY <1>1, <1>3, <4>1 DEF ShutdownCancelsAll
    <3>3. QED
      BY <1>5, <3>1, <3>2
  <2>4. QED
    BY <1>4, <2>1, <2>2, <2>3 DEF FlightInv
<1>6. ASSUME NEW c \in Caller, NEW k \in Key, Invalidate(c, k)
      PROVE  FlightInv'
  <2>1. /\ active' = [active EXCEPT ![k] = NoRequest] /\ closed' = closed
        /\ cancelled' = cancelled \cup ({active[k]} \ {NoRequest})
    BY <1>6 DEF Invalidate, Dropped
  <2>2. \A j \in Key : active'[j] = (IF j = k THEN NoRequest ELSE active[j])
    BY <2>1 DEF TypeOK
  <2>3. SingleFlight'
    <3>1. \A r \in Submitted : spec[r].key \in Key /\ r # NoRequest
      BY DEF TypeOK, SpecOf, Submitted, NoRequest
    <3>2. QED
      BY <1>1, <1>3, <2>1, <2>2, <3>1 DEF FlightInv, SingleFlight
  <2>4. ActiveIsLive'
    BY <1>1, <1>3, <2>2 DEF FlightInv, ActiveIsLive
  <2>5. ShutdownCancelsAll'
    BY <1>1, <1>3, <2>1 DEF FlightInv, ShutdownCancelsAll
  <2>6. QED
    BY <1>4, <2>3, <2>4, <2>5 DEF FlightInv
<1>7. CASE \E c \in Caller, k \in Key : Invalidate(c, k)
  BY <1>6, <1>7
<1>8. CASE \/ \E c \in Caller, s \in RequestSpec : Join(c, s)
           \/ \E k \in Key : Cancel(k)
           \/ \E R \in SUBSET (ActiveRequests \ cancelled) : CancelMatching(R)
           \/ Shutdown
  BY <1>5, <1>8 DEF Join, Cancel, CancelMatching, Shutdown, vars
<1>9. QED
  BY <1>7, <1>8 DEF CallerStep

LEMMA FlightWorker ==
    ASSUME TypeOK, Ownership, FlightInv, NEW w \in Worker, WorkerStep(w)
    PROVE  FlightInv'
<1> USE DEF registry, requests, workers
<1>1. CASE Settle(w)
  <2> DEFINE r == job[w]
             k == spec[r].key
  <2>1. /\ UNCHANGED <<sequence, spec, closed, cancelled, future, job>>
        /\ phase[w] = "finishing" /\ phase' = [phase EXCEPT ![w] = "settled"]
        /\ active' = (IF active[k] = r THEN [active EXCEPT ![k] = NoRequest]
                      ELSE active)
        /\ Submitted' = Submitted
    BY <1>1, SubmittedSame DEF Settle, ActiveWithout
  <2>2. r \in Submitted /\ k \in Key
    BY <2>1, HeldSubmitted DEF Occupied, Holding, Running
  <2>3. \A q : Live(q)' <=> Live(q) /\ q # r
    BY <1>1, LiveSettle
  <2>4. \A v \in Worker : phase'[v] = (IF v = w THEN "settled" ELSE phase[v])
    BY <2>1 DEF TypeOK
  <2>5. \A q : Awaiting(q)' <=> Awaiting(q) \/ q = r
    BY <2>1, <2>4 DEF Awaiting
  <2>6. \A j \in Key : active'[j] =
            (IF j = k /\ active[k] = r THEN NoRequest ELSE active[j])
    BY <2>1, <2>2 DEF TypeOK
  <2> HIDE DEF r, k
  <2>7. SingleFlight'
    <3>1. \A q \in Submitted : spec[q].key \in Key
      BY DEF TypeOK, SpecOf
    <3>2. QED
      BY <2>1, <2>3, <2>6, <3>1 DEF FlightInv, SingleFlight
  <2>8. ActiveIsLive'
    <3>1. ASSUME NEW j \in Key, active'[j] # NoRequest
          PROVE  \E q : q = active'[j] /\ Live(q)' /\ spec'[q].key = j
      <4>1. active'[j] = active[j] /\ Live(active[j]) /\ spec[active[j]].key = j
        BY <2>6, <3>1 DEF FlightInv, ActiveIsLive
      <4>2. active[j] # r
        BY <2>6, <3>1, <4>1 DEF k
      <4>3. QED
        BY <2>1, <2>3, <4>1, <4>2
    <3>2. QED
      BY <3>1 DEF ActiveIsLive, Live
  <2>9. ShutdownCancelsAll'
    BY <2>1, <2>3 DEF FlightInv, ShutdownCancelsAll
  <2>10. Unanswered'
    BY <2>1, <2>3, <2>5 DEF FlightInv, Unanswered
  <2>11. QED
    BY <2>7, <2>8, <2>9, <2>10 DEF FlightInv
<1>2. CASE ~Settle(w)
  <2>1. UNCHANGED <<sequence, spec, active, closed, cancelled>> /\ Submitted' = Submitted
    BY <1>2, SubmittedSame
    DEF WorkerStep, Take, Wait, Exit, Begin, LoaderReturns, LoaderRaises,
        BackoffEnds, Finish, StartAttempt, Proceed, Resolve, Release, TaskDone
  <2>2. \A q : Live(q)' <=> Live(q)
    BY <1>2, LiveWorker
  <2>3. SingleFlight' /\ ActiveIsLive' /\ ShutdownCancelsAll'
    BY <2>1, <2>2 DEF FlightInv, SingleFlight, ActiveIsLive, ShutdownCancelsAll
  <2>4. CASE Resolve(w)
    <3>1. /\ phase[w] = "settled" /\ job' = job
          /\ phase' = [phase EXCEPT ![w] = "resolved"]
          /\ future' = [future EXCEPT
                ![job[w]] = IF @ = "pending" THEN outcome[w] ELSE @]
      BY <2>4 DEF Resolve
    <3>2. job[w] \in Request /\ "pending" \notin FinalStatus
      BY <3>1, HeldSubmitted DEF Occupied, Holding, FinalStatus
    <3>3. future'[job[w]] # "pending"
      BY <3>1, <3>2 DEF TypeOK
    <3>4. \A q \in Request : q # job[w] => future'[q] = future[q]
      BY <3>1 DEF TypeOK
    <3>5. \A q \in Submitted : q # job[w] => (Awaiting(q)' <=> Awaiting(q))
      <4>1. \A v \in Worker : v # w => phase'[v] = phase[v]
        BY <3>1 DEF TypeOK
      <4>2. QED
        BY <3>1, <4>1 DEF Awaiting
    <3>6. Submitted \subseteq Request
      BY ConstantsAssumption DEF TypeOK, Submitted, Request
    <3>7. Unanswered'
      BY <2>1, <2>2, <3>3, <3>4, <3>5, <3>6 DEF FlightInv, Unanswered
    <3>8. QED
      BY <2>3, <3>7 DEF FlightInv
  <2>5. CASE ~Resolve(w)
    <3>1. future' = future
      BY <1>2, <2>5
      DEF WorkerStep, Take, Wait, Exit, Begin, LoaderReturns, LoaderRaises,
          BackoffEnds, Finish, StartAttempt, Proceed, Release, TaskDone
    <3>2. \A q : Awaiting(q) => Awaiting(q)'
      <4>1. phase[w] # "settled"
        BY <1>2, <2>5
        DEF WorkerStep, Take, Wait, Exit, Begin, LoaderReturns, LoaderRaises,
            BackoffEnds, Release, TaskDone
      <4>2. \A v \in Worker : v # w => job'[v] = job[v]
        BY <1>2, <2>5
        DEF TypeOK, WorkerStep, Take, Wait, Exit, Begin, LoaderReturns,
            LoaderRaises, BackoffEnds, Finish, StartAttempt, Proceed, Release,
            TaskDone
      <4>3. \A v \in Worker : v # w /\ phase[v] = "settled" => phase'[v] = "settled"
        <5>1. CASE Release(w)
          BY <5>1, NotifyAllType DEF TypeOK, Release, NotifyAll
        <5>2. CASE ~Release(w)
          BY <1>2, <2>5, <5>2
          DEF TypeOK, WorkerStep, Take, Wait, Exit, Begin, LoaderReturns,
              LoaderRaises, BackoffEnds, Finish, StartAttempt, Proceed, TaskDone
        <5>3. QED
          BY <5>1, <5>2
      <4>4. QED
        BY <4>1, <4>2, <4>3 DEF Awaiting
    <3>3. Unanswered'
      BY <2>1, <2>2, <3>1, <3>2 DEF FlightInv, Unanswered
    <3>4. QED
      BY <2>3, <3>3 DEF FlightInv
  <2>6. QED
    BY <2>4, <2>5
<1>3. QED
  BY <1>1, <1>2

LEMMA FlightStep ==
    ASSUME TypeOK, Ownership, FlightInv, [Next]_vars
    PROVE  FlightInv'
<1>1. CASE UNCHANGED vars \/ \E c \in Caller : Announcement(c)
  <2>1. /\ UNCHANGED <<sequence, spec, active, closed, requests, workers>>
        /\ Submitted' = Submitted
    BY <1>1, SubmittedSame DEF vars, registry, Announcement, Notify
  <2>2. \A r : (Live(r)' <=> Live(r)) /\ (Awaiting(r)' <=> Awaiting(r))
    BY <2>1 DEF Live, Awaiting, requests, workers
  <2>3. QED
    BY <2>1, <2>2
    DEF FlightInv, SingleFlight, ActiveIsLive, ShutdownCancelsAll, Unanswered,
        requests, workers
<1>2. QED
  BY <1>1, FlightSchedule, FlightCaller, FlightWorker DEF Next, CallerStep

LEMMA FlightConsequences ==
    ASSUME TypeOK, Ownership, FlightInv
    PROVE  PendingWorkBarrier
<1>1. ASSUME NEW r \in Submitted, r \notin unfinished
      PROVE  ~Live(r) /\ ~Awaiting(r)
  BY <1>1 DEF Ownership, Live, Awaiting
<1>2. QED
  BY <1>1 DEF FlightInv, Unanswered, PendingWorkBarrier

(* The manager keeps one flight per key, never offers a finished request   *)
(* for joining, leaves nothing uncancelled at shutdown, and its pending    *)
(* work count reaches zero only when nothing runs or awaits an answer.     *)
THEOREM OneFlight ==
    Spec => [](SingleFlight /\ ActiveIsLive /\ ShutdownCancelsAll
               /\ PendingWorkBarrier)
<1> DEFINE Inv == TypeOK /\ Ownership /\ FlightInv
<1>1. Init => Inv
  <2>1. Init => FlightInv
    BY DEF Init, FlightInv, SingleFlight, ActiveIsLive, ShutdownCancelsAll,
           Unanswered, Submitted, NoRequest
  <2>2. QED
    BY <2>1, InitType
<1>2. Inv /\ [Next]_vars => Inv'
  BY TypeStep, OwnershipStep, FlightStep
<1>3. Inv => SingleFlight /\ ActiveIsLive /\ ShutdownCancelsAll /\ PendingWorkBarrier
  BY FlightConsequences DEF FlightInv
<1>4. QED
  BY <1>1, <1>2, <1>3, PTL DEF Spec

(* What shutdown waits for (pending_count) is everything that still runs or *)
(* still owes its callers an answer.                                        *)
THEOREM PendingWork == Spec => []PendingWorkBarrier
BY OneFlight, PTL

-----------------------------------------------------------------------------
(* Slots.  Only Take and Release change who holds a slot.                  *)

LimitInv ==
    /\ SlotAccounting
    /\ ~closed => backgroundActive <= BackgroundLimit

LEMMA SlotSetsKept ==
    ASSUME TypeOK, Ownership,
           \A w \in Worker : /\ HeldBy(w)' <=> HeldBy(w)
                             /\ HeldBy(w) => job'[w] = job[w],
           \A r \in Submitted : spec'[r] = spec[r]
    PROVE  /\ \A s : ServedBy(s)' = ServedBy(s)
           /\ BackgroundWorkers' = BackgroundWorkers
<1>1. \A w \in Worker : HeldBy(w) => job[w] \in Submitted
  BY HeldSubmitted DEF HeldBy, Occupied
<1>2. \A w \in Worker : HeldBy(w) => spec'[job'[w]] = spec[job[w]]
  BY <1>1
<1>3. QED
  BY <1>2 DEF ServedBy, BackgroundWorkers, Background, HeldBy

LEMMA LimitKept ==
    ASSUME LimitInv, UNCHANGED <<serviceActive, backgroundActive>>,
           closed => closed',
           \A s : ServedBy(s)' = ServedBy(s),
           BackgroundWorkers' = BackgroundWorkers
    PROVE  LimitInv'
BY DEF LimitInv, SlotAccounting, BackgroundLimit

LEMMA WorkerSubsetsFinite ==
    ASSUME NEW S \in SUBSET Worker
    PROVE  IsFiniteSet(S)
BY FS_Subset, ConstantsAssumption

LEMMA LimitTake ==
    ASSUME TypeOK, Ownership, LimitInv, NEW w \in Worker, NEW r \in queue,
           Take(w, r)
    PROVE  LimitInv'
<1> DEFINE svc == spec[r].service
<1>1. /\ phase[w] = "idle" /\ phase' = [phase EXCEPT ![w] = "taken"]
      /\ job' = [job EXCEPT ![w] = r] /\ r \in Takeable
      /\ serviceActive' = (IF svc \in Service
                           THEN [serviceActive EXCEPT ![svc] = @ + 1]
                           ELSE serviceActive)
      /\ backgroundActive' = (IF Background(r)
                              THEN backgroundActive + 1 ELSE backgroundActive)
      /\ UNCHANGED <<spec, closed>>
  BY DEF Take, registry
<1>2. /\ \A v \in Worker : job'[v] = (IF v = w THEN r ELSE job[v])
      /\ \A v \in Worker : phase'[v] = (IF v = w THEN "taken" ELSE phase[v])
      /\ "taken" \in Holding /\ phase[w] \notin Holding
  BY <1>1 DEF TypeOK, Holding, Running
<1>3. \A s : ServedBy(s)' = IF s = svc THEN ServedBy(s) \cup {w} ELSE ServedBy(s)
  BY <1>1, <1>2 DEF ServedBy, HeldBy
<1>4. BackgroundWorkers' = IF Background(r) THEN BackgroundWorkers \cup {w}
                           ELSE BackgroundWorkers
  BY <1>1, <1>2 DEF BackgroundWorkers, HeldBy, Background
<1>5. /\ \A s : ServedBy(s) \subseteq Worker /\ w \notin ServedBy(s)
      /\ BackgroundWorkers \subseteq Worker /\ w \notin BackgroundWorkers
  BY <1>2 DEF ServedBy, BackgroundWorkers, HeldBy
<1>6. /\ \A s : Cardinality(ServedBy(s) \cup {w}) = Cardinality(ServedBy(s)) + 1
      /\ Cardinality(BackgroundWorkers \cup {w}) = Cardinality(BackgroundWorkers) + 1
  BY <1>5, WorkerSubsetsFinite, FS_AddElement
<1>7. Eligible(r) /\ (Background(r) /\ ~closed => backgroundActive < BackgroundLimit)
  BY <1>1 DEF Takeable, EligibleIn
<1> HIDE DEF svc
<1>8. ASSUME NEW s \in Service
      PROVE  /\ serviceActive'[s] = Cardinality(ServedBy(s)')
             /\ serviceActive'[s] <= ServiceLimit[s]
  <2>1. /\ serviceActive[s] = Cardinality(ServedBy(s)) /\ serviceActive[s] \in Int
        /\ serviceActive[s] <= ServiceLimit[s] /\ ServiceLimit[s] \in Int
    BY ConstantsAssumption, FS_CardinalityType DEF LimitInv, SlotAccounting, TypeOK
  <2>2. CASE s = svc
    <3>1. serviceActive'[s] = serviceActive[s] + 1
      BY <1>1, <2>2 DEF TypeOK
    <3>2. serviceActive[s] < ServiceLimit[s]
      BY <1>7, <2>2 DEF Eligible, svc
    <3>3. ServedBy(s)' = ServedBy(s) \cup {w}
      BY <1>3, <2>2
    <3>4. QED
      BY <1>6, <2>1, <3>1, <3>2, <3>3
  <2>3. CASE s # svc
    <3>1. serviceActive'[s] = serviceActive[s] /\ ServedBy(s)' = ServedBy(s)
      BY <1>1, <1>3, <2>3 DEF TypeOK
    <3>2. QED
      BY <2>1, <3>1
  <2>4. QED
    BY <2>2, <2>3
<1>9. backgroundActive' = Cardinality(BackgroundWorkers')
  BY <1>1, <1>4, <1>6 DEF LimitInv, SlotAccounting
<1>10. ~closed' => backgroundActive' <= BackgroundLimit
  BY <1>1, <1>7 DEF LimitInv, TypeOK, BackgroundLimit
<1>11. QED
  BY <1>8, <1>9, <1>10 DEF LimitInv, SlotAccounting, BackgroundLimit

LEMMA LimitRelease ==
    ASSUME TypeOK, Ownership, LimitInv, NEW w \in Worker, Release(w)
    PROVE  LimitInv'
<1> DEFINE r == job[w]
           svc == spec[r].service
<1>1. /\ phase[w] = "resolved" /\ phase' = [NotifyAll EXCEPT ![w] = "released"]
      /\ job' = job
      /\ serviceActive' = (IF svc \in Service
                           THEN [serviceActive EXCEPT ![svc] = AtLeastZero(@ - 1)]
                           ELSE serviceActive)
      /\ backgroundActive' = (IF Background(r)
                              THEN AtLeastZero(backgroundActive - 1)
                                 ELSE backgroundActive)
      /\ UNCHANGED <<spec, closed>>
  BY DEF Release, registry
<1>2. /\ \A v \in Worker : phase'[v] \in Holding <=> v # w /\ phase[v] \in Holding
      /\ phase[w] \in Holding
  BY <1>1, NotifyAllPhase, NotifyAllType DEF Holding, Running
<1>3. \A s : ServedBy(s)' = IF s = svc THEN ServedBy(s) \ {w} ELSE ServedBy(s)
  BY <1>1, <1>2 DEF ServedBy, HeldBy
<1>4. BackgroundWorkers' = IF Background(r) THEN BackgroundWorkers \ {w}
                           ELSE BackgroundWorkers
  BY <1>1, <1>2 DEF BackgroundWorkers, HeldBy, Background
<1>5. /\ \A s : ServedBy(s) \subseteq Worker
      /\ BackgroundWorkers \subseteq Worker
      /\ w \in ServedBy(svc)
      /\ Background(r) => w \in BackgroundWorkers
  BY <1>2 DEF ServedBy, BackgroundWorkers, HeldBy
<1>6. /\ Cardinality(ServedBy(svc) \ {w}) = Cardinality(ServedBy(svc)) - 1
      /\ Background(r) => Cardinality(BackgroundWorkers \ {w})
                             = Cardinality(BackgroundWorkers) - 1
      /\ Cardinality(ServedBy(svc) \ {w}) \in Nat
      /\ Cardinality(BackgroundWorkers \ {w}) \in Nat
  BY <1>5, WorkerSubsetsFinite, FS_RemoveElement, FS_CardinalityType
<1> HIDE DEF r, svc
<1>7. ASSUME NEW s \in Service
      PROVE  /\ serviceActive'[s] = Cardinality(ServedBy(s)')
             /\ serviceActive'[s] <= ServiceLimit[s]
  <2>1. /\ serviceActive[s] = Cardinality(ServedBy(s)) /\ serviceActive[s] \in Int
        /\ serviceActive[s] <= ServiceLimit[s] /\ ServiceLimit[s] \in Int
    BY ConstantsAssumption, FS_CardinalityType DEF LimitInv, SlotAccounting, TypeOK
  <2>2. CASE s = svc
    <3>1. /\ serviceActive'[s] = AtLeastZero(serviceActive[s] - 1)
          /\ ServedBy(s)' = ServedBy(s) \ {w}
      BY <1>1, <1>3, <2>2 DEF TypeOK
    <3>2. serviceActive'[s] = serviceActive[s] - 1
      BY <1>6, <2>1, <2>2, <3>1 DEF AtLeastZero
    <3>3. QED
      BY <1>6, <2>1, <2>2, <3>1, <3>2
  <2>3. CASE s # svc
    <3>1. serviceActive'[s] = serviceActive[s] /\ ServedBy(s)' = ServedBy(s)
      BY <1>1, <1>3, <2>3 DEF TypeOK
    <3>2. QED
      BY <2>1, <3>1
  <2>4. QED
    BY <2>2, <2>3
<1>8. backgroundActive' = Cardinality(BackgroundWorkers')
  BY <1>1, <1>4, <1>6 DEF LimitInv, SlotAccounting, AtLeastZero
<1>9. ~closed' => backgroundActive' <= BackgroundLimit
  BY <1>1 DEF LimitInv, TypeOK, BackgroundLimit, AtLeastZero
<1>10. QED
  BY <1>7, <1>8, <1>9 DEF LimitInv, SlotAccounting, BackgroundLimit

LEMMA LimitStep ==
    ASSUME TypeOK, Ownership, LimitInv, [Next]_vars
    PROVE  LimitInv'
<1> USE DEF registry, requests, workers
<1>1. ASSUME UNCHANGED <<job, serviceActive, backgroundActive>>,
             phase' = phase \/ phase' = NotifyAll,
             closed => closed',
             \A r \in Submitted : spec'[r] = spec[r]
      PROVE  LimitInv'
  <2>1. \A w \in Worker : HeldBy(w)' <=> HeldBy(w)
    BY <1>1, NotifyAllPhase DEF HeldBy
  <2>2. QED
    BY <1>1, <2>1, SlotSetsKept, LimitKept
<1>2. CASE UNCHANGED vars \/ \E c \in Caller : Announcement(c)
  BY <1>1, <1>2 DEF vars, Announcement, Notify
<1>3. CASE CallerStep
  <2>1. \A c \in Caller, s \in RequestSpec : Schedule(c, s) =>
           \A r \in Submitted : spec'[r] = spec[r]
    <3>1. ASSUME NEW c \in Caller, NEW s \in RequestSpec, Schedule(c, s),
                 NEW r \in Submitted
          PROVE  spec'[r] = spec[r]
      <4>1. r \in 1..(sequence + 1) /\ r # sequence + 1
        BY DEF TypeOK, Submitted
      <4>2. QED
        BY <3>1, <4>1 DEF Schedule
    <3>2. QED
      BY <3>1
  <2>2. CASE \E c \in Caller, s \in RequestSpec : Schedule(c, s)
    BY <1>1, <2>1, <2>2 DEF Schedule
  <2>3. CASE \E c \in Caller, s \in RequestSpec : Join(c, s)
    BY <1>1, <2>3 DEF Join, vars
  <2>4. CASE \E c \in Caller, k \in Key : Invalidate(c, k)
    BY <1>1, <2>4 DEF Invalidate
  <2>5. CASE \E k \in Key : Cancel(k)
    BY <1>1, <2>5 DEF Cancel
  <2>6. CASE \E R \in SUBSET (ActiveRequests \ cancelled) : CancelMatching(R)
    BY <1>1, <2>6 DEF CancelMatching
  <2>7. CASE Shutdown
    BY <1>1, <2>7 DEF Shutdown
  <2>8. QED
    BY <1>3, <2>2, <2>3, <2>4, <2>5, <2>6, <2>7 DEF CallerStep
<1>4. ASSUME NEW w \in Worker, WorkerStep(w)
      PROVE  LimitInv'
  <2>1. CASE \E r \in queue : Take(w, r)
    BY <2>1, LimitTake
  <2>2. CASE Release(w)
    BY <2>2, LimitRelease
  <2>3. CASE ~Release(w) /\ ~ \E r \in queue : Take(w, r)
    <3>1. UNCHANGED <<spec, closed, serviceActive, backgroundActive>>
      BY <1>4, <2>3
      DEF WorkerStep, Wait, Exit, Begin, LoaderReturns, LoaderRaises,
          BackoffEnds, Finish, StartAttempt, Proceed, Settle, Resolve, TaskDone
    <3>2. \A v \in Worker : v # w => phase'[v] = phase[v] /\ job'[v] = job[v]
      BY <1>4, <2>3
      DEF TypeOK, WorkerStep, Wait, Exit, Begin, LoaderReturns, LoaderRaises,
          BackoffEnds, Finish, StartAttempt, Proceed, Settle, Resolve, TaskDone
    <3>3. /\ phase'[w] \in Holding <=> phase[w] \in Holding
          /\ phase[w] \in Holding => job'[w] = job[w]
      BY <1>4, <2>3
      DEF TypeOK, WorkerStep, Wait, Exit, Begin, LoaderReturns, LoaderRaises,
          BackoffEnds, Finish, StartAttempt, Proceed, Settle, Resolve, TaskDone,
          Holding, Running
    <3>4. QED
      BY <3>1, <3>2, <3>3, SlotSetsKept, LimitKept DEF HeldBy
  <2>4. QED
    BY <2>1, <2>2, <2>3
<1>5. QED
  BY <1>2, <1>3, <1>4 DEF Next

LEMMA InitLimit == Init => LimitInv
<1> SUFFICES ASSUME Init PROVE LimitInv
  OBVIOUS
<1>1. (\A s : ServedBy(s) = {}) /\ BackgroundWorkers = {}
  BY DEF Init, ServedBy, BackgroundWorkers, HeldBy, Holding, Running
<1>2. \A s \in Service : ServiceLimit[s] \in Nat
  BY ConstantsAssumption, FS_CardinalityType
<1>3. Cardinality({}) = 0
  BY FS_EmptySet
<1>4. SlotAccounting
  <2>1. /\ serviceActive = [s \in Service |-> 0]
        /\ backgroundActive = 0
    BY DEF Init
  <2>2. /\ \A s \in Service : Cardinality(ServedBy(s)) = 0
        /\ Cardinality(BackgroundWorkers) = 0
    BY <1>1, <1>3
  <2>3. QED
    BY <1>2, <2>1, <2>2 DEF SlotAccounting
<1>5. backgroundActive <= BackgroundLimit
  BY DEF Init, BackgroundLimit
<1>6. QED
  BY <1>4, <1>5 DEF LimitInv

(* The slot counters equal the slots held and respect every limit, so      *)
(* background work never fills a pool of two or more workers.              *)
THEOREM Slots == Spec => [](SlotAccounting /\ ForegroundReserve)
<1> DEFINE Inv == TypeOK /\ Ownership /\ LimitInv
<1>1. Init => Inv
  BY InitType, InitLimit
<1>2. Inv /\ [Next]_vars => Inv'
  BY TypeStep, OwnershipStep, LimitStep
<1>3. Inv => SlotAccounting /\ ForegroundReserve
  <2>1. LimitInv /\ Cardinality(Worker) > 1 /\ ~closed => BackgroundWorkers # Worker
    <3>1. Cardinality(Worker) \in Nat
      BY ConstantsAssumption, FS_CardinalityType
    <3>2. QED
      BY <3>1 DEF LimitInv, SlotAccounting, BackgroundLimit
  <2>2. QED
    BY <2>1 DEF LimitInv, ForegroundReserve
<1>4. QED
  BY <1>1, <1>2, <1>3, PTL DEF Spec

(* Background requests never occupy every worker of a larger pool.         *)
THEOREM Reserve == Spec => []ForegroundReserve
BY Slots, PTL

-----------------------------------------------------------------------------
(* The promise.  Only Schedule, Invalidate, Settle, Resolve and Shutdown   *)
(* are visible to callers; every other step is a stutter.                  *)

(* A request between its publication and its answer cannot be joined: a    *)
(* request that can is live, and live ones are queued or in another worker.*)
LEMMA SettledNotJoinable ==
    ASSUME TypeOK, Ownership, ActiveIsLive, NEW w \in Worker, phase[w] = "settled"
    PROVE  /\ job[w] \in Submitted
           /\ \A k \in Key : active[k] # job[w]
<1>1. job[w] # NoRequest
  BY DEF Ownership, Occupied, Holding
<1>2. job[w] \in Submitted
  BY <1>1 DEF TypeOK
<1>3. ~Live(job[w])
  <2>1. job[w] \notin queue
    BY DEF Ownership
  <2>2. ASSUME NEW v \in Worker, job[v] = job[w] PROVE phase[v] = "settled"
    BY <1>1, <2>2 DEF Ownership
  <2>3. QED
    BY <2>1, <2>2 DEF Live, Running
<1>4. QED
  BY <1>1, <1>2, <1>3 DEF ActiveIsLive

LEMMA PromiseCaller ==
    ASSUME TypeOK, CallerStep
    PROVE  Promise!Next \/ UNCHANGED Promise!vars
<1>1. ASSUME NEW c \in Caller, NEW s \in RequestSpec, Join(c, s)
      PROVE  UNCHANGED Promise!vars
  BY <1>1 DEF Join, vars, registry, requests, Promise!vars
<1>2. ASSUME NEW c \in Caller, NEW s \in RequestSpec, Schedule(c, s)
      PROVE  Promise!Next
  <2>1. s.key \in Key
    BY ConstantsAssumption DEF SpecOf
  <2>2. Promise!Accept(s.key)
    BY <1>2 DEF Schedule, Promise!Accept
  <2>3. QED
    BY <2>1, <2>2 DEF Promise!Next
<1>3. ASSUME NEW c \in Caller, NEW k \in Key, Invalidate(c, k)
      PROVE  Promise!Next \/ UNCHANGED Promise!vars
  <2>1. CASE active[k] = NoRequest
    BY <1>3, <2>1 DEF Invalidate, TypeOK, Promise!vars
  <2>2. CASE active[k] # NoRequest
    BY <1>3, <2>2 DEF Invalidate, Promise!Next, Promise!Withdraw,
                      NoRequest, Promise!NoRequest
  <2>3. QED
    BY <2>1, <2>2
<1>4. ASSUME NEW k \in Key, Cancel(k) PROVE UNCHANGED Promise!vars
  BY <1>4 DEF Cancel, registry, Promise!vars
<1>5. ASSUME NEW R \in SUBSET (ActiveRequests \ cancelled), CancelMatching(R)
      PROVE  UNCHANGED Promise!vars
  BY <1>5 DEF CancelMatching, registry, Promise!vars
<1>6. ASSUME Shutdown PROVE Promise!Next
  BY <1>6 DEF Shutdown, Promise!Next, Promise!Close
<1>7. QED
  BY <1>1, <1>2, <1>3, <1>4, <1>5, <1>6 DEF CallerStep

LEMMA PromiseSettle ==
    ASSUME TypeOK, NEW w \in Worker, Settle(w)
    PROVE  Promise!Next \/ UNCHANGED Promise!vars
<1> DEFINE r == job[w]
           k == spec[r].key
<1>1. active' = ActiveWithout(r) /\ UNCHANGED <<sequence, future, closed>>
  BY DEF Settle, requests
<1>2. CASE active[k] # r
  BY <1>1, <1>2 DEF ActiveWithout, Promise!vars
<1>3. CASE active[k] = r /\ k \in Key /\ r # NoRequest
  BY <1>1, <1>3 DEF ActiveWithout, Promise!Next, Promise!Withdraw,
                    NoRequest, Promise!NoRequest
<1>4. CASE active[k] = r /\ ~(k \in Key /\ r # NoRequest)
  BY <1>1, <1>4 DEF ActiveWithout, TypeOK, Promise!vars
<1>5. QED
  BY <1>2, <1>3, <1>4

LEMMA PromiseResolve ==
    ASSUME TypeOK, Ownership, ActiveIsLive, NEW w \in Worker, Resolve(w)
    PROVE  Promise!Next \/ UNCHANGED Promise!vars
<1> DEFINE r == job[w]
<1>1. r \in 1..sequence /\ \A k \in Key : active[k] # r
  BY SettledNotJoinable DEF Resolve, Submitted
<1>2. outcome[w] \in FinalStatus
  BY DEF TypeOK
<1>3. UNCHANGED <<sequence, active, closed>>
  BY DEF Resolve, registry
<1>4. CASE future[r] = "pending"
  <2>1. future' = [future EXCEPT ![r] = outcome[w]]
    BY <1>4 DEF Resolve
  <2>2. Promise!Answer(r, outcome[w])
    BY <1>1, <1>3, <1>4, <2>1 DEF Promise!Answer, Promise!Pending
  <2>3. QED
    BY <1>1, <1>2, <2>2 DEF Promise!Next
<1>5. CASE future[r] # "pending"
  <2>1. future' = future
    BY <1>5 DEF Resolve, TypeOK
  <2>2. QED
    BY <1>3, <2>1 DEF Promise!vars
<1>6. QED
  BY <1>4, <1>5

LEMMA PromiseWorker ==
    ASSUME TypeOK, Ownership, ActiveIsLive, NEW w \in Worker, WorkerStep(w)
    PROVE  Promise!Next \/ UNCHANGED Promise!vars
<1>1. CASE \E r \in queue : Take(w, r)
  BY <1>1 DEF Take, registry, Promise!vars
<1>2. CASE Wait(w) \/ Exit(w)
  BY <1>2 DEF Wait, Exit, registry, requests, Promise!vars
<1>3. CASE Begin(w) \/ LoaderReturns(w) \/ LoaderRaises(w) \/ BackoffEnds(w)
  BY <1>3 DEF Begin, LoaderReturns, LoaderRaises, BackoffEnds, Finish,
              StartAttempt, Proceed, registry, Promise!vars
<1>4. CASE Settle(w)
  BY <1>4, PromiseSettle
<1>5. CASE Resolve(w)
  BY <1>5, PromiseResolve
<1>6. CASE Release(w) \/ TaskDone(w)
  BY <1>6 DEF Release, TaskDone, registry, requests, Promise!vars
<1>7. QED
  BY <1>1, <1>2, <1>3, <1>4, <1>5, <1>6 DEF WorkerStep

(* RequestManager implements RequestPromise: for any number of workers,    *)
(* keys, services and callers, callers see requests accepted one after the *)
(* other, joined only while unanswered, and answered at most once.         *)
THEOREM ManagerKeepsPromise == Spec => KeepsPromise
<1>1. Init => Promise!Init
  BY DEF Init, Promise!Init, Request, NoRequest, Promise!NoRequest,
         Promise!Pending
<1>2. TypeOK /\ Ownership /\ ActiveIsLive /\ [Next]_vars
        => [Promise!Next]_(Promise!vars)
  <2> SUFFICES ASSUME TypeOK, Ownership, ActiveIsLive, [Next]_vars
               PROVE  Promise!Next \/ UNCHANGED Promise!vars
    OBVIOUS
  <2>1. CASE UNCHANGED vars
    BY <2>1 DEF vars, registry, requests, Promise!vars
  <2>2. CASE CallerStep
    BY <2>2, PromiseCaller
  <2>3. CASE \E c \in Caller : Announcement(c)
    BY <2>3 DEF Announcement, Notify, requests, Promise!vars
  <2>4. CASE \E w \in Worker : WorkerStep(w)
    BY <2>4, PromiseWorker
  <2>5. QED
    BY <2>1, <2>2, <2>3, <2>4 DEF Next
<1>3. QED
  BY <1>1, <1>2, TypeCorrect, OneFlight, PTL DEF Spec, KeepsPromise, Promise!Spec
=============================================================================
