---------------------------- MODULE RequestManager ----------------------------
(***************************************************************************)
(* The application-scoped scheduler of remote requests, from               *)
(* core/request_manager.py: a bounded pool of worker threads serving two   *)
(* priority lanes, active-request deduplication per key, cooperative       *)
(* cancellation, bounded retries, invalidation tombstones (generations)    *)
(* and shutdown.                                                           *)
(*                                                                         *)
(* The grain of atomicity is the manager's condition variable: one action  *)
(* per critical section.  What the code does after it releases the lock is *)
(* a step of its own, so a caller that has submitted and not yet announced *)
(* the loading state, and a worker that has published its result and not   *)
(* yet resolved the future, interleave with everybody else.                *)
(*                                                                         *)
(* Left out: metrics, logging, delays, the text of errors (one status,     *)
(* "error", stands for every failure but offline), the delivery of results *)
(* to listeners (callbacks run outside the lock and touch no manager       *)
(* state; one that re-enters the manager is one more caller) and           *)
(* projections.                                                            *)
(***************************************************************************)
EXTENDS Integers, FiniteSets

CONSTANTS
    Key,            \* resource keys
    Service,        \* services with a concurrency limit of their own
    NoService,      \* the service "" of a request that belongs to none
    Worker,         \* worker threads (max_workers of them)
    Caller,         \* threads that call the manager
    RequestSpec,    \* the RequestSpecs callers submit
    ServiceLimit,   \* the limit of each service
    MaxRequests,    \* bound: submissions that create a record
    MaxGeneration   \* bound: the largest generation a key reaches

Request == 1..MaxRequests
NoRequest == 0

BackgroundPriority == 20

SpecOf(keys, services) ==
    [key : keys, priority : Nat, service : services, generation : Nat,
     attempts : Nat \ {0}, allowOffline : BOOLEAN, stale : BOOLEAN]

ASSUME ConstantsAssumption ==
    /\ MaxRequests \in Nat
    /\ MaxGeneration \in Nat
    /\ NoService \notin Service
    /\ IsFiniteSet(Worker) /\ Worker # {}
    /\ ServiceLimit \in [Service -> 1..Cardinality(Worker)]
    /\ RequestSpec \subseteq SpecOf(Key, Service \cup {NoService})

VARIABLES
    sequence,       \* requests submitted so far; also the newest request
    spec,           \* the RequestSpec of every submitted request
    active,         \* _active: the request a key's callers share
    states,         \* _states: the result last published for a key
    lastGeneration, \* _last_generation: the tombstone of a key, -1 if none
    closed,         \* _closed
    queue,          \* requests in the two priority queues
    unfinished,     \* requests the queues' unfinished_tasks still count
    cancelled,      \* requests whose CancellationToken is set
    loads,          \* loader invocations of a request so far
    future,         \* status a request's Future holds, "pending" if none
    phase,          \* where each worker is in _worker_loop
    job,            \* the request a worker holds
    outcome,        \* the status _run_record passes to _finish
    serviceActive,  \* _service_active
    backgroundActive, \* _background_workers_active
    notifying       \* the result a caller announces after it left the lock

registry == <<sequence, spec, active, states, lastGeneration, closed>>
requests == <<queue, unfinished, cancelled, loads, future>>
workers == <<phase, job, outcome, serviceActive, backgroundActive>>
vars == <<registry, requests, workers, notifying>>

-----------------------------------------------------------------------------
(* Results, requests and the worker's phases.                              *)

FinalStatus == {"ready", "cancelled", "offline", "error"}
Status == FinalStatus \cup {"idle", "loading", "stale"}

(* _finish publishes a stale cache entry in the place of these.            *)
FailureStatus == {"offline", "error"}

Result == [status : Status, generation : Int, id : Request \cup {NoRequest}]
Unknown == [status |-> "idle", generation |-> 0, id |-> NoRequest]
ResultOf(r, status) ==
    [status |-> status, generation |-> spec[r].generation, id |-> r]

(* "idle" polls the queues, "waiting" sleeps on the condition variable; a  *)
(* worker occupies its slots from "taken" to "resolved", and its request   *)
(* counts as unfinished until task_done after "released".                  *)
Running == {"taken", "loading", "backoff", "finishing"}
Holding == Running \cup {"settled", "resolved"}
Phase == {"idle", "waiting", "exited", "released"} \cup Holding

Submitted == 1..sequence

(* Mutant: the whole pool serves the background lane.                      *)
MutantBackgroundLimit == Cardinality(Worker)

(* max(1, min(2, max_workers - 1))                                         *)
BackgroundLimit ==
    IF Cardinality(Worker) <= 2 THEN 1 ELSE 2

Background(r) == spec[r].priority >= BackgroundPriority

(* Mutant: one slot too many.                                              *)
MutantEligible(r) ==
    spec[r].service \in Service =>
        serviceActive[spec[r].service] <= ServiceLimit[spec[r].service]

(* Whether the service of r has a free slot.                               *)
Eligible(r) ==
    spec[r].service \in Service =>
        serviceActive[spec[r].service] < ServiceLimit[spec[r].service]

(* The heap order of a lane: priority, then submission order.              *)
Before(q, r) ==
    \/ spec[q].priority < spec[r].priority
    \/ spec[q].priority = spec[r].priority /\ q < r

EligibleIn(lane) == {r \in queue : Background(r) = lane /\ Eligible(r)}

(* What a polling worker may take: foreground work first, background work  *)
(* only below its own limit, which shutdown lifts.                         *)
Takeable ==
    IF EligibleIn(FALSE) # {} THEN EligibleIn(FALSE)
    ELSE IF backgroundActive < BackgroundLimit \/ closed
         THEN EligibleIn(TRUE) ELSE {}

(* Mutant: the condition variable is not notified.                         *)
MutantNotifyAll == phase

(* Condition.notify_all(): the waiting workers poll the queues again.      *)
NotifyAll == [w \in Worker |-> IF phase[w] = "waiting" THEN "idle" ELSE phase[w]]

-----------------------------------------------------------------------------
Init ==
    /\ sequence = 0
    /\ spec = [r \in {} |-> {}]
    /\ active = [k \in Key |-> NoRequest]
    /\ states = [k \in Key |-> Unknown]
    /\ lastGeneration = [k \in Key |-> -1]
    /\ closed = FALSE
    /\ queue = {}
    /\ unfinished = {}
    /\ cancelled = {}
    /\ loads = [r \in Request |-> 0]
    /\ future = [r \in Request |-> "pending"]
    /\ phase = [w \in Worker |-> "idle"]
    /\ job = [w \in Worker |-> NoRequest]
    /\ outcome = [w \in Worker |-> "ready"]
    /\ serviceActive = [s \in Service |-> 0]
    /\ backgroundActive = 0
    /\ notifying = [c \in Caller |-> {}]

-----------------------------------------------------------------------------
(* Callers.  A caller runs one call at a time: it starts the next one only *)
(* when it has announced the result of the last.                           *)

Announce(c, k, result) ==
    notifying' = [notifying EXCEPT ![c] = {[key |-> k, result |-> result]}]

(* Mutant: the active request is dropped and not cancelled.                *)
MutantDropped(k) == {}

(* The request submit() or invalidate() cancels when it replaces or drops  *)
(* the active request of a key.                                            *)
Dropped(k) == {active[k]} \ {NoRequest}

(* submit() on a key whose active request has an equal or newer            *)
(* generation: the caller gets that request's handle, nothing changes.     *)
Join(c, s) ==
    LET current == active[s.key]
    IN  /\ notifying[c] = {}
        /\ ~closed
        /\ current # NoRequest
        /\ s.generation <= spec[current].generation
        /\ UNCHANGED vars

(* The implicit generation 0 follows the key's tombstone.                  *)
GenerationFor(s) ==
    IF /\ active[s.key] = NoRequest
       /\ s.generation = 0
       /\ lastGeneration[s.key] >= 0
    THEN lastGeneration[s.key] + 1
    ELSE s.generation

(* submit() that creates a record: an older active request is cancelled    *)
(* and superseded, the new one becomes active, is shown as loading and     *)
(* queued, and every waiting worker is woken.                              *)
Schedule(c, s) ==
    LET k == s.key
        current == active[k]
        new == sequence + 1
        generation == GenerationFor(s)
        loading == [status |-> "loading", generation |-> generation, id |-> new]
    IN  /\ notifying[c] = {}
        /\ ~closed
        /\ sequence < MaxRequests
        /\ generation <= MaxGeneration
        /\ current # NoRequest => s.generation > spec[current].generation
        /\ sequence' = new
        /\ spec' = [r \in 1..new |-> IF r = new
                                     THEN [s EXCEPT !.generation = generation]
                                     ELSE spec[r]]
        /\ cancelled' = cancelled \cup Dropped(k)
        /\ active' = [active EXCEPT ![k] = new]
        /\ lastGeneration' = [lastGeneration EXCEPT
                ![k] = IF @ > generation THEN @ ELSE generation]
        /\ states' = [states EXCEPT ![k] = loading]
        /\ queue' = queue \cup {new}
        /\ unfinished' = unfinished \cup {new}
        /\ phase' = NotifyAll
        /\ Announce(c, k, loading)
        /\ UNCHANGED <<closed, loads, future, job, outcome, serviceActive,
                       backgroundActive>>

(* invalidate(): the active request is cancelled and dropped at once, and  *)
(* the tombstone moves past it so that its late result cannot be shown.    *)
Invalidate(c, k) ==
    LET tombstone == lastGeneration[k] + 1
        idle == [status |-> "idle", generation |-> tombstone, id |-> NoRequest]
    IN  /\ notifying[c] = {}
        /\ tombstone <= MaxGeneration
        /\ cancelled' = cancelled \cup Dropped(k)
        /\ active' = [active EXCEPT ![k] = NoRequest]
        /\ lastGeneration' = [lastGeneration EXCEPT ![k] = tombstone]
        /\ states' = [states EXCEPT ![k] = idle]
        /\ Announce(c, k, idle)
        /\ UNCHANGED <<sequence, spec, closed, queue, unfinished, loads, future,
                       workers>>

(* _notify(): after submit() or invalidate() has released the lock, the    *)
(* same result is published once more, unless the key moved on.            *)
Notify(c, n) ==
    LET k == n.key
    IN  /\ n \in notifying[c]
        /\ notifying' = [notifying EXCEPT ![c] = {}]
        /\ IF n.result.generation < lastGeneration[k]
           THEN UNCHANGED <<states, lastGeneration>>
           ELSE /\ lastGeneration' = [lastGeneration EXCEPT
                                        ![k] = n.result.generation]
                /\ states' = [states EXCEPT ![k] = n.result]
        /\ UNCHANGED <<sequence, spec, active, closed, requests, workers>>

(* cancel(), and RequestHandle.cancel() on the active request: its token   *)
(* is set, and it stays active until its worker finishes it.               *)
Cancel(k) ==
    /\ active[k] # NoRequest
    /\ cancelled' = cancelled \cup {active[k]}
    /\ UNCHANGED <<registry, queue, unfinished, loads, future, workers, notifying>>

(* cancel_matching(): cancel the active requests a predicate selects, and  *)
(* wake the workers if there was one.                                      *)
CancelMatching(R) ==
    /\ R # {}
    /\ cancelled' = cancelled \cup R
    /\ phase' = NotifyAll
    /\ UNCHANGED <<registry, queue, unfinished, loads, future, job, outcome,
                   serviceActive, backgroundActive, notifying>>

ActiveRequests == {active[k] : k \in Key} \ {NoRequest}

(* shutdown(): refuse new work, cancel every active request, wake all.     *)
Shutdown ==
    /\ ~closed
    /\ closed' = TRUE
    /\ cancelled' = cancelled \cup ActiveRequests
    /\ phase' = NotifyAll
    /\ UNCHANGED <<sequence, spec, active, states, lastGeneration, queue,
                   unfinished, loads, future, job, outcome, serviceActive,
                   backgroundActive, notifying>>

-----------------------------------------------------------------------------
(* Workers.                                                                *)

(* _worker_loop takes the first eligible request of a lane and occupies    *)
(* its service's slot and, for background work, a background slot.         *)
Take(w, r) ==
    /\ phase[w] = "idle"
    /\ r \in Takeable
    /\ \A q \in Takeable \ {r} : Before(r, q)
    /\ queue' = queue \ {r}
    /\ phase' = [phase EXCEPT ![w] = "taken"]
    /\ job' = [job EXCEPT ![w] = r]
    /\ serviceActive' = IF spec[r].service \in Service
                        THEN [serviceActive EXCEPT ![spec[r].service] = @ + 1]
                        ELSE serviceActive
    /\ backgroundActive' = IF Background(r)
                           THEN backgroundActive + 1 ELSE backgroundActive
    /\ UNCHANGED <<registry, unfinished, cancelled, loads, future, outcome,
                   notifying>>

(* Nothing to take: sleep on the condition variable ...                    *)
Wait(w) ==
    /\ phase[w] = "idle"
    /\ Takeable = {}
    /\ ~closed
    /\ phase' = [phase EXCEPT ![w] = "waiting"]
    /\ UNCHANGED <<registry, requests, job, outcome, serviceActive,
                   backgroundActive, notifying>>

(* Mutant: a worker ends on shutdown whether or not work is left.          *)
MutantExit(w) ==
    /\ phase[w] = "idle"
    /\ closed
    /\ phase' = [phase EXCEPT ![w] = "exited"]
    /\ UNCHANGED <<registry, requests, job, outcome, serviceActive,
                   backgroundActive, notifying>>

(* ... or, after shutdown, end the thread.                                 *)
Exit(w) ==
    /\ phase[w] = "idle"
    /\ Takeable = {}
    /\ closed
    /\ phase' = [phase EXCEPT ![w] = "exited"]
    /\ UNCHANGED <<registry, requests, job, outcome, serviceActive,
                   backgroundActive, notifying>>

Proceed(w, next, status) ==
    /\ phase' = [phase EXCEPT ![w] = next]
    /\ outcome' = [outcome EXCEPT ![w] = status]
    /\ UNCHANGED <<registry, queue, unfinished, cancelled, future, job,
                   serviceActive, backgroundActive, notifying>>

Finish(w, status) == Proceed(w, "finishing", status) /\ UNCHANGED loads

(* An attempt passes its token test and calls the loader; a token set from *)
(* here on is the loader's own to observe.                                 *)
StartAttempt(w) ==
    /\ Proceed(w, "loading", outcome[w])
    /\ loads' = [loads EXCEPT ![job[w]] = @ + 1]

(* _run_record up to the first loader call: a request cancelled in the     *)
(* queue never loads, and one refused offline does not either.             *)
Begin(w) ==
    LET r == job[w]
    IN  /\ phase[w] = "taken"
        /\ \/ r \in cancelled /\ Finish(w, "cancelled")
           \/ /\ r \notin cancelled
              /\ \/ ~spec[r].allowOffline /\ Finish(w, "offline")
                 \/ StartAttempt(w)

(* The loader returns a value: the token is checked before it is accepted, *)
(* and a passed deadline turns it into a timeout error.                    *)
LoaderReturns(w) ==
    /\ phase[w] = "loading"
    /\ \/ job[w] \in cancelled /\ Finish(w, "cancelled")
       \/ job[w] \notin cancelled /\ Finish(w, "ready")
       \/ job[w] \notin cancelled /\ Finish(w, "error")

(* The loader raises.  RequestCancelled ends the request as cancelled even *)
(* when its token is not set, and so does any error once it is; the        *)
(* deadline and permanent errors end it as failed; a transient error is    *)
(* retried while attempts remain.                                          *)
LoaderRaises(w) ==
    LET r == job[w]
    IN  /\ phase[w] = "loading"
        /\ \/ Finish(w, "cancelled")
           \/ r \notin cancelled /\ Finish(w, "error")
           \/ /\ r \notin cancelled
              /\ loads[r] < spec[r].attempts
              /\ Proceed(w, "backoff", outcome[w])
              /\ UNCHANGED loads

(* The backoff delay ends: cancelled, past the deadline, or the next try.  *)
BackoffEnds(w) ==
    /\ phase[w] = "backoff"
    /\ \/ job[w] \in cancelled /\ Finish(w, "cancelled")
       \/ job[w] \notin cancelled /\ Finish(w, "error")
       \/ job[w] \notin cancelled /\ StartAttempt(w)

(* A failed refresh shows the stale cache entry it was to replace.         *)
PublishedStatus(r, status) ==
    IF spec[r].stale /\ status \in FailureStatus THEN "stale" ELSE status

(* Mutant: a late result is published like any other.                      *)
MutantIsCurrent(r) == TRUE

IsCurrent(r) == spec[r].generation >= lastGeneration[spec[r].key]

(* Mutant: a cancelled request stays active after it finished.             *)
MutantActiveWithout(r) ==
    IF active[spec[r].key] = r /\ r \notin cancelled
    THEN [active EXCEPT ![spec[r].key] = NoRequest] ELSE active

(* _finish pops the record, unless another one took its place.             *)
ActiveWithout(r) ==
    IF active[spec[r].key] = r
    THEN [active EXCEPT ![spec[r].key] = NoRequest] ELSE active

(* The critical section of _finish: publish the result unless the key      *)
(* moved on, and make room for the next request of the key.                *)
Settle(w) ==
    LET r == job[w]
        k == spec[r].key
    IN  /\ phase[w] = "finishing"
        /\ states' = IF IsCurrent(r)
                     THEN [states EXCEPT
                             ![k] = ResultOf(r, PublishedStatus(r, outcome[w]))]
                     ELSE states
        /\ active' = ActiveWithout(r)
        /\ phase' = [phase EXCEPT ![w] = "settled"]
        /\ UNCHANGED <<sequence, spec, lastGeneration, closed, requests, job,
                       outcome, serviceActive, backgroundActive, notifying>>

(* Mutant: only a result that was published resolves its future.           *)
MutantResolve(w) ==
    /\ phase[w] = "settled"
    /\ future' = [future EXCEPT
            ![job[w]] = IF IsCurrent(job[w]) THEN outcome[w] ELSE @]
    /\ phase' = [phase EXCEPT ![w] = "resolved"]
    /\ UNCHANGED <<registry, queue, unfinished, cancelled, loads, job, outcome,
                   serviceActive, backgroundActive, notifying>>

(* Mutant: the future is given what was published, not what happened.      *)
MutantAnswer(w) ==
    /\ phase[w] = "settled"
    /\ future' = [future EXCEPT
            ![job[w]] = PublishedStatus(job[w], outcome[w])]
    /\ phase' = [phase EXCEPT ![w] = "resolved"]
    /\ UNCHANGED <<registry, queue, unfinished, cancelled, loads, job, outcome,
                   serviceActive, backgroundActive, notifying>>

(* _finish resolves the future after it released the lock.                 *)
Resolve(w) ==
    /\ phase[w] = "settled"
    /\ future' = [future EXCEPT
            ![job[w]] = IF @ = "pending" THEN outcome[w] ELSE @]
    /\ phase' = [phase EXCEPT ![w] = "resolved"]
    /\ UNCHANGED <<registry, queue, unfinished, cancelled, loads, job, outcome,
                   serviceActive, backgroundActive, notifying>>

AtLeastZero(n) == IF n < 0 THEN 0 ELSE n

(* The worker gives its slots back and wakes the waiting workers.          *)
Release(w) ==
    LET r == job[w]
    IN  /\ phase[w] = "resolved"
        /\ phase' = [NotifyAll EXCEPT ![w] = "released"]
        /\ serviceActive' = IF spec[r].service \in Service
                            THEN [serviceActive EXCEPT ![spec[r].service] = AtLeastZero(@ - 1)]
                            ELSE serviceActive
        /\ backgroundActive' = IF Background(r)
                               THEN AtLeastZero(backgroundActive - 1)
                               ELSE backgroundActive
        /\ UNCHANGED <<registry, requests, job, outcome, notifying>>

(* task_done(): only now the request stops counting as pending work.       *)
TaskDone(w) ==
    /\ phase[w] = "released"
    /\ unfinished' = unfinished \ {job[w]}
    /\ phase' = [phase EXCEPT ![w] = "idle"]
    /\ job' = [job EXCEPT ![w] = NoRequest]
    /\ outcome' = [outcome EXCEPT ![w] = "ready"]
    /\ UNCHANGED <<registry, queue, cancelled, loads, future,
                   serviceActive, backgroundActive, notifying>>

-----------------------------------------------------------------------------
CallerStep ==
    \/ \E c \in Caller, s \in RequestSpec : Join(c, s) \/ Schedule(c, s)
    \/ \E c \in Caller, k \in Key : Invalidate(c, k)
    \/ \E k \in Key : Cancel(k)
    \/ \E R \in SUBSET (ActiveRequests \ cancelled) : CancelMatching(R)
    \/ Shutdown

Announcement(c) == \E n \in notifying[c] : Notify(c, n)

WorkerStep(w) ==
    \/ \E r \in queue : Take(w, r)
    \/ Wait(w)
    \/ Exit(w)
    \/ Begin(w)
    \/ LoaderReturns(w)
    \/ LoaderRaises(w)
    \/ BackoffEnds(w)
    \/ Settle(w)
    \/ Resolve(w)
    \/ Release(w)
    \/ TaskDone(w)

Next ==
    \/ CallerStep
    \/ \E c \in Caller : Announcement(c)
    \/ \E w \in Worker : WorkerStep(w)

Spec == Init /\ [][Next]_vars

(* The threads keep running: a worker's next step, and a caller's pending  *)
(* announcement, are not put off forever.  This takes the loaders to       *)
(* return, which their cooperative timeouts are for; nobody has to submit, *)
(* cancel or shut down.                                                    *)
Fairness ==
    /\ \A w \in Worker : WF_vars(WorkerStep(w))
    /\ \A c \in Caller : WF_vars(Announcement(c))

FairSpec == Spec /\ Fairness

-----------------------------------------------------------------------------
(* Properties.                                                             *)

TypeOK ==
    /\ sequence \in 0..MaxRequests
    /\ spec \in [Submitted -> SpecOf(Key, Service \cup {NoService})]
    /\ active \in [Key -> Submitted \cup {NoRequest}]
    /\ states \in [Key -> Result]
    /\ lastGeneration \in [Key -> Int]
    /\ closed \in BOOLEAN
    /\ queue \subseteq Submitted
    /\ unfinished \subseteq Submitted
    /\ cancelled \subseteq Submitted
    /\ loads \in [Request -> Nat]
    /\ future \in [Request -> FinalStatus \cup {"pending"}]
    /\ phase \in [Worker -> Phase]
    /\ job \in [Worker -> Submitted \cup {NoRequest}]
    /\ outcome \in [Worker -> FinalStatus]
    /\ serviceActive \in [Service -> Int]
    /\ backgroundActive \in Int
    /\ \A c \in Caller : \A n \in notifying[c] :
          n.key \in Key /\ n.result \in Result

HeldBy(w) == phase[w] \in Holding
ServedBy(s) == {w \in Worker : HeldBy(w) /\ spec[job[w]].service = s}
BackgroundWorkers == {w \in Worker : HeldBy(w) /\ Background(job[w])}

(* A request that can still load and publish: queued, or run by a worker   *)
(* that has not yet entered _finish's critical section.                    *)
Live(r) == r \in queue \/ \E w \in Worker : job[w] = r /\ phase[w] \in Running

(* At any time at most one request of a key may still use its loader's     *)
(* result: submission, supersession, invalidation and shutdown cancel      *)
(* every other one before a new one can start, whatever the interleaving   *)
(* with workers that are still unwinding (submit, invalidate, _finish).    *)
SingleFlight ==
    \A r \in Submitted : Live(r) => \/ active[spec[r].key] = r
                                    \/ r \in cancelled

(* A request callers can still join has not published its result: nobody   *)
(* is handed a record that left the manager (submit's deduplication).      *)
ActiveIsLive ==
    \A k \in Key : active[k] # NoRequest => /\ Live(active[k])
                                            /\ spec[active[k]].key = k

(* The slot counters are the slots really held: no path through a worker   *)
(* leaks or double-frees a slot, so no service and no lane is ever         *)
(* over-committed or starved by a counter that drifted (_worker_loop).     *)
SlotAccounting ==
    /\ \A s \in Service : /\ serviceActive[s] = Cardinality(ServedBy(s))
                           /\ serviceActive[s] <= ServiceLimit[s]
    /\ backgroundActive = Cardinality(BackgroundWorkers)

(* "Background requests cannot occupy the full worker pool"                *)
(* (docs/request_manager.md): until shutdown lifts the limit, a pool of    *)
(* two or more workers keeps one for foreground requests.                  *)
ForegroundReserve ==
    ~closed /\ Cardinality(Worker) > 1 => BackgroundWorkers # Worker

(* No wake-up is lost: while a worker sleeps on the condition variable     *)
(* there is nothing it could take.  Every event that makes a request       *)
(* takeable (submission, a freed slot, shutdown) must notify.              *)
NoLostWakeup ==
    \A w \in Worker : phase[w] = "waiting" => Takeable = {}

(* Workers that end after shutdown leave no request behind, though each    *)
(* may end while requests of a saturated service are still queued: once    *)
(* all have ended every future is resolved.                                *)
NothingAbandoned ==
    (\A w \in Worker : phase[w] = "exited") =>
        /\ queue = {}
        /\ \A r \in Submitted : future[r] # "pending"

(* pending_work_count() is a safe shutdown barrier: at zero no loader runs *)
(* and no future is unresolved, invalidated requests included.             *)
PendingWorkBarrier ==
    \A r \in Submitted \ unfinished :
        future[r] # "pending" /\ ~Live(r)

(* Shutdown leaves no loader running on an unset token, queued, superseded *)
(* and invalidated requests included.                                      *)
ShutdownCancelsAll ==
    closed => \A r \in Submitted : Live(r) => r \in cancelled

(* A request whose token is set never calls its loader (again).            *)
CancelledNeverLoads ==
    [][\A r \in cancelled : loads'[r] = loads[r]]_vars

(* "a late superseded result cannot overwrite a newer state": a result     *)
(* older than the key's tombstone is never published; only a submission    *)
(* may show a generation below it (its own, when the caller picked one).   *)
LateResultNeverWins ==
    [][\A k \in Key : states'[k] # states[k] =>
          \/ states'[k].generation >= lastGeneration[k]
          \/ states'[k].id = sequence + 1]_vars

(* Every accepted request is answered: its future resolves although it is  *)
(* superseded, invalidated, cancelled, refused a slot or shut down.        *)
EveryFutureResolves ==
    \A r \in Request : r \in unfinished ~> future[r] # "pending"

-----------------------------------------------------------------------------
(* The manager implements what it promises its callers.                    *)
Promise == INSTANCE RequestPromise
    WITH accepted <- sequence, joinable <- active, answer <- future,
         Outcome <- FinalStatus

(* Whatever workers, retries, supersession, invalidation and shutdown do,  *)
(* callers see requests accepted one after the other, joined only while    *)
(* they are unanswered, and answered once (submit, invalidate, _finish).   *)
KeepsPromise == Promise!Spec
=============================================================================
