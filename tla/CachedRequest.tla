----------------------------- MODULE CachedRequest ------------------------------
(***************************************************************************)
(* One cached resource: RequestManager.cached_request() and invalidate(),  *)
(* its ResourceCache entry, and a ResourceBinding that may close.          *)
(*                                                                         *)
(* The threads that call are not the workers that load, and every lock is  *)
(* released between two steps: a call looks the cache up, announces what   *)
(* it found and submits in separate steps; a loader answers, checks its    *)
(* token, stores and finishes in separate steps; listeners are copied      *)
(* under the lock and called without it.                                   *)
(*                                                                         *)
(* A value is the number of changes the server had seen when it was read.  *)
(* Queueing, retries, timeouts and the worker pool are module              *)
(* RequestManager's; here every record has a worker.                       *)
(***************************************************************************)
EXTENDS Integers, Sequences

CONSTANTS
    Thread,     \* threads that call
    MaxCalls,   \* bound on calls
    MaxChanges, \* bound on changes made on the server
    Generations,\* generations callers give: 0, or that of their context
    NoEntry     \* the cache has no entry

ASSUME CacheAssumption ==
    MaxCalls \in Nat \ {0} /\ MaxChanges \in Nat /\ Generations \subseteq Nat

VARIABLES
    truth,      \* changes the server has seen
    cache,      \* the entry, on disk and in memory
    last,       \* _last_generation
    state,      \* _states
    active,     \* _active: a record's number, or 0
    record,     \* the records submitted so far
    thread,     \* what each thread is doing
    binding,    \* the one listener, a ResourceBinding: subscribed or closed
    calls,
    floor       \* history: truth when the resource was last invalidated

vars == <<truth, cache, last, state, active, record, thread, binding, calls, floor>>

Status == {"idle", "loading", "ready", "stale", "error", "cancelled", "offline"}
Result == [status : Status, value : 0..MaxChanges, gen : Int]
Res(status, value, gen) == [status |-> status, value |-> value, gen |-> gen]
(* raced and late are history: a load cancelled between its token check   *)
(* and its store stored the entry.                                         *)
Entry == [value : 0..MaxChanges, fresh : BOOLEAN, raced : BOOLEAN]
Records == 1..MaxCalls
Record == [stage : {"queued", "answered", "checked", "stored", "returned", "done"},
           gen : Nat, value : 0..MaxChanges, cancelled : BOOLEAN, stale : BOOLEAN,
           old : 0..MaxChanges, result : Result, late : BOOLEAN]
Place == {"idle", "invalidate", "clear", "notify", "generation", "lookup",
          "submit", "wait", "end"}
Caller == [at : Place, then : Place, does : {"plain", "forced", "dropped"}, gen : Nat,
           say : Seq(Result), stale : BOOLEAN, old : 0..MaxChanges,
           waits : 0..MaxCalls, since : 0..MaxChanges, got : Result, raced : BOOLEAN]
Nothing == Res("idle", 0, -1)
IdleCaller ==
    [at |-> "idle", then |-> "idle", does |-> "plain", gen |-> 0, say |-> <<>>,
     stale |-> FALSE, old |-> 0, waits |-> 0, since |-> 0, got |-> Nothing,
     raced |-> FALSE]

(* The cache may hold an entry an earlier run of the program left on disk. *)
Init ==
    /\ truth = 0 /\ last = -1
    /\ cache \in {NoEntry} \cup [value : {0}, fresh : BOOLEAN, raced : {FALSE}]
    /\ state = Nothing /\ active = 0 /\ record = <<>>
    /\ thread = [t \in Thread |-> IdleCaller]
    /\ binding = "subscribed" /\ calls = 0 /\ floor = 0

Higher(a, b) == IF a > b THEN a ELSE b
At(t, place) == thread[t].at = place
Cancel(r) == [q \in DOMAIN record |->
    IF q # r \/ record[q].stage = "done" THEN record[q]
    ELSE [record[q] EXCEPT !.cancelled = TRUE,
                           !.late = @ \/ record[q].stage = "checked"]]
--------------------------------------------------------------------------------
(* Calls begin: a cached read, a forced refresh, or the invalidation that  *)
(* follows a change.  The server changes by itself.                        *)

Change ==
    /\ truth < MaxChanges
    /\ truth' = truth + 1
    /\ UNCHANGED <<cache, last, state, active, record, thread, binding, calls, floor>>

Begin(t) ==
    /\ At(t, "idle") /\ calls < MaxCalls
    /\ calls' = calls + 1
    /\ \E does \in {"plain", "forced", "dropped"}, gen \in Generations :
           thread' = [thread EXCEPT ![t] = [IdleCaller EXCEPT
               !.at = IF does = "plain" THEN "lookup" ELSE "invalidate",
               !.does = does, !.gen = gen, !.since = truth]]
    /\ UNCHANGED <<truth, cache, last, state, active, record, binding, floor>>

Say(caller, results, then) ==
    [caller EXCEPT !.at = "notify", !.say = results, !.then = then]

(* invalidate(): under the lock the active record is cancelled and         *)
(* forgotten and the generation moves on; then the entry is removed.       *)
Invalidate(t) ==
    /\ At(t, "invalidate")
    /\ thread' = [thread EXCEPT ![t].at = "clear",
                                    ![t].say = <<Res("idle", 0, last + 1)>>]
    /\ record' = Cancel(active)
    /\ active' = 0
    /\ last' = last + 1
    /\ state' = Res("idle", 0, last + 1)
    /\ floor' = truth
    /\ UNCHANGED <<truth, cache, binding, calls>>

(* Mutant: the invalidation leaves the entry on disk.                      *)
MutantClear(t) ==
    /\ At(t, "clear")
    /\ thread' = [thread EXCEPT ![t] =
           Say(@, @.say, IF @.does = "forced" THEN "generation" ELSE "end")]
    /\ UNCHANGED <<truth, cache, last, state, active, record, binding, calls, floor>>

Clear(t) ==
    /\ At(t, "clear")
    /\ cache' = NoEntry
    /\ thread' = [thread EXCEPT ![t] =
           Say(@, @.say, IF @.does = "forced" THEN "generation" ELSE "end")]
    /\ UNCHANGED <<truth, last, state, active, record, binding, calls, floor>>

(* _notify(): a result below the key's generation is dropped; otherwise it *)
(* becomes the state, and the listeners are called, without the lock: what *)
(* they do is their own.                                                   *)
Notify(t) ==
    /\ At(t, "notify")
    /\ LET result == Head(thread[t].say)
           kept   == result.gen >= last
       IN  /\ last' = IF kept THEN result.gen ELSE last
           /\ state' = IF kept THEN result ELSE state
           /\ thread' = [thread EXCEPT
                  ![t].say = Tail(@),
                  ![t].at = IF Len(thread[t].say) > 1 THEN @ ELSE thread[t].then]
    /\ UNCHANGED <<truth, cache, active, record, binding, calls, floor>>

(* A forced request continues at the generation the state now has.         *)
Generation(t) ==
    /\ At(t, "generation")
    /\ thread' = [thread EXCEPT ![t].at = "lookup",
                                ![t].gen = Higher(@, state.gen)]
    /\ UNCHANGED <<truth, cache, last, state, active, record, binding, calls, floor>>

(* cache.get(): a fresh entry answers the call; a stale one is announced   *)
(* and refreshed.                                                          *)
Hit(caller) ==
    LET result == Res("ready", cache.value, caller.gen)
    IN  Say([caller EXCEPT !.got = result, !.raced = cache.raced], <<result>>, "end")
Stale(caller) ==
    Say([caller EXCEPT !.stale = TRUE, !.old = cache.value],
        <<Res("stale", cache.value, caller.gen)>>, "submit")
Lookup(t) ==
    /\ At(t, "lookup")
    /\ thread' = [thread EXCEPT ![t] =
           IF cache = NoEntry THEN [@ EXCEPT !.at = "submit"]
           ELSE IF cache.fresh THEN Hit(@) ELSE Stale(@)]
    /\ UNCHANGED <<truth, cache, last, state, active, record, binding, calls, floor>>

(* Without the network the call ends offline; what the cache held is       *)
(* announced again, after that.                                            *)
Offline(t) ==
    /\ At(t, "submit")
    /\ thread' = [thread EXCEPT ![t] =
           LET result == Res("offline", 0, @.gen)
           IN  Say([@ EXCEPT !.got = result],
                   <<result>> \o (IF @.stale THEN <<Res("stale", @.old, @.gen)>> ELSE <<>>),
                   "end")]
    /\ UNCHANGED <<truth, cache, last, state, active, record, binding, calls, floor>>

(* submit(): an active record of this generation or a newer one is joined, *)
(* an older one is superseded; generation 0 is moved past the last one.    *)
Joins(t) == active # 0 /\ thread[t].gen <= record[active].gen
Join(t) ==
    /\ At(t, "submit") /\ Joins(t)
    /\ thread' = [thread EXCEPT ![t].at = "wait", ![t].waits = active]
    /\ UNCHANGED <<truth, cache, last, state, active, record, binding, calls, floor>>
Submit(t) ==
    /\ At(t, "submit") /\ ~Joins(t)
    /\ LET gen == IF active = 0 /\ thread[t].gen = 0 /\ last >= 0
                  THEN last + 1 ELSE thread[t].gen
           loading == Res("loading", 0, gen)
           r == Len(record) + 1
       IN  /\ record' = Append(Cancel(active),
                  [stage |-> "queued", gen |-> gen, value |-> 0, cancelled |-> FALSE,
                   stale |-> thread[t].stale, old |-> thread[t].old,
                   result |-> Nothing, late |-> FALSE])
           /\ active' = r
           /\ last' = Higher(last, gen)
           /\ state' = loading
           /\ thread' = [thread EXCEPT
                  ![t] = Say([@ EXCEPT !.waits = r], <<loading>>, "wait")]
    /\ UNCHANGED <<truth, cache, binding, calls, floor>>

Wait(t) ==
    /\ At(t, "wait")
    /\ record[thread[t].waits].stage = "done"
    /\ thread' = [thread EXCEPT ![t].at = "end",
                                ![t].got = record[thread[t].waits].result]
    /\ UNCHANGED <<truth, cache, last, state, active, record, binding, calls, floor>>
End(t) ==
    /\ At(t, "end")
    /\ thread' = [thread EXCEPT ![t] = IdleCaller]
    /\ UNCHANGED <<truth, cache, last, state, active, record, binding, calls, floor>>

--------------------------------------------------------------------------------
(* What a worker does with a record: the loader answers, load_and_cache()  *)
(* checks the token and stores, _run_record() checks the token again and   *)
(* finishes.                                                               *)

Stage(r, stage) == r \in DOMAIN record /\ record[r].stage = stage
Ends(r, status) ==
    record' = [record EXCEPT
        ![r].stage = "returned",
        ![r].result = Res(status, record[r].value, record[r].gen)]
Answer(r) ==
    /\ Stage(r, "queued")
    /\ \/ record[r].cancelled /\ Ends(r, "cancelled")
       \/ ~record[r].cancelled
          /\ record' = [record EXCEPT ![r].stage = "answered", ![r].value = truth]
       \/ ~record[r].cancelled /\ \E status \in {"error", "offline"} : Ends(r, status)
    /\ UNCHANGED <<truth, cache, last, state, active, thread, binding, calls, floor>>
(* Mutant: the loader stores what it read without looking at its token.    *)
MutantCheckToken(r) ==
    /\ Stage(r, "answered")
    /\ record' = [record EXCEPT ![r].stage = "checked"]
    /\ UNCHANGED <<truth, cache, last, state, active, thread, binding, calls, floor>>

CheckToken(r) ==
    /\ Stage(r, "answered")
    /\ IF record[r].cancelled THEN Ends(r, "cancelled")
       ELSE record' = [record EXCEPT ![r].stage = "checked"]
    /\ UNCHANGED <<truth, cache, last, state, active, thread, binding, calls, floor>>
Put(r) ==
    /\ Stage(r, "checked")
    /\ cache' = [value |-> record[r].value, fresh |-> TRUE,
                 raced |-> record[r].late]
    /\ record' = [record EXCEPT ![r].stage = "stored"]
    /\ UNCHANGED <<truth, last, state, active, thread, binding, calls, floor>>
Return(r) ==
    /\ Stage(r, "stored")
    /\ Ends(r, IF record[r].cancelled THEN "cancelled" ELSE "ready")
    /\ UNCHANGED <<truth, cache, last, state, active, thread, binding, calls, floor>>

(* _finish(): a result of the current generation becomes the state; one    *)
(* that failed leaves the stale value there, with the error.  The future   *)
(* is set and the listeners are called without the lock.                   *)
Announced(r) ==
    LET result == record[r].result
    IN  IF record[r].stale /\ result.status \in {"error", "offline"}
        THEN Res("stale", record[r].old, result.gen) ELSE result
(* Mutant: a finished record is left among the active ones.                *)
MutantFinish(r) ==
    /\ Stage(r, "returned")
    /\ state' = IF record[r].result.gen >= last THEN Announced(r) ELSE state
    /\ record' = [record EXCEPT ![r].stage = "done"]
    /\ UNCHANGED <<truth, cache, last, active, thread, binding, calls, floor>>

Finish(r) ==
    /\ Stage(r, "returned")
    /\ state' = IF record[r].result.gen >= last THEN Announced(r) ELSE state
    /\ record' = [record EXCEPT ![r].stage = "done"]
    /\ active' = IF active = r THEN 0 ELSE active
    /\ UNCHANGED <<truth, cache, last, thread, binding, calls, floor>>

(* The entry passes its maximum age.                                       *)
Age ==
    /\ cache # NoEntry /\ cache.fresh
    /\ cache' = [cache EXCEPT !.fresh = FALSE]
    /\ UNCHANGED <<truth, last, state, active, record, thread, binding, calls, floor>>

(* close(): the last consumer leaves and cancels the work, which stays     *)
(* active until its worker has finished.                                   *)
Close ==
    /\ binding = "subscribed"
    /\ binding' = "closed"
    /\ record' = Cancel(active)
    /\ UNCHANGED <<truth, cache, last, state, active, thread, calls, floor>>

Calling(t) == Invalidate(t) \/ Clear(t) \/ Notify(t) \/ Generation(t)
              \/ Lookup(t) \/ Offline(t) \/ Join(t) \/ Submit(t) \/ Wait(t) \/ End(t)
Worker(r) == Answer(r) \/ CheckToken(r) \/ Put(r) \/ Return(r) \/ Finish(r)
Next ==
    \/ \E t \in Thread : Begin(t) \/ Calling(t)
    \/ \E r \in Records : Worker(r)
    \/ Change \/ Age \/ Close

Spec == Init /\ [][Next]_vars

--------------------------------------------------------------------------------
TypeOK ==
    /\ truth \in 0..MaxChanges /\ floor \in 0..MaxChanges
    /\ cache \in Entry \cup {NoEntry} /\ last \in Int /\ state \in Result
    /\ active \in 0..MaxCalls /\ record \in Seq(Record) /\ thread \in [Thread -> Caller]
    /\ binding \in {"subscribed", "closed"} /\ calls \in 0..MaxCalls
    /\ Len(record) <= MaxCalls
    /\ active # 0 => active \in DOMAIN record /\ record[active].stage # "done"

(* What the cache holds after an invalidation was read after it, whichever *)
(* loads were running (load_and_cache's token check); the exception is a   *)
(* loader cancelled between that check and its store.                      *)
InvalidatedStaysGone ==
    cache # NoEntry /\ cache.value < floor =>
        cache.raced \/ \E t \in Thread : At(t, "clear")

(* A forced refresh returns nothing read before it was asked for, though   *)
(* other calls fill the cache and submit loads meanwhile: force_network    *)
(* invalidates the active request and the entry first.                     *)
ForcedGetsNew ==
    \A t \in Thread :
        At(t, "end") /\ thread[t].does = "forced" /\ thread[t].got.status = "ready"
        => thread[t].got.value >= thread[t].since \/ thread[t].raced

================================================================================
