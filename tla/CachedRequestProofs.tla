--------------------------- MODULE CachedRequestProofs --------------------------
(***************************************************************************)
(* That an invalidated value stays gone and that a forced refresh returns  *)
(* nothing older than itself: for any number of threads, calls, changes on *)
(* the server and generations.                                             *)
(***************************************************************************)
EXTENDS CachedRequest, FiniteSetTheorems, TLAPS

(* Threads whose call may still submit a record: there are never more of   *)
(* them than calls without one.                                            *)
Early(c) == c.at \in {"invalidate", "clear", "generation", "lookup", "submit"}
            \/ (c.at = "notify" /\ c.then \in {"generation", "submit"})
Submitters == {t \in Thread : Early(thread[t])}
Budget == /\ IsFiniteSet(Submitters)
          /\ Cardinality(Submitters) + Len(record) <= calls

(* What a call has in hand at each of its steps.                           *)
Waiting(c) == c.at = "wait" \/ (c.at = "notify" /\ c.then = "wait")
Shape(c) ==
    /\ c.at \in {"clear", "notify"} => c.say # <<>>
    /\ c.at = "notify" => c.then \in {"generation", "submit", "wait", "end"}
    /\ Waiting(c) => c.waits \in DOMAIN record
    /\ c.since <= truth
Shapes == /\ floor <= truth
          /\ \A t \in Thread : Shape(thread[t])

(* Only the active record can still store without knowing it is cancelled; *)
(* one cancelled after its token check stores late.                        *)
Tokens ==
    \A q \in DOMAIN record :
        /\ q = active \/ record[q].cancelled \/ record[q].stage = "done"
        /\ record[q].stage = "checked" /\ record[q].cancelled => record[q].late

(* What a record has read, or answers, is no older than a time.            *)
NoOlder(q, time) ==
    /\ record[q].stage \in {"answered", "checked", "stored"} => record[q].value >= time
    /\ record[q].stage \in {"returned", "done"} /\ record[q].result.status = "ready"
       => record[q].result.value >= time
ActiveIsNew == active # 0 => NoOlder(active, floor)

(* A forced call after its invalidation, and after it removed the entry.   *)
Invalidated(c) == c.does = "forced" /\ c.at \notin {"idle", "invalidate"}
Cleared(c) == Invalidated(c) /\ c.at # "clear"
Leaving(c) == c.at = "end" \/ (c.at = "notify" /\ c.then = "end")
Forced(c) ==
    /\ Invalidated(c) => c.since <= floor
    /\ Cleared(c) /\ cache # NoEntry => cache.raced \/ cache.value >= c.since
    /\ Invalidated(c) /\ Waiting(c) => NoOlder(c.waits, c.since)
    /\ Invalidated(c) /\ Leaving(c) /\ c.got.status = "ready"
       => c.raced \/ c.got.value >= c.since
ForcedCalls == \A t \in Thread : Forced(thread[t])

IInv == /\ TypeOK /\ Budget /\ Shapes /\ Tokens /\ ActiveIsNew /\ ForcedCalls
        /\ InvalidatedStaysGone

-----------------------------------------------------------------------------
(* Results and sequences.                                                  *)
LEMMA ResFacts ==
    ASSUME NEW s \in Status, NEW v \in 0..MaxChanges, NEW g \in Int
    PROVE  /\ Res(s, v, g) \in Result /\ Res(s, v, g).status = s
           /\ Res(s, v, g).value = v /\ Res(s, v, g).gen = g
BY DEF Res, Result

LEMMA ResultFacts ==
    ASSUME NEW x \in Result
    PROVE  x.status \in Status /\ x.value \in 0..MaxChanges /\ x.gen \in Int
BY DEF Result

LEMMA SeqUpdate ==
    ASSUME NEW S, NEW s \in Seq(S), NEW r \in DOMAIN s, NEW x \in S
    PROVE  /\ [s EXCEPT ![r] = x] \in Seq(S)
           /\ Len([s EXCEPT ![r] = x]) = Len(s)
           /\ DOMAIN [s EXCEPT ![r] = x] = DOMAIN s
OBVIOUS

(* Cancelling marks one record at most, and changes nothing it has read.   *)
LEMMA CancelFacts ==
    ASSUME record \in Seq(Record), NEW r \in 0..MaxCalls
    PROVE  /\ Cancel(r) \in Seq(Record) /\ Len(Cancel(r)) = Len(record)
           /\ DOMAIN Cancel(r) = DOMAIN record
           /\ \A q \in DOMAIN record :
                /\ Cancel(r)[q].stage = record[q].stage
                /\ Cancel(r)[q].value = record[q].value
                /\ Cancel(r)[q].result = record[q].result
                /\ q # r => Cancel(r)[q] = record[q]
                /\ q = r /\ record[q].stage # "done" =>
                     /\ Cancel(r)[q].cancelled
                     /\ record[q].stage = "checked" => Cancel(r)[q].late
                /\ record[q].stage = "done" => Cancel(r)[q] = record[q]
PROOF
<1> DEFINE new(q) == Cancel(r)[q]
<1>1. DOMAIN Cancel(r) = 1..Len(record) /\ DOMAIN record = 1..Len(record)
  BY DEF Cancel
<1>2. \A q \in DOMAIN record : record[q] \in Record
  OBVIOUS
<1>3. \A q \in DOMAIN record :
         /\ Cancel(r)[q] \in Record
         /\ Cancel(r)[q].stage = record[q].stage
         /\ Cancel(r)[q].value = record[q].value
         /\ Cancel(r)[q].result = record[q].result
         /\ q # r => Cancel(r)[q] = record[q]
         /\ q = r /\ record[q].stage # "done" =>
              /\ Cancel(r)[q].cancelled
              /\ record[q].stage = "checked" => Cancel(r)[q].late
         /\ record[q].stage = "done" => Cancel(r)[q] = record[q]
  BY <1>2 DEF Cancel, Record
<1>4. Cancel(r) \in [1..Len(record) -> Record]
  BY <1>1, <1>3 DEF Cancel
<1>5. Cancel(r) \in Seq(Record) /\ Len(Cancel(r)) = Len(record)
  BY <1>4
<1> QED
  BY <1>1, <1>3, <1>5

(* Ending a record answers it and changes nothing else of it.              *)
LEMMA EndsFacts ==
    ASSUME record \in Seq(Record), NEW r \in DOMAIN record,
           NEW s \in Status, Ends(r, s)
    PROVE  /\ record' \in Seq(Record) /\ Len(record') = Len(record)
           /\ DOMAIN record' = DOMAIN record
           /\ \A q \in DOMAIN record : q # r => record'[q] = record[q]
           /\ record'[r].stage = "returned"
           /\ record'[r].cancelled = record[r].cancelled
           /\ record'[r].result.status = s
           /\ record'[r].result.value = record[r].value
PROOF
<1>1. record[r] \in Record
  OBVIOUS
<1>2. Res(s, record[r].value, record[r].gen) \in Result
  BY <1>1, ResFacts DEF Record
<1> DEFINE new == [record[r] EXCEPT !.stage = "returned",
                       !.result = Res(s, record[r].value, record[r].gen)]
<1>3. new \in Record /\ new.stage = "returned" /\ new.cancelled = record[r].cancelled
      /\ new.result = Res(s, record[r].value, record[r].gen)
  BY <1>1, <1>2 DEF Record
<1>4. record' = [record EXCEPT ![r] = new]
  BY DEF Ends
<1> HIDE DEF new
<1>5. record' \in Seq(Record) /\ Len(record') = Len(record)
      /\ DOMAIN record' = DOMAIN record
  BY <1>3, <1>4, SeqUpdate
<1> QED
  BY <1>1, <1>3, <1>4, <1>5, ResFacts DEF Record

LEMMA SaysFacts ==
    ASSUME NEW x \in Result
    PROVE  <<x>> \in Seq(Result) /\ <<x>> # <<>>
OBVIOUS

LEMMA NothingFacts ==
    ASSUME CacheAssumption
    PROVE  Nothing \in Result /\ Nothing.status = "idle"
PROOF
<1>1. 0 \in 0..MaxChanges /\ -1 \in Int /\ "idle" \in Status
  BY DEF CacheAssumption, Status
<1> QED
  BY <1>1, ResFacts DEF Nothing

LEMMA IdleFacts ==
    ASSUME CacheAssumption
    PROVE  IdleCaller \in Caller /\ IdleCaller.at = "idle"
PROOF
<1>1. <<>> \in Seq(Result) /\ 0 \in 0..MaxChanges /\ 0 \in 0..MaxCalls
  BY DEF CacheAssumption
<1> QED
  BY <1>1, NothingFacts DEF IdleCaller, Caller, Place

LEMMA TailFacts ==
    ASSUME NEW s \in Seq(Result), s # <<>>
    PROVE  Tail(s) \in Seq(Result) /\ (Len(s) > 1 => Tail(s) # <<>>)
PROOF
<1>1. Len(s) \in Nat /\ Len(s) > 0
  OBVIOUS
<1>2. Tail(s) \in Seq(Result) /\ Len(Tail(s)) = Len(s) - 1
  BY <1>1
<1>3. \A u \in Seq(Result) : Len(u) # 0 => u # <<>>
  OBVIOUS
<1>4. Len(s) > 1 => Len(Tail(s)) # 0
  BY <1>1, <1>2
<1> QED
  BY <1>2, <1>3, <1>4, Zenon

(* A thread's step is its own, and leaves what its call asked for.         *)
Moved(t) == /\ thread' \in [Thread -> Caller]
            /\ \A u \in Thread \ {t} : thread'[u] = thread[u]
Carries(t) == /\ Moved(t)
              /\ thread'[t].does = thread[t].does
              /\ thread'[t].since = thread[t].since

(* What each action of a caller does to the thread that takes it.          *)
LEMMA BeginMoves ==
    ASSUME CacheAssumption, TypeOK, Shapes, NEW t \in Thread, Begin(t)
    PROVE  /\ Moved(t)
           /\ thread[t].at = "idle"
           /\ thread'[t].at \in {"lookup", "invalidate"}
           /\ thread'[t].at = "lookup" => thread'[t].does = "plain"
           /\ thread'[t].since = truth
PROOF
<1>1. thread[t] \in Caller
  BY DEF TypeOK
<1>e. IdleCaller \in Caller /\ truth \in 0..MaxChanges /\ thread[t].at = "idle"
  BY IdleFacts DEF TypeOK, Begin, At
<1>b. PICK does \in {"plain", "forced", "dropped"}, gen \in Generations :
          thread' = [thread EXCEPT ![t] = [IdleCaller EXCEPT
               !.at = IF does = "plain" THEN "lookup" ELSE "invalidate",
               !.does = does, !.gen = gen, !.since = truth]]
  BY DEF Begin
<1> DEFINE new == [IdleCaller EXCEPT
               !.at = IF does = "plain" THEN "lookup" ELSE "invalidate",
               !.does = does, !.gen = gen, !.since = truth]
<1>2. /\ new \in Caller
      /\ thread[t].at = "idle"
      /\ new.at \in {"lookup", "invalidate"}
      /\ new.at = "lookup" => new.does = "plain"
      /\ new.since = truth
  BY <1>1, <1>e DEF CacheAssumption, Caller, Place
<1>3. thread' = [thread EXCEPT ![t] = new]
  BY <1>b DEF Begin
<1> HIDE DEF new
<1> QED
  BY <1>1, <1>2, <1>3, <1>e DEF Moved, TypeOK

LEMMA InvalidateMoves ==
    ASSUME CacheAssumption, TypeOK, Shapes, NEW t \in Thread, Invalidate(t)
    PROVE  /\ Carries(t)
           /\ thread[t].at = "invalidate"
           /\ thread'[t].at = "clear"
           /\ thread'[t].say # <<>>
PROOF
<1>1. thread[t] \in Caller
  BY DEF TypeOK
<1> DEFINE said == <<Res("idle", 0, last + 1)>>
<1>e. said \in Seq(Result) /\ said # <<>> /\ thread[t].at = "invalidate"
  BY ResFacts, SaysFacts DEF Status, CacheAssumption, TypeOK, Invalidate, At
<1> HIDE DEF said
<1> DEFINE new == [thread[t] EXCEPT !.at = "clear", !.say = said]
<1>2. /\ new \in Caller
      /\ thread[t].at = "invalidate"
      /\ new.at = "clear"
      /\ new.say # <<>>
      /\ new.does = thread[t].does
      /\ new.since = thread[t].since
  BY <1>1, <1>e DEF Caller, Place
<1>3. thread' = [thread EXCEPT ![t] = new]
  BY DEF Invalidate, said
<1> HIDE DEF new
<1> QED
  BY <1>1, <1>2, <1>3, <1>e DEF Moved, Carries, TypeOK

LEMMA ClearMoves ==
    ASSUME CacheAssumption, TypeOK, Shapes, NEW t \in Thread, Clear(t)
    PROVE  /\ Carries(t)
           /\ thread[t].at = "clear"
           /\ thread'[t].at = "notify"
           /\ thread'[t].say # <<>>
           /\ thread'[t].then \in {"generation", "end"}
           /\ thread[t].does = "forced" => thread'[t].then = "generation"
PROOF
<1>1. thread[t] \in Caller
  BY DEF TypeOK
<1>e. thread[t].say # <<>> /\ thread[t].at = "clear"
  BY DEF Shapes, Shape, Clear, At
<1> DEFINE new == Say(thread[t], thread[t].say,
               IF thread[t].does = "forced" THEN "generation" ELSE "end")
<1>2. /\ new \in Caller
      /\ thread[t].at = "clear"
      /\ new.at = "notify"
      /\ new.say # <<>>
      /\ new.then \in {"generation", "end"}
      /\ thread[t].does = "forced" => new.then = "generation"
      /\ new.does = thread[t].does
      /\ new.since = thread[t].since
  BY <1>1, <1>e DEF Caller, Place, Say
<1>3. thread' = [thread EXCEPT ![t] = new]
  BY DEF Clear
<1> HIDE DEF new
<1> QED
  BY <1>1, <1>2, <1>3, <1>e DEF Moved, Carries, TypeOK

LEMMA NotifyMoves ==
    ASSUME CacheAssumption, TypeOK, Shapes, NEW t \in Thread, Notify(t)
    PROVE  /\ Carries(t)
           /\ thread[t].at = "notify"
           /\ \/ thread'[t].at = "notify" /\ thread'[t].say # <<>>
              \/ thread'[t].at = thread[t].then
           /\ thread'[t].then = thread[t].then
           /\ thread'[t].waits = thread[t].waits
           /\ thread'[t].got = thread[t].got
           /\ thread'[t].raced = thread[t].raced
PROOF
<1>1. thread[t] \in Caller
  BY DEF TypeOK
<1> DEFINE rest == Tail(thread[t].say)
           next == IF Len(thread[t].say) > 1 THEN "notify" ELSE thread[t].then
<1>f. /\ thread[t].say # <<>> /\ thread[t].at = "notify"
      /\ thread[t].say \in Seq(Result)
  BY <1>1 DEF Shapes, Shape, Notify, At, Caller
<1>e. /\ thread[t].at = "notify" /\ rest \in Seq(Result) /\ next \in Place
      /\ (next = "notify" /\ rest # <<>>) \/ next = thread[t].then
  BY <1>1, <1>f, TailFacts DEF Caller, Place
<1> DEFINE new == [thread[t] EXCEPT !.say = rest, !.at = next]
<1>g. new = [thread[t] EXCEPT !.say = Tail(@),
               !.at = IF Len(thread[t].say) > 1 THEN @ ELSE thread[t].then]
  BY <1>1, <1>f DEF Caller
<1> HIDE DEF rest, next
<1>2. /\ new \in Caller
      /\ thread[t].at = "notify"
      /\ \/ new.at = "notify" /\ new.say # <<>>
         \/ new.at = thread[t].then
      /\ new.then = thread[t].then
      /\ new.waits = thread[t].waits
      /\ new.got = thread[t].got
      /\ new.raced = thread[t].raced
      /\ new.does = thread[t].does
      /\ new.since = thread[t].since
  BY <1>1, <1>e DEF Caller, Place
<1>3. thread' = [thread EXCEPT ![t] = new]
  <2> HIDE DEF new
  <2> QED
    BY <1>g DEF Notify
<1> HIDE DEF new
<1> QED
  BY <1>1, <1>2, <1>3, <1>e DEF Moved, Carries, TypeOK

LEMMA GenerationMoves ==
    ASSUME CacheAssumption, TypeOK, Shapes, NEW t \in Thread, Generation(t)
    PROVE  /\ Carries(t)
           /\ thread[t].at = "generation"
           /\ thread'[t].at = "lookup"
PROOF
<1>1. thread[t] \in Caller
  BY DEF TypeOK
<1>e. Higher(thread[t].gen, state.gen) \in Nat /\ thread[t].at = "generation"
  BY <1>1, ResultFacts DEF Higher, Caller, TypeOK, Generation, At
<1> DEFINE new == [thread[t] EXCEPT !.at = "lookup", !.gen = Higher(@, state.gen)]
<1>2. /\ new \in Caller
      /\ thread[t].at = "generation"
      /\ new.at = "lookup"
      /\ new.does = thread[t].does
      /\ new.since = thread[t].since
  BY <1>1, <1>e DEF Caller, Place
<1>3. thread' = [thread EXCEPT ![t] = new]
  BY DEF Generation
<1> HIDE DEF new
<1> QED
  BY <1>1, <1>2, <1>3, <1>e DEF Moved, Carries, TypeOK

LEMMA LookupMoves ==
    ASSUME CacheAssumption, TypeOK, Shapes, NEW t \in Thread, Lookup(t)
    PROVE  /\ Carries(t)
           /\ thread[t].at = "lookup"
           /\ \/ thread'[t].at = "submit"
              \/ thread'[t].at = "notify" /\ thread'[t].then = "submit"
                 /\ thread'[t].say # <<>>
              \/ /\ thread'[t].at = "notify" /\ thread'[t].then = "end"
                 /\ cache # NoEntry
                 /\ thread'[t].say # <<>> /\ thread'[t].got.value = cache.value
                 /\ thread'[t].raced = cache.raced
PROOF
<1>1. thread[t] \in Caller
  BY DEF TypeOK
<1> DEFINE new == IF cache = NoEntry THEN [thread[t] EXCEPT !.at = "submit"]
               ELSE IF cache.fresh THEN Hit(thread[t]) ELSE Stale(thread[t])
<1>4. thread[t].at = "lookup"
  BY DEF Lookup, At
<1>2. /\ new \in Caller
      /\ new.does = thread[t].does
      /\ new.since = thread[t].since
      /\ \/ new.at = "submit"
         \/ new.at = "notify" /\ new.then = "submit" /\ new.say # <<>>
         \/ /\ new.at = "notify" /\ new.then = "end" /\ cache # NoEntry
            /\ new.say # <<>> /\ new.got.value = cache.value
            /\ new.raced = cache.raced
  <2>1. CASE cache = NoEntry
    BY <1>1, <2>1 DEF Caller, Place
  <2>2. CASE cache # NoEntry /\ cache.fresh
    <3> DEFINE result == Res("ready", cache.value, thread[t].gen)
    <3>1. /\ cache.value \in 0..MaxChanges /\ cache.raced \in BOOLEAN
          /\ thread[t].gen \in Int
      BY <1>1, <2>2 DEF TypeOK, Entry, Caller
    <3>2. result \in Result /\ result.value = cache.value
      BY <3>1, ResFacts DEF Status
    <3>3. new = [thread[t] EXCEPT !.got = result, !.raced = cache.raced,
                     !.at = "notify", !.say = <<result>>, !.then = "end"]
      BY <1>1, <2>2 DEF Hit, Say, Caller
    <3> HIDE DEF result, new
    <3>4. <<result>> \in Seq(Result) /\ <<result>> # <<>>
      BY <3>2, SaysFacts
    <3>5. new \in Caller
      BY <1>1, <3>1, <3>2, <3>3, <3>4 DEF Caller, Place
    <3> QED
      BY <1>1, <2>2, <3>2, <3>3, <3>4, <3>5 DEF Caller
  <2>3. CASE cache # NoEntry /\ ~cache.fresh
    <3> DEFINE result == Res("stale", cache.value, thread[t].gen)
    <3>1. cache.value \in 0..MaxChanges /\ thread[t].gen \in Int
      BY <1>1, <2>3 DEF TypeOK, Entry, Caller
    <3>2. result \in Result
      BY <3>1, ResFacts DEF Status
    <3>3. new = [thread[t] EXCEPT !.stale = TRUE, !.old = cache.value,
                     !.at = "notify", !.say = <<result>>, !.then = "submit"]
      BY <1>1, <2>3 DEF Stale, Say, Caller
    <3> HIDE DEF result, new
    <3>4. <<result>> \in Seq(Result) /\ <<result>> # <<>>
      BY <3>2, SaysFacts
    <3>5. new \in Caller
      BY <1>1, <3>1, <3>3, <3>4 DEF Caller, Place
    <3> QED
      BY <1>1, <3>3, <3>4, <3>5 DEF Caller
  <2> QED
    BY <2>1, <2>2, <2>3
<1>3. thread' = [thread EXCEPT ![t] = new]
  BY DEF Lookup
<1> HIDE DEF new
<1> QED
  BY <1>1, <1>2, <1>3, <1>4 DEF Moved, Carries, TypeOK

LEMMA OfflineMoves ==
    ASSUME CacheAssumption, TypeOK, Shapes, NEW t \in Thread, Offline(t)
    PROVE  /\ Carries(t)
           /\ thread[t].at = "submit"
           /\ thread'[t].at = "notify" /\ thread'[t].then = "end" /\ thread'[t].say # <<>>
           /\ thread'[t].got.status = "offline"
PROOF
<1>1. thread[t] \in Caller
  BY DEF TypeOK
<1> DEFINE said == <<Res("offline", 0, thread[t].gen)>>
                       \o (IF thread[t].stale
                          THEN <<Res("stale", thread[t].old, thread[t].gen)>>
                          ELSE <<>>)
<1>f. thread[t].gen \in Int /\ thread[t].old \in 0..MaxChanges /\ MaxChanges \in Nat
  BY <1>1 DEF Caller, CacheAssumption
<1>g. /\ Res("offline", 0, thread[t].gen) \in Result
      /\ Res("offline", 0, thread[t].gen).status = "offline"
      /\ Res("stale", thread[t].old, thread[t].gen) \in Result
  BY <1>f, ResFacts DEF Status
<1>e. /\ thread[t].at = "submit" /\ said \in Seq(Result) /\ said # <<>>
      /\ Res("offline", 0, thread[t].gen) \in Result
      /\ Res("offline", 0, thread[t].gen).status = "offline"
  BY <1>g DEF Offline, At
<1> DEFINE new == [thread[t] EXCEPT !.got = Res("offline", 0, thread[t].gen), !.at = "notify",
               !.say = said, !.then = "end"]
<1>2. /\ new \in Caller
      /\ thread[t].at = "submit"
      /\ new.at = "notify" /\ new.then = "end" /\ new.say # <<>>
      /\ new.got.status = "offline"
      /\ new.does = thread[t].does
      /\ new.since = thread[t].since
  BY <1>1, <1>e DEF Caller, Place
<1>3. thread' = [thread EXCEPT ![t] = new]
  <2>1. new = Say([thread[t] EXCEPT !.got = Res("offline", 0, thread[t].gen)],
                  said, "end")
    BY <1>1 DEF Say, Caller
  <2> HIDE DEF new
  <2> QED
    BY <2>1 DEF Offline
<1> HIDE DEF new
<1> QED
  BY <1>1, <1>2, <1>3, <1>e DEF Moved, Carries, TypeOK

LEMMA JoinMoves ==
    ASSUME CacheAssumption, TypeOK, Shapes, NEW t \in Thread, Join(t)
    PROVE  /\ Carries(t)
           /\ thread[t].at = "submit" /\ active # 0 /\ active \in DOMAIN record
           /\ thread'[t].at = "wait" /\ thread'[t].waits = active
PROOF
<1>1. thread[t] \in Caller
  BY DEF TypeOK
<1>e. thread[t].at = "submit" /\ active # 0 /\ active \in 0..MaxCalls
      /\ active \in DOMAIN record
  BY DEF Join, Joins, At, TypeOK
<1> DEFINE new == [thread[t] EXCEPT !.at = "wait", !.waits = active]
<1>2. /\ new \in Caller
      /\ thread[t].at = "submit" /\ active # 0 /\ active \in DOMAIN record
      /\ new.at = "wait" /\ new.waits = active
      /\ new.does = thread[t].does
      /\ new.since = thread[t].since
  BY <1>1, <1>e DEF Caller, Place
<1>3. thread' = [thread EXCEPT ![t] = new]
  BY DEF Join
<1> HIDE DEF new
<1> QED
  BY <1>1, <1>2, <1>3, <1>e DEF Moved, Carries, TypeOK

LEMMA SubmitMoves ==
    ASSUME CacheAssumption, TypeOK, Shapes, Len(record) < MaxCalls,
           NEW t \in Thread, Submit(t)
    PROVE  /\ Carries(t)
           /\ thread[t].at = "submit"
           /\ thread'[t].at = "notify" /\ thread'[t].then = "wait" /\ thread'[t].say # <<>>
           /\ thread'[t].waits = Len(record) + 1
PROOF
<1>1. thread[t] \in Caller
  BY DEF TypeOK
<1> DEFINE gen == IF active = 0 /\ thread[t].gen = 0 /\ last >= 0
                  THEN last + 1 ELSE thread[t].gen
<1>f. gen \in Int
  BY <1>1 DEF Caller, TypeOK
<1> DEFINE said == <<Res("loading", 0, gen)>>
<1>e. /\ said \in Seq(Result) /\ said # <<>> /\ thread[t].at = "submit"
      /\ Len(record) + 1 \in 0..MaxCalls
  <2>1. Len(record) \in Nat
    BY DEF TypeOK
  <2>2. Len(record) + 1 \in 0..MaxCalls
    BY <2>1 DEF CacheAssumption
  <2>3. said \in Seq(Result) /\ said # <<>>
    BY <1>f, ResFacts, SaysFacts DEF Status, CacheAssumption
  <2>4. thread[t].at = "submit"
    BY DEF Submit, At
  <2> QED
    BY <2>2, <2>3, <2>4
<1> HIDE DEF said
<1> DEFINE new == [thread[t] EXCEPT !.waits = Len(record) + 1, !.at = "notify",
               !.say = said, !.then = "wait"]
<1>2. /\ new \in Caller
      /\ thread[t].at = "submit"
      /\ new.at = "notify" /\ new.then = "wait" /\ new.say # <<>>
      /\ new.waits = Len(record) + 1
      /\ new.does = thread[t].does
      /\ new.since = thread[t].since
  BY <1>1, <1>e DEF Caller, Place
<1>3. thread' = [thread EXCEPT ![t] = new]
  <2>1. new = Say([thread[t] EXCEPT !.waits = Len(record) + 1],
                  said, "wait")
    BY <1>1 DEF Say, Caller
  <2> HIDE DEF new
  <2> QED
    BY <2>1 DEF Submit, said
<1> HIDE DEF new
<1> QED
  BY <1>1, <1>2, <1>3, <1>e DEF Moved, Carries, TypeOK

LEMMA WaitMoves ==
    ASSUME CacheAssumption, TypeOK, Shapes, NEW t \in Thread, Wait(t)
    PROVE  /\ Carries(t)
           /\ thread[t].at = "wait" /\ thread'[t].at = "end"
           /\ record[thread[t].waits].stage = "done"
           /\ thread'[t].got = record[thread[t].waits].result
           /\ thread'[t].then = thread[t].then
PROOF
<1>1. thread[t] \in Caller
  BY DEF TypeOK
<1>4. thread[t].waits \in DOMAIN record
  BY DEF Wait, At, Shapes, Shape, Waiting
<1>5. record[thread[t].waits] \in Record
  BY <1>4 DEF TypeOK
<1>e. /\ thread[t].at = "wait" /\ record[thread[t].waits].stage = "done"
      /\ record[thread[t].waits].result \in Result
  BY <1>5 DEF Wait, At, Record
<1> DEFINE new == [thread[t] EXCEPT !.at = "end", !.got = record[thread[t].waits].result]
<1>2. /\ new \in Caller
      /\ thread[t].at = "wait" /\ new.at = "end"
      /\ record[thread[t].waits].stage = "done"
      /\ new.got = record[thread[t].waits].result
      /\ new.then = thread[t].then
      /\ new.does = thread[t].does
      /\ new.since = thread[t].since
  BY <1>1, <1>e DEF Caller, Place
<1>3. thread' = [thread EXCEPT ![t] = new]
  BY DEF Wait
<1> HIDE DEF new
<1> QED
  BY <1>1, <1>2, <1>3, <1>e DEF Moved, Carries, TypeOK

LEMMA EndMoves ==
    ASSUME CacheAssumption, TypeOK, Shapes, NEW t \in Thread, End(t)
    PROVE  /\ Moved(t)
           /\ thread'[t] = IdleCaller /\ thread'[t].at = "idle"
PROOF
<1>1. thread[t] \in Caller
  BY DEF TypeOK
<1>e. IdleCaller \in Caller /\ IdleCaller.at = "idle"
  BY IdleFacts
<1> DEFINE new == IdleCaller
<1>2. /\ new \in Caller
      /\ new = IdleCaller
      /\ new.at = "idle"
  BY <1>e
<1>3. thread' = [thread EXCEPT ![t] = new]
  BY DEF End
<1> HIDE DEF new
<1> QED
  BY <1>1, <1>2, <1>3, <1>e DEF Moved, TypeOK

(* A worker's step concerns its own record.                                *)
Works(r) == /\ record' \in Seq(Record) /\ Len(record') = Len(record)
            /\ DOMAIN record' = DOMAIN record /\ r \in DOMAIN record
            /\ \A q \in DOMAIN record : q # r => record'[q] = record[q]
            /\ record'[r].cancelled = record[r].cancelled
Refused(r) == record'[r].stage = "returned" /\ record'[r].result.status # "ready"

(* What each action of a worker does to its record.                        *)
LEMMA AnswerDoes ==
    ASSUME TypeOK, NEW r \in Records, Answer(r)
    PROVE  /\ Works(r)
           /\ record[r].stage = "queued"
           /\ \/ record'[r].stage = "answered" /\ record'[r].value = truth
              \/ Refused(r)
PROOF
<1> USE DEF Answer, Stage
<1>1. r \in DOMAIN record /\ record \in Seq(Record) /\ record[r] \in Record
  BY DEF TypeOK
<1>2. CASE Ends(r, "cancelled") \/ Ends(r, "error") \/ Ends(r, "offline")
  BY <1>1, <1>2, EndsFacts DEF Works, Refused, Status
<1>3. CASE record' = [record EXCEPT ![r].stage = "answered", ![r].value = truth]
  <2> DEFINE new == [record[r] EXCEPT !.stage = "answered", !.value = truth]
  <2>1. /\ new \in Record /\ new.cancelled = record[r].cancelled
        /\ new.stage = "answered" /\ new.value = truth
    BY <1>1 DEF Record, TypeOK
  <2>2. record' = [record EXCEPT ![r] = new]
    BY <1>3
  <2> HIDE DEF new
  <2> QED
    BY <1>1, <2>1, <2>2, SeqUpdate DEF Works
<1> QED
  BY <1>2, <1>3

LEMMA CheckTokenDoes ==
    ASSUME TypeOK, NEW r \in Records, CheckToken(r)
    PROVE  /\ Works(r)
           /\ record[r].stage = "answered"
           /\ \/ /\ ~record[r].cancelled /\ record'[r].stage = "checked"
                 /\ record'[r].value = record[r].value
              \/ Refused(r)
PROOF
<1> USE DEF CheckToken, Stage
<1>1. r \in DOMAIN record /\ record \in Seq(Record) /\ record[r] \in Record
  BY DEF TypeOK
<1>2. CASE record[r].cancelled
  BY <1>1, <1>2, EndsFacts DEF Works, Refused, Status
<1>3. CASE ~record[r].cancelled
  <2> DEFINE new == [record[r] EXCEPT !.stage = "checked"]
  <2>1. /\ new \in Record /\ new.cancelled = record[r].cancelled
        /\ new.stage = "checked" /\ new.value = record[r].value
    BY <1>1 DEF Record
  <2>2. record' = [record EXCEPT ![r] = new]
    BY <1>3
  <2> HIDE DEF new
  <2> QED
    BY <1>1, <1>3, <2>1, <2>2, SeqUpdate DEF Works
<1> QED
  BY <1>2, <1>3

LEMMA PutDoes ==
    ASSUME TypeOK, NEW r \in Records, Put(r)
    PROVE  /\ Works(r)
           /\ record[r].stage = "checked" /\ record'[r].stage = "stored"
           /\ record'[r].value = record[r].value
           /\ cache' \in Entry /\ cache'.value = record[r].value
              /\ cache'.raced = record[r].late
PROOF
<1> USE DEF Put, Stage
<1>1. r \in DOMAIN record /\ record \in Seq(Record) /\ record[r] \in Record
  BY DEF TypeOK
<1> DEFINE new == [record[r] EXCEPT !.stage = "stored"]
<1>2. /\ new \in Record /\ new.cancelled = record[r].cancelled
      /\ new.stage = "stored" /\ new.value = record[r].value
  BY <1>1 DEF Record
<1>3. record' = [record EXCEPT ![r] = new]
  OBVIOUS
<1>4. cache' \in Entry /\ cache'.value = record[r].value
      /\ cache'.raced = record[r].late
  BY <1>1 DEF Record, Entry
<1> HIDE DEF new
<1>5. Works(r) /\ record'[r] = new
  BY <1>1, <1>2, <1>3, SeqUpdate DEF Works
<1> QED
  BY <1>2, <1>4, <1>5

LEMMA ReturnDoes ==
    ASSUME TypeOK, NEW r \in Records, Return(r)
    PROVE  /\ Works(r)
           /\ record[r].stage = "stored" /\ record'[r].stage = "returned"
           /\ record'[r].result.value = record[r].value
PROOF
<1> USE DEF Return, Stage
<1>1. r \in DOMAIN record /\ record \in Seq(Record) /\ record[r] \in Record
  BY DEF TypeOK
<1>2. (IF record[r].cancelled THEN "cancelled" ELSE "ready") \in Status
  BY DEF Status
<1> QED
  BY <1>1, <1>2, EndsFacts DEF Works

LEMMA FinishDoes ==
    ASSUME TypeOK, NEW r \in Records, Finish(r)
    PROVE  /\ Works(r)
           /\ record[r].stage = "returned" /\ record'[r].stage = "done"
           /\ record'[r].result = record[r].result
PROOF
<1> USE DEF Finish, Stage
<1>1. r \in DOMAIN record /\ record \in Seq(Record) /\ record[r] \in Record
  BY DEF TypeOK
<1> DEFINE new == [record[r] EXCEPT !.stage = "done"]
<1>2. /\ new \in Record /\ new.cancelled = record[r].cancelled
      /\ new.stage = "done" /\ new.result = record[r].result
  BY <1>1 DEF Record
<1>3. record' = [record EXCEPT ![r] = new]
  OBVIOUS
<1> HIDE DEF new
<1> QED
  BY <1>1, <1>2, <1>3, SeqUpdate DEF Works

(* Submitting adds one record, queued and active, behind the others.       *)
LEMMA SubmitDoes ==
    ASSUME CacheAssumption, TypeOK, NEW t \in Thread, Submit(t)
    PROVE  /\ record' \in Seq(Record) /\ Len(record') = Len(record) + 1
           /\ DOMAIN record' = DOMAIN record \cup {Len(record) + 1}
           /\ \A q \in DOMAIN record : record'[q] = Cancel(active)[q]
           /\ record'[Len(record) + 1].stage = "queued"
           /\ active' = Len(record) + 1 /\ Len(record) + 1 \notin DOMAIN record
PROOF
<1> DEFINE gen == IF active = 0 /\ thread[t].gen = 0 /\ last >= 0
                  THEN last + 1 ELSE thread[t].gen
           new == [stage |-> "queued", gen |-> gen, value |-> 0, cancelled |-> FALSE,
                   stale |-> thread[t].stale, old |-> thread[t].old,
                   result |-> Nothing, late |-> FALSE]
<1>1. thread[t] \in Caller
  BY DEF TypeOK
<1>2. gen \in Nat
  BY <1>1 DEF Caller, TypeOK
<1>3. /\ thread[t].stale \in BOOLEAN /\ thread[t].old \in 0..MaxChanges
      /\ 0 \in 0..MaxChanges
  BY <1>1 DEF Caller, CacheAssumption
<1>4. record' = Append(Cancel(active), new) /\ active' = Len(record) + 1
  BY DEF Submit
<1> HIDE DEF gen
<1>5. new \in Record /\ new.stage = "queued"
  BY <1>2, <1>3, NothingFacts DEF Record
<1> HIDE DEF new
<1>6. Cancel(active) \in Seq(Record) /\ Len(Cancel(active)) = Len(record)
      /\ record \in Seq(Record)
  BY CancelFacts DEF TypeOK
<1> QED
  BY <1>4, <1>5, <1>6

-----------------------------------------------------------------------------
(* A call that may submit leaves room for its record.                      *)
LEMMA SubmitRoom ==
    ASSUME CacheAssumption, TypeOK, Budget, NEW t \in Thread, Early(thread[t])
    PROVE  Len(record) < MaxCalls /\ Cardinality(Submitters \ {t}) + Len(record) + 1 <= calls
PROOF
<1>1. t \in Submitters
  BY DEF Submitters
<1>2. IsFiniteSet(Submitters) /\ Cardinality(Submitters) \in Nat
  BY FS_CardinalityType DEF Budget
<1>3. Cardinality(Submitters \ {t}) = Cardinality(Submitters) - 1
      /\ IsFiniteSet(Submitters \ {t})
  BY <1>1, <1>2, FS_RemoveElement
<1>4. Cardinality(Submitters \ {t}) \in Nat
  BY <1>3, FS_CardinalityType
<1> QED
  BY <1>2, <1>3, <1>4 DEF Budget, TypeOK, CacheAssumption

LEMMA BudgetKept ==
    ASSUME TypeOK, Budget, Submitters' \subseteq Submitters,
           Len(record') = Len(record), calls' = calls
    PROVE  Budget'
PROOF
<1>1. IsFiniteSet(Submitters') /\ Cardinality(Submitters') <= Cardinality(Submitters)
  BY FS_Subset DEF Budget
<1>2. Cardinality(Submitters') \in Nat /\ Cardinality(Submitters) \in Nat
  BY <1>1, FS_CardinalityType DEF Budget
<1>3. Len(record) \in Nat /\ calls \in Nat
  BY DEF TypeOK
<1> QED
  BY <1>1, <1>2, <1>3 DEF Budget

LEMMA SubmittersMove ==
    ASSUME NEW t \in Thread, Moved(t), Early(thread'[t]) => Early(thread[t])
    PROVE  Submitters' \subseteq Submitters
BY DEF Submitters, Moved

(* Every variable keeps its type.                                          *)
LEMMA TypeStep ==
    ASSUME CacheAssumption, TypeOK, Budget, Shapes, [Next]_vars
    PROVE  TypeOK'
PROOF
<1> USE DEF TypeOK
<1>1. CASE Change
  BY <1>1 DEF Change
<1>2. ASSUME NEW t \in Thread, Begin(t) PROVE TypeOK'
  <2>1. Moved(t)
    BY <1>2, BeginMoves
  <2>2. calls' \in 0..MaxCalls
        /\ UNCHANGED <<truth, cache, last, state, active, record, binding, floor>>
    BY <1>2 DEF Begin, CacheAssumption
  <2> QED
    BY <2>1, <2>2 DEF Moved
<1>3. ASSUME NEW t \in Thread, Invalidate(t) PROVE TypeOK'
  <2>1. Moved(t)
    BY <1>3, InvalidateMoves DEF Carries
  <2>2. record' \in Seq(Record) /\ Len(record') = Len(record)
    BY <1>3, CancelFacts DEF Invalidate
  <2>3. 0 \in 0..MaxChanges /\ "idle" \in Status /\ last + 1 \in Int
    BY DEF CacheAssumption, Status
  <2>4. state' \in Result
    BY <1>3, <2>3, ResFacts DEF Invalidate
  <2>5. /\ last' = last + 1 /\ active' = 0 /\ floor' = truth
        /\ UNCHANGED <<truth, cache, binding, calls>>
    BY <1>3 DEF Invalidate
  <2> QED
    BY <2>1, <2>2, <2>3, <2>4, <2>5 DEF Moved, CacheAssumption
<1>4. ASSUME NEW t \in Thread, Clear(t) PROVE TypeOK'
  BY <1>4, ClearMoves DEF Clear, Moved, Carries
<1>5. ASSUME NEW t \in Thread, Notify(t) PROVE TypeOK'
  <2>1. Moved(t)
    BY <1>5, NotifyMoves DEF Carries
  <2>2. thread[t].say \in Seq(Result) /\ thread[t].say # <<>>
    BY <1>5 DEF Caller, Shapes, Shape, Notify, At
  <2>3. Head(thread[t].say) \in Result
    BY <2>2
  <2>4. last' \in Int /\ state' \in Result
        /\ UNCHANGED <<truth, cache, active, record, binding, calls, floor>>
    BY <1>5, <2>3, ResultFacts DEF Notify
  <2> QED
    BY <2>1, <2>4 DEF Moved
<1>6. ASSUME NEW t \in Thread, Generation(t) PROVE TypeOK'
  BY <1>6, GenerationMoves DEF Generation, Moved, Carries
<1>7. ASSUME NEW t \in Thread, Lookup(t) PROVE TypeOK'
  BY <1>7, LookupMoves DEF Lookup, Moved, Carries
<1>8. ASSUME NEW t \in Thread, Offline(t) PROVE TypeOK'
  BY <1>8, OfflineMoves DEF Offline, Moved, Carries
<1>9. ASSUME NEW t \in Thread, Join(t) PROVE TypeOK'
  BY <1>9, JoinMoves DEF Join, Moved, Carries
<1>10. ASSUME NEW t \in Thread, Submit(t) PROVE TypeOK'
  <2>1. Len(record) < MaxCalls
    BY <1>10, SubmitRoom DEF Early, Submit, At
  <2>2. Moved(t)
    BY <1>10, <2>1, SubmitMoves DEF Carries
  <2>3. /\ record' \in Seq(Record) /\ Len(record') = Len(record) + 1
        /\ active' = Len(record) + 1 /\ active' \in DOMAIN record'
        /\ record'[active'].stage = "queued"
    BY <1>10, SubmitDoes
  <2> DEFINE gen == IF active = 0 /\ thread[t].gen = 0 /\ last >= 0
                    THEN last + 1 ELSE thread[t].gen
  <2>4. gen \in Int
    BY DEF Caller
  <2>5. Res("loading", 0, gen) \in Result
    BY <2>4, ResFacts DEF Status, CacheAssumption
  <2>6. last' \in Int /\ state' \in Result
        /\ UNCHANGED <<truth, cache, binding, calls, floor>>
    BY <1>10, <2>4, <2>5 DEF Submit, Higher
  <2> QED
    BY <2>1, <2>2, <2>3, <2>6 DEF Moved
<1>11. ASSUME NEW t \in Thread, Wait(t) PROVE TypeOK'
  BY <1>11, WaitMoves DEF Wait, Moved, Carries
<1>12. ASSUME NEW t \in Thread, End(t) PROVE TypeOK'
  BY <1>12, EndMoves DEF End, Moved, Carries
<1>13. ASSUME NEW r \in Records, Answer(r) PROVE TypeOK'
  <2>1. Works(r) /\ record'[r].stage # "done"
    BY <1>13, AnswerDoes DEF Refused
  <2>2. UNCHANGED <<truth, cache, last, state, active, thread, binding, calls, floor>>
    BY <1>13 DEF Answer
  <2> QED
    BY <2>1, <2>2 DEF Works
<1>14. ASSUME NEW r \in Records, CheckToken(r) PROVE TypeOK'
  <2>1. Works(r) /\ record'[r].stage # "done"
    BY <1>14, CheckTokenDoes DEF Refused
  <2>2. UNCHANGED <<truth, cache, last, state, active, thread, binding, calls, floor>>
    BY <1>14 DEF CheckToken
  <2> QED
    BY <2>1, <2>2 DEF Works
<1>15. ASSUME NEW r \in Records, Put(r) PROVE TypeOK'
  BY <1>15, PutDoes DEF Put, Works
<1>16. ASSUME NEW r \in Records, Return(r) PROVE TypeOK'
  BY <1>16, ReturnDoes DEF Return, Works
<1>17. ASSUME NEW r \in Records, Finish(r) PROVE TypeOK'
  <2>1. Works(r) /\ record'[r].stage = "done"
    BY <1>17, FinishDoes
  <2>2. record[r] \in Record
    BY <2>1 DEF Works
  <2>3. record[r].result \in Result /\ record[r].old \in 0..MaxChanges
    BY <2>2 DEF Record
  <2>4. Announced(r) \in Result
    BY <2>3, ResFacts, ResultFacts DEF Announced, Status
  <2>5. state' \in Result /\ active' = (IF active = r THEN 0 ELSE active)
        /\ UNCHANGED <<truth, cache, last, thread, binding, calls, floor>>
    BY <1>17, <2>4 DEF Finish
  <2> QED
    BY <2>1, <2>5 DEF Works, CacheAssumption
<1>18. CASE Age
  BY <1>18 DEF Age, Entry
<1>19. CASE Close
  BY <1>19, CancelFacts DEF Close
<1>20. CASE UNCHANGED vars
  BY <1>20 DEF vars
<1> QED
  BY <1>1, <1>2, <1>3, <1>4, <1>5, <1>6, <1>7, <1>8, <1>9, <1>10, <1>11, <1>12,
     <1>13, <1>14, <1>15, <1>16, <1>17, <1>18, <1>19, <1>20 DEF Next, Calling,
     Worker

(* Calls and records stay within their bound.                              *)
LEMMA BudgetStep ==
    ASSUME CacheAssumption, TypeOK, Budget, Shapes, [Next]_vars
    PROVE  Budget'
PROOF
<1> USE BudgetKept
<1>1. CASE Change
  BY <1>1 DEF Change, Submitters
<1>2. ASSUME NEW t \in Thread, Begin(t) PROVE Budget'
  <2>1. Moved(t) /\ calls' = calls + 1 /\ record' = record
    BY <1>2, BeginMoves DEF Begin
  <2>2. Submitters' \subseteq Submitters \cup {t}
    BY <2>1 DEF Submitters, Moved
  <2>3. /\ IsFiniteSet(Submitters \cup {t})
        /\ Cardinality(Submitters \cup {t}) <= Cardinality(Submitters) + 1
        /\ Cardinality(Submitters) \in Nat
    <3>1. IsFiniteSet(Submitters) /\ Cardinality(Submitters) \in Nat
      BY FS_CardinalityType DEF Budget
    <3>2. /\ IsFiniteSet(Submitters \cup {t})
          /\ Cardinality(Submitters \cup {t})
               = IF t \in Submitters THEN Cardinality(Submitters)
                 ELSE Cardinality(Submitters) + 1
      BY <3>1, FS_AddElement
    <3> QED
      BY <3>1, <3>2
  <2>4. /\ IsFiniteSet(Submitters')
        /\ Cardinality(Submitters') <= Cardinality(Submitters \cup {t})
    BY <2>2, <2>3, FS_Subset
  <2>5. Cardinality(Submitters') \in Nat /\ Cardinality(Submitters \cup {t}) \in Nat
        /\ Len(record) \in Nat /\ calls \in Nat
    BY <2>3, <2>4, FS_CardinalityType DEF TypeOK
  <2> QED
    BY <2>1, <2>3, <2>4, <2>5 DEF Budget
<1>3. ASSUME NEW t \in Thread, Invalidate(t) PROVE Budget'
  <2>1. Submitters' \subseteq Submitters
    BY <1>3, InvalidateMoves, SubmittersMove DEF Carries, Early
  <2>2. Len(record') = Len(record) /\ calls' = calls
    BY <1>3, CancelFacts DEF Invalidate, TypeOK
  <2> QED
    BY <2>1, <2>2, BudgetKept
<1>4. ASSUME NEW t \in Thread, Clear(t) PROVE Budget'
  BY <1>4, ClearMoves, SubmittersMove DEF Clear, Early, Carries, Moved
<1>5. ASSUME NEW t \in Thread, Notify(t) PROVE Budget'
  <2>1. Carries(t) /\ calls' = calls /\ record' = record
    BY <1>5, NotifyMoves DEF Notify
  <2>2. thread[t].then \in {"generation", "submit", "wait", "end"}
        /\ thread[t].at = "notify"
    BY <1>5, NotifyMoves DEF Shapes, Shape
  <2>3. Early(thread'[t]) => Early(thread[t])
    BY <1>5, <2>2, NotifyMoves DEF Early
  <2> QED
    BY <2>1, <2>3, BudgetKept, SubmittersMove DEF Carries
<1>6. ASSUME NEW t \in Thread, Generation(t) PROVE Budget'
  BY <1>6, GenerationMoves, SubmittersMove DEF Generation, Early, Carries, Moved
<1>7. ASSUME NEW t \in Thread, Lookup(t) PROVE Budget'
  BY <1>7, LookupMoves, SubmittersMove DEF Lookup, Early, Carries, Moved
<1>8. ASSUME NEW t \in Thread, Offline(t) PROVE Budget'
  BY <1>8, OfflineMoves, SubmittersMove DEF Offline, Early, Carries, Moved
<1>9. ASSUME NEW t \in Thread, Join(t) PROVE Budget'
  BY <1>9, JoinMoves, SubmittersMove DEF Join, Early, Carries, Moved
<1>10. ASSUME NEW t \in Thread, Submit(t) PROVE Budget'
  <2>1. /\ Len(record) < MaxCalls
        /\ Cardinality(Submitters \ {t}) + Len(record) + 1 <= calls
    BY <1>10, SubmitRoom DEF Early, Submit, At
  <2>2. Moved(t) /\ ~Early(thread'[t]) /\ calls' = calls
        /\ Len(record') = Len(record) + 1
    BY <1>10, <2>1, SubmitMoves, SubmitDoes DEF Carries, Early, Submit
  <2>3. Submitters' \subseteq Submitters \ {t}
    BY <2>2 DEF Submitters, Moved
  <2>4. IsFiniteSet(Submitters \ {t})
    BY FS_Subset DEF Budget
  <2>5. /\ IsFiniteSet(Submitters')
        /\ Cardinality(Submitters') <= Cardinality(Submitters \ {t})
    BY <2>3, <2>4, FS_Subset
  <2>6. Cardinality(Submitters') \in Nat /\ Cardinality(Submitters \ {t}) \in Nat
        /\ Len(record) \in Nat /\ calls \in Nat
    BY <2>4, <2>5, FS_CardinalityType DEF TypeOK
  <2> QED
    BY <2>1, <2>2, <2>5, <2>6 DEF Budget
<1>11. ASSUME NEW t \in Thread, Wait(t) PROVE Budget'
  BY <1>11, WaitMoves, SubmittersMove DEF Wait, Early, Carries, Moved
<1>12. ASSUME NEW t \in Thread, End(t) PROVE Budget'
  BY <1>12, EndMoves, SubmittersMove DEF End, Early, Carries, Moved
<1>13. ASSUME NEW r \in Records, Answer(r) PROVE Budget'
  BY <1>13, AnswerDoes DEF Answer, Works, Submitters
<1>14. ASSUME NEW r \in Records, CheckToken(r) PROVE Budget'
  BY <1>14, CheckTokenDoes DEF CheckToken, Works, Submitters
<1>15. ASSUME NEW r \in Records, Put(r) PROVE Budget'
  BY <1>15, PutDoes DEF Put, Works, Submitters
<1>16. ASSUME NEW r \in Records, Return(r) PROVE Budget'
  BY <1>16, ReturnDoes DEF Return, Works, Submitters
<1>17. ASSUME NEW r \in Records, Finish(r) PROVE Budget'
  BY <1>17, FinishDoes DEF Finish, Works, Submitters
<1>18. CASE Age
  BY <1>18 DEF Age, Submitters
<1>19. CASE Close
  BY <1>19, CancelFacts DEF Close, Submitters, TypeOK
<1>20. CASE UNCHANGED vars
  BY <1>20 DEF vars, Submitters, Budget
<1> QED
  BY <1>1, <1>2, <1>3, <1>4, <1>5, <1>6, <1>7, <1>8, <1>9, <1>10, <1>11, <1>12,
     <1>13, <1>14, <1>15, <1>16, <1>17, <1>18, <1>19, <1>20 DEF Next, Calling,
     Worker

-----------------------------------------------------------------------------
(* What a step may do to the records: none disappears, and what they read  *)
(* or answer becomes no older.                                             *)
RecordsKept ==
    /\ DOMAIN record \subseteq DOMAIN record'
    /\ \A q \in DOMAIN record, time \in 0..MaxChanges :
           time <= truth /\ NoOlder(q, time) => NoOlder(q, time)'

(* Every step keeps the records so.                                        *)
LEMMA RecordsStep ==
    ASSUME CacheAssumption, TypeOK, Budget, Shapes, [Next]_vars
    PROVE  RecordsKept
PROOF
<1> USE DEF RecordsKept
<1>1. CASE Change
  BY <1>1 DEF Change, NoOlder
<1>2. ASSUME NEW t \in Thread, Begin(t) PROVE RecordsKept
  BY <1>2 DEF Begin, NoOlder
<1>3. ASSUME NEW t \in Thread, Invalidate(t) PROVE RecordsKept
  <2>1. record' = Cancel(active) /\ active \in 0..MaxCalls /\ record \in Seq(Record)
    BY <1>3 DEF Invalidate, TypeOK
  <2>2. DOMAIN record' = DOMAIN record
        /\ \A q \in DOMAIN record : /\ record'[q].stage = record[q].stage
                                  /\ record'[q].value = record[q].value
                                  /\ record'[q].result = record[q].result
    BY <2>1, CancelFacts
  <2> QED
    BY <2>2 DEF NoOlder
<1>4. ASSUME NEW t \in Thread, Clear(t) PROVE RecordsKept
  BY <1>4 DEF Clear, NoOlder
<1>5. ASSUME NEW t \in Thread, Notify(t) PROVE RecordsKept
  BY <1>5 DEF Notify, NoOlder
<1>6. ASSUME NEW t \in Thread, Generation(t) PROVE RecordsKept
  BY <1>6 DEF Generation, NoOlder
<1>7. ASSUME NEW t \in Thread, Lookup(t) PROVE RecordsKept
  BY <1>7 DEF Lookup, NoOlder
<1>8. ASSUME NEW t \in Thread, Offline(t) PROVE RecordsKept
  BY <1>8 DEF Offline, NoOlder
<1>9. ASSUME NEW t \in Thread, Join(t) PROVE RecordsKept
  BY <1>9 DEF Join, NoOlder
<1>10. ASSUME NEW t \in Thread, Submit(t) PROVE RecordsKept
  <2>1. Len(record) < MaxCalls /\ active \in 0..MaxCalls /\ record \in Seq(Record)
    BY <1>10, SubmitRoom DEF Early, Submit, At, TypeOK
  <2>2. /\ DOMAIN record' = DOMAIN record \cup {Len(record) + 1}
        /\ \A q \in DOMAIN record : record'[q] = Cancel(active)[q]
    BY <1>10, SubmitDoes
  <2>3. \A q \in DOMAIN record : /\ record'[q].stage = record[q].stage
                               /\ record'[q].value = record[q].value
                               /\ record'[q].result = record[q].result
    BY <2>1, <2>2, CancelFacts
  <2> QED
    BY <2>2, <2>3 DEF NoOlder
<1>11. ASSUME NEW t \in Thread, Wait(t) PROVE RecordsKept
  BY <1>11 DEF Wait, NoOlder
<1>12. ASSUME NEW t \in Thread, End(t) PROVE RecordsKept
  BY <1>12 DEF End, NoOlder
<1>13. ASSUME NEW r \in Records, Answer(r) PROVE RecordsKept
  BY <1>13, AnswerDoes DEF Answer, Works, NoOlder, Refused
<1>14. ASSUME NEW r \in Records, CheckToken(r) PROVE RecordsKept
  BY <1>14, CheckTokenDoes DEF CheckToken, Works, NoOlder, Refused
<1>15. ASSUME NEW r \in Records, Put(r) PROVE RecordsKept
  BY <1>15, PutDoes DEF Put, Works, NoOlder, Refused
<1>16. ASSUME NEW r \in Records, Return(r) PROVE RecordsKept
  BY <1>16, ReturnDoes DEF Return, Works, NoOlder, Refused
<1>17. ASSUME NEW r \in Records, Finish(r) PROVE RecordsKept
  BY <1>17, FinishDoes DEF Finish, Works, NoOlder, Refused
<1>18. CASE Age
  BY <1>18 DEF Age, NoOlder
<1>19. CASE Close
  <2>1. record' = Cancel(active) /\ active \in 0..MaxCalls /\ record \in Seq(Record)
    BY <1>19 DEF Close, TypeOK
  <2>2. DOMAIN record' = DOMAIN record
        /\ \A q \in DOMAIN record : /\ record'[q].stage = record[q].stage
                                  /\ record'[q].value = record[q].value
                                  /\ record'[q].result = record[q].result
    BY <2>1, CancelFacts
  <2> QED
    BY <2>2 DEF NoOlder
<1>20. CASE UNCHANGED vars
  BY <1>20 DEF vars, NoOlder
<1> QED
  BY <1>1, <1>2, <1>3, <1>4, <1>5, <1>6, <1>7, <1>8, <1>9, <1>10, <1>11, <1>12,
     <1>13, <1>14, <1>15, <1>16, <1>17, <1>18, <1>19, <1>20 DEF Next, Calling,
     Worker

(* A call that does not move still has in hand what it needs.              *)
LEMMA ShapesKept ==
    ASSUME Shapes, TypeOK, TypeOK', NEW t \in Thread, Moved(t),
           DOMAIN record \subseteq DOMAIN record', truth' = truth,
           floor' = floor \/ floor' = truth,
           Shape(thread[t])'
    PROVE  Shapes'
PROOF
<1>1. ASSUME NEW u \in Thread, u # t PROVE Shape(thread[u])'
  BY <1>1 DEF Shapes, Shape, Moved, Waiting
<1>2. floor' <= truth'
  BY DEF Shapes, TypeOK
<1> QED
  BY <1>1, <1>2 DEF Shapes

(* Every call keeps in hand what its next step needs.                      *)
LEMMA ShapeStep ==
    ASSUME CacheAssumption, TypeOK, Budget, Shapes, TypeOK', RecordsKept, [Next]_vars
    PROVE  Shapes'
PROOF
<1> USE DEF vars
<1>1. CASE Change
  <2>1. truth' = truth + 1 /\ UNCHANGED <<floor, record, thread>>
    BY <1>1 DEF Change
  <2> QED
    BY <2>1 DEF Shapes, Shape, Waiting, TypeOK, Caller
<1>2. ASSUME NEW t \in Thread, Begin(t) PROVE Shapes'
  <2>1. /\ Moved(t) /\ DOMAIN record \subseteq DOMAIN record' /\ truth' = truth
        /\ floor' = floor \/ floor' = truth
    BY <1>2, BeginMoves DEF Begin, Carries, RecordsKept
  <2>2. Shape(thread[t]) /\ truth \in 0..MaxChanges
    BY DEF Shapes, TypeOK
  <2>3. Shape(thread[t])'
    BY <1>2, <2>1, <2>2, BeginMoves DEF Carries, Shape, Waiting
  <2> QED
    BY <2>1, <2>3, ShapesKept
<1>3. ASSUME NEW t \in Thread, Invalidate(t) PROVE Shapes'
  <2>1. /\ Moved(t) /\ DOMAIN record \subseteq DOMAIN record' /\ truth' = truth
        /\ floor' = floor \/ floor' = truth
    BY <1>3, InvalidateMoves DEF Invalidate, Carries, RecordsKept
  <2>2. Shape(thread[t]) /\ truth \in 0..MaxChanges
    BY DEF Shapes, TypeOK
  <2>3. Shape(thread[t])'
    BY <1>3, <2>1, <2>2, InvalidateMoves DEF Carries, Shape, Waiting
  <2> QED
    BY <2>1, <2>3, ShapesKept
<1>4. ASSUME NEW t \in Thread, Clear(t) PROVE Shapes'
  <2>1. /\ Moved(t) /\ DOMAIN record \subseteq DOMAIN record' /\ truth' = truth
        /\ floor' = floor \/ floor' = truth
    BY <1>4, ClearMoves DEF Clear, Carries, RecordsKept
  <2>2. Shape(thread[t]) /\ truth \in 0..MaxChanges
    BY DEF Shapes, TypeOK
  <2>3. Shape(thread[t])'
    BY <1>4, <2>1, <2>2, ClearMoves DEF Carries, Shape, Waiting
  <2> QED
    BY <2>1, <2>3, ShapesKept
<1>5. ASSUME NEW t \in Thread, Notify(t) PROVE Shapes'
  <2>1. /\ Moved(t) /\ DOMAIN record \subseteq DOMAIN record' /\ truth' = truth
        /\ floor' = floor \/ floor' = truth
    BY <1>5, NotifyMoves DEF Notify, Carries, RecordsKept
  <2>2. Shape(thread[t]) /\ truth \in 0..MaxChanges
    BY DEF Shapes, TypeOK
  <2>3. Shape(thread[t])'
    BY <1>5, <2>1, <2>2, NotifyMoves DEF Carries, Shape, Waiting
  <2> QED
    BY <2>1, <2>3, ShapesKept
<1>6. ASSUME NEW t \in Thread, Generation(t) PROVE Shapes'
  <2>1. /\ Moved(t) /\ DOMAIN record \subseteq DOMAIN record' /\ truth' = truth
        /\ floor' = floor \/ floor' = truth
    BY <1>6, GenerationMoves DEF Generation, Carries, RecordsKept
  <2>2. Shape(thread[t]) /\ truth \in 0..MaxChanges
    BY DEF Shapes, TypeOK
  <2>3. Shape(thread[t])'
    BY <1>6, <2>1, <2>2, GenerationMoves DEF Carries, Shape, Waiting
  <2> QED
    BY <2>1, <2>3, ShapesKept
<1>7. ASSUME NEW t \in Thread, Lookup(t) PROVE Shapes'
  <2>1. /\ Moved(t) /\ DOMAIN record \subseteq DOMAIN record' /\ truth' = truth
        /\ floor' = floor \/ floor' = truth
    BY <1>7, LookupMoves DEF Lookup, Carries, RecordsKept
  <2>2. Shape(thread[t]) /\ truth \in 0..MaxChanges
    BY DEF Shapes, TypeOK
  <2>3. Shape(thread[t])'
    BY <1>7, <2>1, <2>2, LookupMoves DEF Carries, Shape, Waiting
  <2> QED
    BY <2>1, <2>3, ShapesKept
<1>8. ASSUME NEW t \in Thread, Offline(t) PROVE Shapes'
  <2>1. /\ Moved(t) /\ DOMAIN record \subseteq DOMAIN record' /\ truth' = truth
        /\ floor' = floor \/ floor' = truth
    BY <1>8, OfflineMoves DEF Offline, Carries, RecordsKept
  <2>2. Shape(thread[t]) /\ truth \in 0..MaxChanges
    BY DEF Shapes, TypeOK
  <2>3. Shape(thread[t])'
    BY <1>8, <2>1, <2>2, OfflineMoves DEF Carries, Shape, Waiting
  <2> QED
    BY <2>1, <2>3, ShapesKept
<1>9. ASSUME NEW t \in Thread, Join(t) PROVE Shapes'
  <2>1. /\ Moved(t) /\ DOMAIN record \subseteq DOMAIN record' /\ truth' = truth
        /\ floor' = floor \/ floor' = truth
    BY <1>9, JoinMoves DEF Join, Carries, RecordsKept
  <2>2. Shape(thread[t]) /\ truth \in 0..MaxChanges
    BY DEF Shapes, TypeOK
  <2>3. Shape(thread[t])'
    BY <1>9, <2>1, <2>2, JoinMoves DEF Carries, Shape, Waiting
  <2> QED
    BY <2>1, <2>3, ShapesKept
<1>10. ASSUME NEW t \in Thread, Submit(t) PROVE Shapes'
  <2>0. Len(record) < MaxCalls
    BY <1>10, SubmitRoom DEF Early, Submit, At
  <2>1. /\ Moved(t) /\ DOMAIN record \subseteq DOMAIN record' /\ truth' = truth
        /\ floor' = floor \/ floor' = truth
    BY <1>10, <2>0, SubmitMoves DEF Submit, Carries, RecordsKept
  <2>2. Shape(thread[t]) /\ truth \in 0..MaxChanges
    BY DEF Shapes, TypeOK
  <2>3. Shape(thread[t])'
    BY <1>10, <2>1, <2>2, <2>0, SubmitMoves, SubmitDoes DEF Carries, Shape, Waiting
  <2> QED
    BY <2>1, <2>3, ShapesKept
<1>11. ASSUME NEW t \in Thread, Wait(t) PROVE Shapes'
  <2>1. /\ Moved(t) /\ DOMAIN record \subseteq DOMAIN record' /\ truth' = truth
        /\ floor' = floor \/ floor' = truth
    BY <1>11, WaitMoves DEF Wait, Carries, RecordsKept
  <2>2. Shape(thread[t]) /\ truth \in 0..MaxChanges
    BY DEF Shapes, TypeOK
  <2>3. Shape(thread[t])'
    BY <1>11, <2>1, <2>2, WaitMoves DEF Carries, Shape, Waiting
  <2> QED
    BY <2>1, <2>3, ShapesKept
<1>12. ASSUME NEW t \in Thread, End(t) PROVE Shapes'
  <2>1. /\ Moved(t) /\ DOMAIN record \subseteq DOMAIN record' /\ truth' = truth
        /\ floor' = floor \/ floor' = truth
    BY <1>12, EndMoves DEF End, Carries, RecordsKept
  <2>2. Shape(thread[t]) /\ truth \in 0..MaxChanges
    BY DEF Shapes, TypeOK
  <2>3. Shape(thread[t])'
    BY <1>12, <2>1, <2>2, EndMoves DEF Carries, Shape, Waiting, IdleCaller
  <2> QED
    BY <2>1, <2>3, ShapesKept
<1>13. ASSUME NEW r \in Records, Answer(r) PROVE Shapes'
  BY <1>13, AnswerDoes DEF Answer, Works, Shapes, Shape, Waiting, RecordsKept
<1>14. ASSUME NEW r \in Records, CheckToken(r) PROVE Shapes'
  BY <1>14, CheckTokenDoes DEF CheckToken, Works, Shapes, Shape, Waiting,
     RecordsKept
<1>15. ASSUME NEW r \in Records, Put(r) PROVE Shapes'
  BY <1>15, PutDoes DEF Put, Works, Shapes, Shape, Waiting, RecordsKept
<1>16. ASSUME NEW r \in Records, Return(r) PROVE Shapes'
  BY <1>16, ReturnDoes DEF Return, Works, Shapes, Shape, Waiting, RecordsKept
<1>17. ASSUME NEW r \in Records, Finish(r) PROVE Shapes'
  BY <1>17, FinishDoes DEF Finish, Works, Shapes, Shape, Waiting, RecordsKept
<1>18. CASE Age
  BY <1>18 DEF Age, Shapes, Shape, Waiting
<1>19. CASE Close
  BY <1>19 DEF Close, Shapes, Shape, Waiting, RecordsKept
<1>20. CASE UNCHANGED vars
  BY <1>20 DEF vars, Shapes, Shape, Waiting
<1> QED
  BY <1>1, <1>2, <1>3, <1>4, <1>5, <1>6, <1>7, <1>8, <1>9, <1>10, <1>11, <1>12,
     <1>13, <1>14, <1>15, <1>16, <1>17, <1>18, <1>19, <1>20 DEF Next, Calling,
     Worker

(* Only the active record can store without knowing it is cancelled.       *)
LEMMA TokenStep ==
    ASSUME CacheAssumption, TypeOK, Budget, Shapes, Tokens, [Next]_vars
    PROVE  Tokens'
PROOF
<1> USE DEF Tokens
<1>1. CASE Change
  BY <1>1 DEF Change
<1>2. ASSUME NEW t \in Thread, Begin(t) PROVE Tokens'
  BY <1>2 DEF Begin
<1>3. ASSUME NEW t \in Thread, Invalidate(t) PROVE Tokens'
  <2>1. record' = Cancel(active) /\ active \in 0..MaxCalls /\ record \in Seq(Record)
    BY <1>3 DEF Invalidate, TypeOK
  <2>2. active' = 0
    BY <1>3 DEF Invalidate
  <2> QED
    BY <2>1, <2>2, CancelFacts
<1>4. ASSUME NEW t \in Thread, Clear(t) PROVE Tokens'
  BY <1>4 DEF Clear
<1>5. ASSUME NEW t \in Thread, Notify(t) PROVE Tokens'
  BY <1>5 DEF Notify
<1>6. ASSUME NEW t \in Thread, Generation(t) PROVE Tokens'
  BY <1>6 DEF Generation
<1>7. ASSUME NEW t \in Thread, Lookup(t) PROVE Tokens'
  BY <1>7 DEF Lookup
<1>8. ASSUME NEW t \in Thread, Offline(t) PROVE Tokens'
  BY <1>8 DEF Offline
<1>9. ASSUME NEW t \in Thread, Join(t) PROVE Tokens'
  BY <1>9 DEF Join
<1>10. ASSUME NEW t \in Thread, Submit(t) PROVE Tokens'
  <2>1. Len(record) < MaxCalls /\ active \in 0..MaxCalls /\ record \in Seq(Record)
    BY <1>10, SubmitRoom DEF Early, Submit, At, TypeOK
  <2> QED
    BY <1>10, <2>1, SubmitDoes, CancelFacts
<1>11. ASSUME NEW t \in Thread, Wait(t) PROVE Tokens'
  BY <1>11 DEF Wait
<1>12. ASSUME NEW t \in Thread, End(t) PROVE Tokens'
  BY <1>12 DEF End
<1>13. ASSUME NEW r \in Records, Answer(r) PROVE Tokens'
  BY <1>13, AnswerDoes DEF Answer, TypeOK, Works, Refused
<1>14. ASSUME NEW r \in Records, CheckToken(r) PROVE Tokens'
  BY <1>14, CheckTokenDoes DEF CheckToken, TypeOK, Works, Refused
<1>15. ASSUME NEW r \in Records, Put(r) PROVE Tokens'
  BY <1>15, PutDoes DEF Put, TypeOK, Works, Refused
<1>16. ASSUME NEW r \in Records, Return(r) PROVE Tokens'
  BY <1>16, ReturnDoes DEF Return, TypeOK, Works, Refused
<1>17. ASSUME NEW r \in Records, Finish(r) PROVE Tokens'
  BY <1>17, FinishDoes DEF Finish, TypeOK, Works, Refused
<1>18. CASE Age
  BY <1>18 DEF Age
<1>19. CASE Close
  <2>1. record' = Cancel(active) /\ active \in 0..MaxCalls /\ record \in Seq(Record)
    BY <1>19 DEF Close, TypeOK
  <2>2. active' = active
    BY <1>19 DEF Close
  <2> QED
    BY <2>1, <2>2, CancelFacts
<1>20. CASE UNCHANGED vars
  BY <1>20 DEF vars
<1> QED
  BY <1>1, <1>2, <1>3, <1>4, <1>5, <1>6, <1>7, <1>8, <1>9, <1>10, <1>11, <1>12,
     <1>13, <1>14, <1>15, <1>16, <1>17, <1>18, <1>19, <1>20 DEF Next, Calling,
     Worker

(* The active record never answers with what was invalidated.              *)
LEMMA ActiveStep ==
    ASSUME CacheAssumption, TypeOK, Budget, Shapes, ActiveIsNew, RecordsKept, [Next]_vars
    PROVE  ActiveIsNew'
PROOF
<1> USE DEF ActiveIsNew
<1>1. CASE Change
  BY <1>1 DEF Change, NoOlder
<1>2. ASSUME NEW t \in Thread, Begin(t) PROVE ActiveIsNew'
  BY <1>2 DEF Begin, NoOlder
<1>3. ASSUME NEW t \in Thread, Invalidate(t) PROVE ActiveIsNew'
  BY <1>3 DEF Invalidate, NoOlder
<1>4. ASSUME NEW t \in Thread, Clear(t) PROVE ActiveIsNew'
  BY <1>4 DEF Clear, NoOlder
<1>5. ASSUME NEW t \in Thread, Notify(t) PROVE ActiveIsNew'
  BY <1>5 DEF Notify, NoOlder
<1>6. ASSUME NEW t \in Thread, Generation(t) PROVE ActiveIsNew'
  BY <1>6 DEF Generation, NoOlder
<1>7. ASSUME NEW t \in Thread, Lookup(t) PROVE ActiveIsNew'
  BY <1>7 DEF Lookup, NoOlder
<1>8. ASSUME NEW t \in Thread, Offline(t) PROVE ActiveIsNew'
  BY <1>8 DEF Offline, NoOlder
<1>9. ASSUME NEW t \in Thread, Join(t) PROVE ActiveIsNew'
  BY <1>9 DEF Join, NoOlder
<1>10. ASSUME NEW t \in Thread, Submit(t) PROVE ActiveIsNew'
  <2>1. active' = Len(record) + 1 /\ record'[Len(record) + 1].stage = "queued"
    BY <1>10, SubmitDoes
  <2> QED
    BY <2>1 DEF NoOlder
<1>11. ASSUME NEW t \in Thread, Wait(t) PROVE ActiveIsNew'
  BY <1>11 DEF Wait, NoOlder
<1>12. ASSUME NEW t \in Thread, End(t) PROVE ActiveIsNew'
  BY <1>12 DEF End, NoOlder
<1>13. ASSUME NEW r \in Records, Answer(r) PROVE ActiveIsNew'
  <2>1. Works(r) /\ active' = active /\ floor' = floor /\ floor <= truth
    BY <1>13, AnswerDoes DEF Answer, Shapes
  <2>2. \/ record'[r].stage = "answered" /\ record'[r].value = truth
        \/ Refused(r)
    BY <1>13, AnswerDoes
  <2>3. active = r => NoOlder(active, floor)'
    BY <2>1, <2>2 DEF NoOlder, Refused
  <2>4. active # 0 /\ active # r => NoOlder(active, floor)'
    BY <2>1 DEF NoOlder, Works, TypeOK
  <2> QED
    BY <2>1, <2>3, <2>4
<1>14. ASSUME NEW r \in Records, CheckToken(r) PROVE ActiveIsNew'
  BY <1>14, CheckTokenDoes DEF CheckToken, NoOlder, Works, Refused, TypeOK
<1>15. ASSUME NEW r \in Records, Put(r) PROVE ActiveIsNew'
  BY <1>15, PutDoes DEF Put, NoOlder, Works, Refused, TypeOK
<1>16. ASSUME NEW r \in Records, Return(r) PROVE ActiveIsNew'
  BY <1>16, ReturnDoes DEF Return, NoOlder, Works, Refused, TypeOK
<1>17. ASSUME NEW r \in Records, Finish(r) PROVE ActiveIsNew'
  BY <1>17, FinishDoes DEF Finish, NoOlder, Works, Refused, TypeOK
<1>18. CASE Age
  BY <1>18 DEF Age, NoOlder
<1>19. CASE Close
  <2>1. active' = active /\ floor' = floor
    BY <1>19 DEF Close
  <2>2. active # 0 => active \in DOMAIN record
    BY DEF TypeOK
  <2>3. floor \in 0..MaxChanges /\ floor <= truth
    BY DEF TypeOK, Shapes
  <2> QED
    BY <2>1, <2>2, <2>3 DEF RecordsKept, NoOlder
<1>20. CASE UNCHANGED vars
  BY <1>20 DEF vars, NoOlder
<1> QED
  BY <1>1, <1>2, <1>3, <1>4, <1>5, <1>6, <1>7, <1>8, <1>9, <1>10, <1>11, <1>12,
     <1>13, <1>14, <1>15, <1>16, <1>17, <1>18, <1>19, <1>20 DEF Next, Calling,
     Worker

-----------------------------------------------------------------------------
(* What a step may do to the entry: what is in the cache is replaced by    *)
(* nothing that was invalidated, unless by a load cancelled on its way.    *)
CacheKept ==
    \A time \in 0..MaxChanges :
        /\ time <= floor
        /\ cache # NoEntry => cache.raced \/ cache.value >= time
        => (cache' # NoEntry => cache'.raced \/ cache'.value >= time)

LEMMA PutIsNew ==
    ASSUME TypeOK, Tokens, ActiveIsNew, NEW r \in Records, Put(r)
    PROVE  cache' \in Entry /\ (cache'.raced \/ cache'.value >= floor)
PROOF
<1>1. /\ Works(r) /\ record[r].stage = "checked"
      /\ cache' \in Entry /\ cache'.value = record[r].value
      /\ cache'.raced = record[r].late
  BY PutDoes
<1>2. r \in DOMAIN record /\ r # 0
  BY <1>1 DEF Works, Records
<1>3. CASE record[r].cancelled
  BY <1>1, <1>2, <1>3 DEF Tokens
<1>4. CASE ~record[r].cancelled
  <2>1. r = active
    BY <1>1, <1>2, <1>4 DEF Tokens
  <2> QED
    BY <1>1, <1>2, <2>1 DEF ActiveIsNew, NoOlder
<1> QED
  BY <1>3, <1>4

(* Every step keeps the cache so.                                          *)
LEMMA CacheStep ==
    ASSUME CacheAssumption, TypeOK, Budget, Shapes, Tokens, ActiveIsNew, [Next]_vars
    PROVE  CacheKept
PROOF
<1> USE DEF CacheKept
<1>1. CASE Change
  BY <1>1 DEF Change
<1>2. ASSUME NEW t \in Thread, Begin(t) PROVE CacheKept
  BY <1>2 DEF Begin
<1>3. ASSUME NEW t \in Thread, Invalidate(t) PROVE CacheKept
  BY <1>3 DEF Invalidate
<1>4. ASSUME NEW t \in Thread, Clear(t) PROVE CacheKept
  BY <1>4 DEF Clear
<1>5. ASSUME NEW t \in Thread, Notify(t) PROVE CacheKept
  BY <1>5 DEF Notify
<1>6. ASSUME NEW t \in Thread, Generation(t) PROVE CacheKept
  BY <1>6 DEF Generation
<1>7. ASSUME NEW t \in Thread, Lookup(t) PROVE CacheKept
  BY <1>7 DEF Lookup
<1>8. ASSUME NEW t \in Thread, Offline(t) PROVE CacheKept
  BY <1>8 DEF Offline
<1>9. ASSUME NEW t \in Thread, Join(t) PROVE CacheKept
  BY <1>9 DEF Join
<1>10. ASSUME NEW t \in Thread, Submit(t) PROVE CacheKept
  BY <1>10 DEF Submit
<1>11. ASSUME NEW t \in Thread, Wait(t) PROVE CacheKept
  BY <1>11 DEF Wait
<1>12. ASSUME NEW t \in Thread, End(t) PROVE CacheKept
  BY <1>12 DEF End
<1>13. ASSUME NEW r \in Records, Answer(r) PROVE CacheKept
  BY <1>13 DEF Answer
<1>14. ASSUME NEW r \in Records, CheckToken(r) PROVE CacheKept
  BY <1>14 DEF CheckToken
<1>15. ASSUME NEW r \in Records, Put(r) PROVE CacheKept
  <2>1. cache' \in Entry /\ (cache'.raced \/ cache'.value >= floor)
    BY <1>15, PutIsNew
  <2>2. cache'.value \in Nat /\ floor \in Nat
    BY <2>1 DEF Entry, TypeOK
  <2> QED
    BY <2>1, <2>2
<1>16. ASSUME NEW r \in Records, Return(r) PROVE CacheKept
  BY <1>16 DEF Return
<1>17. ASSUME NEW r \in Records, Finish(r) PROVE CacheKept
  BY <1>17 DEF Finish
<1>18. CASE Age
  BY <1>18 DEF Age, TypeOK, Entry
<1>19. CASE Close
  BY <1>19 DEF Close
<1>20. CASE UNCHANGED vars
  BY <1>20 DEF vars
<1> QED
  BY <1>1, <1>2, <1>3, <1>4, <1>5, <1>6, <1>7, <1>8, <1>9, <1>10, <1>11, <1>12,
     <1>13, <1>14, <1>15, <1>16, <1>17, <1>18, <1>19, <1>20 DEF Next, Calling,
     Worker

-----------------------------------------------------------------------------
(* A call that does not move keeps its promise.                            *)
LEMMA ForcedKept ==
    ASSUME TypeOK, Shapes, ForcedCalls, RecordsKept, CacheKept,
           NEW u \in Thread, thread'[u] = thread[u], floor <= floor', floor' \in Nat
    PROVE  Forced(thread[u])'
PROOF
<1> DEFINE c == thread[u]
<1>1. /\ c \in Caller /\ Shape(c) /\ Forced(c)
      /\ floor \in 0..MaxChanges /\ truth \in 0..MaxChanges /\ floor <= truth
  BY DEF TypeOK, Shapes, ForcedCalls
<1>2. c.since \in 0..MaxChanges
  BY <1>1 DEF Caller
<1>3. Invalidated(c) => c.since <= floor /\ c.since <= floor' /\ c.since <= truth
  BY <1>1, <1>2 DEF Forced
<1>4. Cleared(c) /\ cache' # NoEntry => cache'.raced \/ cache'.value >= c.since
  BY <1>1, <1>2, <1>3 DEF Forced, CacheKept, Cleared
<1>5. Invalidated(c) /\ Waiting(c) => NoOlder(c.waits, c.since)'
  <2>1. Invalidated(c) /\ Waiting(c) =>
            c.waits \in DOMAIN record /\ NoOlder(c.waits, c.since)
    BY <1>1 DEF Shape, Forced
  <2>2. Invalidated(c) /\ Waiting(c) =>
            record[c.waits] = record[c.waits] /\ (NoOlder(c.waits, c.since)')
    BY <1>2, <1>3, <2>1 DEF RecordsKept, NoOlder
  <2> QED
    BY <2>2
<1>6. /\ Invalidated(thread[u])' <=> Invalidated(c) /\ TRUE
      /\ Cleared(thread[u])' <=> Cleared(c) /\ TRUE
      /\ Waiting(thread[u])' <=> Waiting(c) /\ TRUE
      /\ Leaving(thread[u])' <=> Leaving(c) /\ TRUE
  BY DEF Invalidated, Cleared, Waiting, Leaving
<1> QED
  BY <1>1, <1>3, <1>4, <1>5, <1>6 DEF Forced, NoOlder

LEMMA ForcedMoves ==
    ASSUME TypeOK, TypeOK', Shapes, ForcedCalls, RecordsKept, CacheKept,
           NEW t \in Thread, Moved(t), floor <= floor', Forced(thread[t])'
    PROVE  ForcedCalls'
PROOF
<1>1. ASSUME NEW u \in Thread, u # t PROVE Forced(thread[u])'
  BY <1>1, ForcedKept DEF Moved, TypeOK
<1> QED
  BY <1>1 DEF ForcedCalls

LEMMA ForcedStays ==
    ASSUME TypeOK, TypeOK', Shapes, ForcedCalls, RecordsKept, CacheKept,
           thread' = thread, floor' = floor
    PROVE  ForcedCalls'
PROOF
<1>1. ASSUME NEW u \in Thread PROVE Forced(thread[u])'
  BY ForcedKept DEF TypeOK
<1> QED
  BY <1>1 DEF ForcedCalls

(* No forced call takes what was there before it was made.                 *)
LEMMA ForcedStep ==
    ASSUME CacheAssumption, TypeOK, TypeOK', Budget, Shapes, ActiveIsNew,
           ForcedCalls, RecordsKept, CacheKept, [Next]_vars
    PROVE  ForcedCalls'
PROOF
<1> USE DEF vars
<1>1. CASE Change
  BY <1>1, ForcedStays DEF Change
<1>2. ASSUME NEW t \in Thread, Begin(t) PROVE ForcedCalls'
  <2>9. floor \in 0..MaxChanges /\ floor <= truth
    BY DEF Shapes, TypeOK
  <2>8. Moved(t) /\ floor' = floor
    BY <1>2, BeginMoves DEF Begin, Carries
  <2>1. Moved(t) /\ floor <= floor'
    BY <2>8, <2>9
  <2>2. Forced(thread[t]) /\ Shape(thread[t])
    BY DEF ForcedCalls, Shapes
  <2>3. ~Invalidated(thread[t])'
    BY <1>2, BeginMoves DEF Invalidated
  <2>4. Forced(thread[t])'
    BY <2>3 DEF Forced, Cleared
  <2> QED
    BY <2>1, <2>4, ForcedMoves
<1>3. ASSUME NEW t \in Thread, Invalidate(t) PROVE ForcedCalls'
  <2>9. floor \in 0..MaxChanges /\ floor <= truth
    BY DEF Shapes, TypeOK
  <2>1. Moved(t) /\ floor <= floor'
    BY <1>3, <2>9, InvalidateMoves DEF Invalidate, Carries
  <2>2. Forced(thread[t]) /\ Shape(thread[t])
    BY DEF ForcedCalls, Shapes
  <2>3. /\ Carries(t) /\ thread'[t].at = "clear" /\ floor' = truth
    BY <1>3, InvalidateMoves DEF Invalidate
  <2>4. Forced(thread[t])'
    BY <2>2, <2>3 DEF Forced, Cleared, Waiting, Leaving, Carries, Shape
  <2> QED
    BY <2>1, <2>4, ForcedMoves
<1>4. ASSUME NEW t \in Thread, Clear(t) PROVE ForcedCalls'
  <2>9. floor \in 0..MaxChanges /\ floor <= truth
    BY DEF Shapes, TypeOK
  <2>8. Moved(t) /\ floor' = floor
    BY <1>4, ClearMoves DEF Clear, Carries
  <2>1. Moved(t) /\ floor <= floor'
    BY <2>8, <2>9
  <2>2. Forced(thread[t]) /\ Shape(thread[t])
    BY DEF ForcedCalls, Shapes
  <2>3. /\ Carries(t) /\ thread[t].at = "clear" /\ thread'[t].at = "notify"
        /\ thread[t].does = "forced" => thread'[t].then = "generation"
        /\ cache' = NoEntry /\ floor' = floor
    BY <1>4, ClearMoves DEF Clear
  <2>4. Forced(thread[t])'
    BY <2>2, <2>3 DEF Forced, Invalidated, Cleared, Waiting, Leaving, Carries
  <2> QED
    BY <2>1, <2>4, ForcedMoves
<1>5. ASSUME NEW t \in Thread, Notify(t) PROVE ForcedCalls'
  <2>9. floor \in 0..MaxChanges /\ floor <= truth
    BY DEF Shapes, TypeOK
  <2>8. Moved(t) /\ floor' = floor
    BY <1>5, NotifyMoves DEF Notify, Carries
  <2>1. Moved(t) /\ floor <= floor'
    BY <2>8, <2>9
  <2>2. Forced(thread[t]) /\ Shape(thread[t])
    BY DEF ForcedCalls, Shapes
  <2>3. /\ Carries(t) /\ thread[t].at = "notify"
        /\ thread'[t].at = "notify" \/ thread'[t].at = thread[t].then
        /\ thread'[t].then = thread[t].then /\ thread'[t].waits = thread[t].waits
        /\ thread'[t].got = thread[t].got /\ thread'[t].raced = thread[t].raced
        /\ UNCHANGED <<cache, record, floor>>
    BY <1>5, NotifyMoves DEF Notify
  <2>5. thread[t].then \in {"generation", "submit", "wait", "end"}
    BY <2>2, <2>3 DEF Shape
  <2>4. Forced(thread[t])'
    BY <2>2, <2>3, <2>5 DEF Forced, Invalidated, Cleared, Waiting, Leaving, Carries,
       NoOlder
  <2> QED
    BY <2>1, <2>4, ForcedMoves
<1>6. ASSUME NEW t \in Thread, Generation(t) PROVE ForcedCalls'
  <2>9. floor \in 0..MaxChanges /\ floor <= truth
    BY DEF Shapes, TypeOK
  <2>8. Moved(t) /\ floor' = floor
    BY <1>6, GenerationMoves DEF Generation, Carries
  <2>1. Moved(t) /\ floor <= floor'
    BY <2>8, <2>9
  <2>2. Forced(thread[t]) /\ Shape(thread[t])
    BY DEF ForcedCalls, Shapes
  <2>3. /\ Carries(t) /\ thread[t].at = "generation" /\ thread'[t].at = "lookup"
        /\ UNCHANGED <<cache, floor>>
    BY <1>6, GenerationMoves DEF Generation
  <2>4. Forced(thread[t])'
    BY <2>2, <2>3 DEF Forced, Invalidated, Cleared, Waiting, Leaving, Carries
  <2> QED
    BY <2>1, <2>4, ForcedMoves
<1>7. ASSUME NEW t \in Thread, Lookup(t) PROVE ForcedCalls'
  <2>9. floor \in 0..MaxChanges /\ floor <= truth
    BY DEF Shapes, TypeOK
  <2>8. Moved(t) /\ floor' = floor
    BY <1>7, LookupMoves DEF Lookup, Carries
  <2>1. Moved(t) /\ floor <= floor'
    BY <2>8, <2>9
  <2>2. Forced(thread[t]) /\ Shape(thread[t])
    BY DEF ForcedCalls, Shapes
  <2>3. /\ Carries(t) /\ thread[t].at = "lookup"
        /\ \/ thread'[t].at = "submit"
           \/ thread'[t].at = "notify" /\ thread'[t].then = "submit"
           \/ /\ thread'[t].at = "notify" /\ thread'[t].then = "end"
              /\ cache # NoEntry /\ thread'[t].got.value = cache.value
              /\ thread'[t].raced = cache.raced
        /\ UNCHANGED <<cache, floor>>
    BY <1>7, LookupMoves DEF Lookup
  <2>4. Forced(thread[t])'
    BY <2>2, <2>3 DEF Forced, Invalidated, Cleared, Waiting, Leaving, Carries
  <2> QED
    BY <2>1, <2>4, ForcedMoves
<1>8. ASSUME NEW t \in Thread, Offline(t) PROVE ForcedCalls'
  <2>9. floor \in 0..MaxChanges /\ floor <= truth
    BY DEF Shapes, TypeOK
  <2>8. Moved(t) /\ floor' = floor
    BY <1>8, OfflineMoves DEF Offline, Carries
  <2>1. Moved(t) /\ floor <= floor'
    BY <2>8, <2>9
  <2>2. Forced(thread[t]) /\ Shape(thread[t])
    BY DEF ForcedCalls, Shapes
  <2>3. /\ Carries(t) /\ thread[t].at = "submit"
        /\ thread'[t].at = "notify" /\ thread'[t].then = "end"
        /\ thread'[t].got.status = "offline" /\ UNCHANGED <<cache, floor>>
    BY <1>8, OfflineMoves DEF Offline
  <2>4. Forced(thread[t])'
    BY <2>2, <2>3 DEF Forced, Invalidated, Cleared, Waiting, Leaving, Carries
  <2> QED
    BY <2>1, <2>4, ForcedMoves
<1>9. ASSUME NEW t \in Thread, Join(t) PROVE ForcedCalls'
  <2>9. floor \in 0..MaxChanges /\ floor <= truth
    BY DEF Shapes, TypeOK
  <2>8. Moved(t) /\ floor' = floor
    BY <1>9, JoinMoves DEF Join, Carries
  <2>1. Moved(t) /\ floor <= floor'
    BY <2>8, <2>9
  <2>2. Forced(thread[t]) /\ Shape(thread[t])
    BY DEF ForcedCalls, Shapes
  <2>3. /\ Carries(t) /\ thread[t].at = "submit" /\ active # 0
        /\ thread'[t].at = "wait" /\ thread'[t].waits = active
        /\ UNCHANGED <<cache, record, floor>>
    BY <1>9, JoinMoves DEF Join
  <2>a. active \in DOMAIN record /\ record \in Seq(Record)
    BY <2>3 DEF TypeOK
  <2>b. thread[t] \in Caller
    BY DEF TypeOK
  <2>5. /\ active \in DOMAIN record /\ record[active] \in Record
        /\ floor \in Nat /\ thread[t].since \in Nat
    BY <2>a, <2>b, <2>9 DEF Caller
  <2>6. record[active].value \in Nat /\ record[active].result.value \in Nat
    BY <2>5, ResultFacts DEF Record
  <2>7. Invalidated(thread[t]) => NoOlder(active, thread[t].since)
    BY <2>2, <2>3, <2>5, <2>6 DEF Forced, ActiveIsNew, NoOlder
  <2>4. Forced(thread[t])'
    BY <2>2, <2>3, <2>7 DEF Forced, Invalidated, Cleared, Waiting, Leaving, Carries,
       NoOlder
  <2> QED
    BY <2>1, <2>4, ForcedMoves
<1>10. ASSUME NEW t \in Thread, Submit(t) PROVE ForcedCalls'
  <2>0. Len(record) < MaxCalls
    BY <1>10, SubmitRoom DEF Early, Submit, At
  <2>9. floor \in 0..MaxChanges /\ floor <= truth
    BY DEF Shapes, TypeOK
  <2>8. Moved(t) /\ floor' = floor
    BY <1>10, <2>0, SubmitMoves DEF Submit, Carries
  <2>1. Moved(t) /\ floor <= floor'
    BY <2>8, <2>9
  <2>2. Forced(thread[t]) /\ Shape(thread[t])
    BY DEF ForcedCalls, Shapes
  <2>3. /\ Carries(t) /\ thread[t].at = "submit"
        /\ thread'[t].at = "notify" /\ thread'[t].then = "wait"
        /\ thread'[t].waits = Len(record) + 1
        /\ record'[Len(record) + 1].stage = "queued"
        /\ UNCHANGED <<cache, floor>>
    BY <1>10, <2>0, SubmitMoves, SubmitDoes DEF Submit
  <2>4. Forced(thread[t])'
    BY <2>2, <2>3 DEF Forced, Invalidated, Cleared, Waiting, Leaving, Carries,
       NoOlder
  <2> QED
    BY <2>1, <2>4, ForcedMoves
<1>11. ASSUME NEW t \in Thread, Wait(t) PROVE ForcedCalls'
  <2>9. floor \in 0..MaxChanges /\ floor <= truth
    BY DEF Shapes, TypeOK
  <2>8. Moved(t) /\ floor' = floor
    BY <1>11, WaitMoves DEF Wait, Carries
  <2>1. Moved(t) /\ floor <= floor'
    BY <2>8, <2>9
  <2>2. Forced(thread[t]) /\ Shape(thread[t])
    BY DEF ForcedCalls, Shapes
  <2>3. /\ Carries(t) /\ thread[t].at = "wait" /\ thread'[t].at = "end"
        /\ record[thread[t].waits].stage = "done"
        /\ thread'[t].got = record[thread[t].waits].result
        /\ UNCHANGED <<cache, record, floor>>
    BY <1>11, WaitMoves DEF Wait
  <2>4. Forced(thread[t])'
    BY <2>2, <2>3 DEF Forced, Invalidated, Cleared, Waiting, Leaving, Carries,
       NoOlder
  <2> QED
    BY <2>1, <2>4, ForcedMoves
<1>12. ASSUME NEW t \in Thread, End(t) PROVE ForcedCalls'
  <2>9. floor \in 0..MaxChanges /\ floor <= truth
    BY DEF Shapes, TypeOK
  <2>8. Moved(t) /\ floor' = floor
    BY <1>12, EndMoves DEF End, Carries
  <2>1. Moved(t) /\ floor <= floor'
    BY <2>8, <2>9
  <2>2. Forced(thread[t]) /\ Shape(thread[t])
    BY DEF ForcedCalls, Shapes
  <2>3. ~Invalidated(thread[t])'
    BY <1>12, EndMoves DEF Invalidated
  <2>4. Forced(thread[t])'
    BY <2>3 DEF Forced, Cleared
  <2> QED
    BY <2>1, <2>4, ForcedMoves
<1>13. ASSUME NEW r \in Records, Answer(r) PROVE ForcedCalls'
  BY <1>13, ForcedStays DEF Answer
<1>14. ASSUME NEW r \in Records, CheckToken(r) PROVE ForcedCalls'
  BY <1>14, ForcedStays DEF CheckToken
<1>15. ASSUME NEW r \in Records, Put(r) PROVE ForcedCalls'
  BY <1>15, ForcedStays DEF Put
<1>16. ASSUME NEW r \in Records, Return(r) PROVE ForcedCalls'
  BY <1>16, ForcedStays DEF Return
<1>17. ASSUME NEW r \in Records, Finish(r) PROVE ForcedCalls'
  BY <1>17, ForcedStays DEF Finish
<1>18. CASE Age
  BY <1>18, ForcedStays DEF Age
<1>19. CASE Close
  BY <1>19, ForcedStays DEF Close
<1>20. CASE UNCHANGED vars
  BY <1>20, ForcedStays DEF vars
<1> QED
  BY <1>1, <1>2, <1>3, <1>4, <1>5, <1>6, <1>7, <1>8, <1>9, <1>10, <1>11, <1>12,
     <1>13, <1>14, <1>15, <1>16, <1>17, <1>18, <1>19, <1>20 DEF Next, Calling,
     Worker

(* Only a removal under way leaves an invalidated value in the cache.      *)
LEMMA GoneStep ==
    ASSUME CacheAssumption, TypeOK, Budget, Shapes, Tokens, ActiveIsNew,
           InvalidatedStaysGone, [Next]_vars
    PROVE  InvalidatedStaysGone'
PROOF
<1> USE DEF InvalidatedStaysGone, At
<1>1. CASE Change
  BY <1>1 DEF Change
<1>2. ASSUME NEW t \in Thread, Begin(t) PROVE InvalidatedStaysGone'
  <2>1. Moved(t) /\ thread[t].at # "clear" /\ UNCHANGED <<cache, floor>>
    BY <1>2, BeginMoves DEF Begin, Carries
  <2> QED
    BY <2>1 DEF Moved
<1>3. ASSUME NEW t \in Thread, Invalidate(t) PROVE InvalidatedStaysGone'
  <2>1. thread'[t].at = "clear"
    BY <1>3, InvalidateMoves
  <2> QED
    BY <2>1
<1>4. ASSUME NEW t \in Thread, Clear(t) PROVE InvalidatedStaysGone'
  <2>1. cache' = NoEntry
    BY <1>4 DEF Clear
  <2> QED
    BY <2>1
<1>5. ASSUME NEW t \in Thread, Notify(t) PROVE InvalidatedStaysGone'
  <2>1. Moved(t) /\ thread[t].at # "clear" /\ UNCHANGED <<cache, floor>>
    BY <1>5, NotifyMoves DEF Notify, Carries
  <2> QED
    BY <2>1 DEF Moved
<1>6. ASSUME NEW t \in Thread, Generation(t) PROVE InvalidatedStaysGone'
  <2>1. Moved(t) /\ thread[t].at # "clear" /\ UNCHANGED <<cache, floor>>
    BY <1>6, GenerationMoves DEF Generation, Carries
  <2> QED
    BY <2>1 DEF Moved
<1>7. ASSUME NEW t \in Thread, Lookup(t) PROVE InvalidatedStaysGone'
  <2>1. Moved(t) /\ thread[t].at # "clear" /\ UNCHANGED <<cache, floor>>
    BY <1>7, LookupMoves DEF Lookup, Carries
  <2> QED
    BY <2>1 DEF Moved
<1>8. ASSUME NEW t \in Thread, Offline(t) PROVE InvalidatedStaysGone'
  <2>1. Moved(t) /\ thread[t].at # "clear" /\ UNCHANGED <<cache, floor>>
    BY <1>8, OfflineMoves DEF Offline, Carries
  <2> QED
    BY <2>1 DEF Moved
<1>9. ASSUME NEW t \in Thread, Join(t) PROVE InvalidatedStaysGone'
  <2>1. Moved(t) /\ thread[t].at # "clear" /\ UNCHANGED <<cache, floor>>
    BY <1>9, JoinMoves DEF Join, Carries
  <2> QED
    BY <2>1 DEF Moved
<1>10. ASSUME NEW t \in Thread, Submit(t) PROVE InvalidatedStaysGone'
  <2>0. Len(record) < MaxCalls
    BY <1>10, SubmitRoom DEF Early, Submit, At
  <2>1. Moved(t) /\ thread[t].at # "clear" /\ UNCHANGED <<cache, floor>>
    BY <1>10, <2>0, SubmitMoves DEF Submit, Carries
  <2> QED
    BY <2>1 DEF Moved
<1>11. ASSUME NEW t \in Thread, Wait(t) PROVE InvalidatedStaysGone'
  <2>1. Moved(t) /\ thread[t].at # "clear" /\ UNCHANGED <<cache, floor>>
    BY <1>11, WaitMoves DEF Wait, Carries
  <2> QED
    BY <2>1 DEF Moved
<1>12. ASSUME NEW t \in Thread, End(t) PROVE InvalidatedStaysGone'
  <2>1. Moved(t) /\ thread[t].at # "clear" /\ UNCHANGED <<cache, floor>>
    BY <1>12, EndMoves DEF End, Carries
  <2> QED
    BY <2>1 DEF Moved
<1>13. ASSUME NEW r \in Records, Answer(r) PROVE InvalidatedStaysGone'
  BY <1>13 DEF Answer
<1>14. ASSUME NEW r \in Records, CheckToken(r) PROVE InvalidatedStaysGone'
  BY <1>14 DEF CheckToken
<1>15. ASSUME NEW r \in Records, Put(r) PROVE InvalidatedStaysGone'
  <2>1. cache' \in Entry /\ (cache'.raced \/ cache'.value >= floor) /\ floor' = floor
    BY <1>15, PutIsNew DEF Put
  <2>2. cache'.value \in Nat /\ floor \in Nat
    BY <2>1 DEF Entry, TypeOK
  <2> QED
    BY <2>1, <2>2
<1>16. ASSUME NEW r \in Records, Return(r) PROVE InvalidatedStaysGone'
  BY <1>16 DEF Return
<1>17. ASSUME NEW r \in Records, Finish(r) PROVE InvalidatedStaysGone'
  BY <1>17 DEF Finish
<1>18. CASE Age
  BY <1>18 DEF Age, TypeOK, Entry
<1>19. CASE Close
  BY <1>19 DEF Close
<1>20. CASE UNCHANGED vars
  BY <1>20 DEF vars
<1> QED
  BY <1>1, <1>2, <1>3, <1>4, <1>5, <1>6, <1>7, <1>8, <1>9, <1>10, <1>11, <1>12,
     <1>13, <1>14, <1>15, <1>16, <1>17, <1>18, <1>19, <1>20 DEF Next, Calling,
     Worker

-----------------------------------------------------------------------------
(* The inductive invariant holds throughout.                               *)
THEOREM Inductive == Spec => []IInv
PROOF
<1>1. Init => IInv
  <2> SUFFICES ASSUME Init PROVE IInv
    OBVIOUS
  <2> USE CacheAssumption DEF Init
  <2>1. thread \in [Thread -> Caller] /\ \A t \in Thread : thread[t] = IdleCaller
    BY IdleFacts
  <2>2. cache \in Entry \cup {NoEntry}
    <3>1. 0 \in 0..MaxChanges
      BY DEF CacheAssumption
    <3>2. [value : {0}, fresh : BOOLEAN, raced : {FALSE}] \subseteq Entry
      BY <3>1 DEF Entry
    <3> QED
      BY <3>2
  <2>3. TypeOK
    BY <2>1, <2>2, NothingFacts DEF TypeOK
  <2>4. \A t \in Thread : /\ thread[t].at = "idle" /\ thread[t].since = 0
                         /\ thread[t].does = "plain"
    BY <2>1 DEF IdleCaller
  <2>5. Submitters = {}
    BY <2>4 DEF Submitters, Early
  <2>6. Budget
    BY <2>5, FS_EmptySet DEF Budget
  <2>7. Shapes /\ ForcedCalls
    BY <2>4 DEF Shapes, Shape, Waiting, ForcedCalls, Forced, Cleared, Invalidated
  <2>8. Tokens /\ ActiveIsNew
    BY DEF Tokens, ActiveIsNew
  <2>9. InvalidatedStaysGone
    <3>1. cache # NoEntry => cache.value = 0
      OBVIOUS
    <3> QED
      BY <3>1 DEF InvalidatedStaysGone
  <2> QED
    BY <2>3, <2>6, <2>7, <2>8, <2>9 DEF IInv
<1>2. IInv /\ [Next]_vars => IInv'
  <2> SUFFICES ASSUME IInv, [Next]_vars PROVE IInv'
    OBVIOUS
  <2> USE CacheAssumption
  <2>1. /\ TypeOK /\ Budget /\ Shapes /\ Tokens /\ ActiveIsNew /\ ForcedCalls
        /\ InvalidatedStaysGone
    BY DEF IInv
  <2>2. TypeOK' /\ Budget' /\ RecordsKept /\ CacheKept
    BY <2>1, TypeStep, BudgetStep, RecordsStep, CacheStep
  <2>3. Shapes' /\ Tokens' /\ ActiveIsNew'
    BY <2>1, <2>2, ShapeStep, TokenStep, ActiveStep
  <2>4. ForcedCalls' /\ InvalidatedStaysGone'
    BY <2>1, <2>2, ForcedStep, GoneStep
  <2> QED
    BY <2>2, <2>3, <2>4 DEF IInv
<1> QED
  BY <1>1, <1>2, PTL DEF Spec

(* Every variable keeps its type; in particular the records never outnumber *)
(* the calls, and the active record is one that has not finished.           *)
THEOREM TypeInvariant == Spec => []TypeOK
BY Inductive, PTL DEF IInv

(* What invalidate() removed no load brings back: the entry was read after  *)
(* the last invalidation, unless its removal is still to come or a loader   *)
(* was cancelled between its token check and its store (load_and_cache).    *)
THEOREM StaysGone == Spec => []InvalidatedStaysGone
BY Inductive, PTL DEF IInv

(* A forced refresh returns nothing read before it was asked for, whatever  *)
(* the other threads load, store, join and invalidate meanwhile             *)
(* (cached_request with force_network).                                     *)
THEOREM ForcedIsNew == Spec => []ForcedGetsNew
PROOF
<1>1. IInv => ForcedGetsNew
  <2> SUFFICES ASSUME IInv, NEW t \in Thread, thread[t].at = "end",
                      thread[t].does = "forced", thread[t].got.status = "ready"
               PROVE  thread[t].got.value >= thread[t].since \/ thread[t].raced
    BY DEF ForcedGetsNew, At
  <2> QED
    BY DEF IInv, ForcedCalls, Forced, Invalidated, Leaving
<1> QED
  BY <1>1, Inductive, PTL

================================================================================
