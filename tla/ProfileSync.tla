------------------------------ MODULE ProfileSync ------------------------------
(***************************************************************************)
(* Synchronisation of the private account profile between devices, from    *)
(* core/cloud_metadata_sync.py (CloudMetadataSync.sync_profile),           *)
(* core/cloud_sync_queue.py and the repositories it reads and writes.      *)
(*                                                                         *)
(* Every device keeps the profile in SQLite.  A launcher process reads it, *)
(* fetches the account's cloud document, merges the two, writes the result *)
(* back on condition that the document has not changed, applies it locally *)
(* and acknowledges the pending entry; a failure leaves a pending entry.   *)
(* The user keeps playing, and toggling favourites, at any of these steps, *)
(* and the process may end at any of them.                                 *)
(*                                                                         *)
(* The data the merge tells apart: what only grows (play sessions,         *)
(* unlocked achievements) is a set of facts; the favourite flag of a game  *)
(* is a register whose newer change marker wins.  The remaining fields     *)
(* merge like one or the other.  Time is counted in the seconds of         *)
(* observed_at, which is part of the digest.  The convex backend is        *)
(* modelled; the local folder mode and the one-time import of old          *)
(* documents are left out.                                                 *)
(***************************************************************************)
EXTENDS Integers, FiniteSets

CONSTANTS
    Device,     \* installations of the account
    Process,    \* launcher processes
    HomeOf,     \* the device a process runs on
    Fact,       \* play sessions and unlocked achievements
    Origin,     \* the device a fact is first observed on
    MaxTime     \* bound: seconds that pass

ASSUME ProfileAssumption ==
    /\ HomeOf \in [Process -> Device]
    /\ Origin \in [Fact -> Device]
    /\ MaxTime \in Nat

VARIABLES
    now,        \* the clock
    facts,      \* the append-only part of each device's database
    favorite,   \* profile_games.favorite ...
    mark,       \* ... and its favorite_changed_at, 0 if never toggled
    shown,      \* games.is_favorite, which the user sees and toggles
    queue,      \* pending_cloud_sync.json: at most one digest per device
    cloud,      \* the account's cloud document
    step,       \* where each process is in sync_profile
    local,      \* the profile it read, which its digest identifies
    merged,     \* its merge with the document it fetched
    fresh,      \* whether that document is still the current revision
    attempt,    \* the iteration of the retry loop
    synced      \* _PROFILE_SYNC_STATE: the digest synchronised last, if any

database == <<facts, favorite, mark, shown>>
call == <<local, merged, fresh, attempt>>
vars == <<now, database, queue, cloud, step, call, synced>>

Document == [facts : SUBSET Fact, favorite : BOOLEAN, mark : 0..MaxTime]
Digest == [facts : SUBSET Fact, favorite : BOOLEAN, mark : 0..MaxTime,
           time : 0..MaxTime]
Empty == [facts |-> {}, favorite |-> FALSE, mark |-> 0]
Unread == [facts |-> {}, favorite |-> FALSE, mark |-> 0, time |-> 0]

(* "idle" and "failed" are outside sync_profile: the last call returned    *)
(* True (or there was none), or False.                                     *)
Step == {"idle", "failed", "reading", "ready", "fetch", "put", "ledger",
         "project", "finish"}

-----------------------------------------------------------------------------
(* Merging.                                                                *)

(* The favourite of two records: without a marker an old favourite is a    *)
(* positive fact; otherwise the later marker wins, the incoming record at  *)
(* equal ones.                                                             *)
NewerFavorite(current, incoming) ==
    IF current.mark = 0 /\ incoming.mark = 0
    THEN current.favorite \/ incoming.favorite
    ELSE IF incoming.mark >= current.mark
         THEN incoming.favorite ELSE current.favorite

NewerMark(current, incoming) ==
    IF incoming.mark >= current.mark THEN incoming.mark ELSE current.mark

(* Mutant: what only the cloud document knows is dropped.                  *)
MutantMerge(left, right) ==
    [facts |-> left.facts,
     favorite |-> NewerFavorite(left, right),
     mark |-> NewerMark(left, right)]

(* _merge_profiles                                                         *)
Merge(left, right) ==
    [facts |-> left.facts \cup right.facts,
     favorite |-> NewerFavorite(left, right),
     mark |-> NewerMark(left, right)]

Ledger(d) == [facts |-> facts[d], favorite |-> favorite[d], mark |-> mark[d]]

-----------------------------------------------------------------------------
(* A favourite set before change markers existed has no marker.            *)
Init ==
    /\ now = 0
    /\ facts = [d \in Device |-> {}]
    /\ shown \in [Device -> BOOLEAN]
    /\ favorite = shown
    /\ mark = [d \in Device |-> 0]
    /\ queue = [d \in Device |-> {}]
    /\ cloud = Empty
    /\ step = [p \in Process |-> "idle"]
    /\ local = [p \in Process |-> Unread]
    /\ merged = [p \in Process |-> Empty]
    /\ fresh = [p \in Process |-> FALSE]
    /\ attempt = [p \in Process |-> 1]
    /\ synced = [p \in Process |-> {}]

-----------------------------------------------------------------------------
(* The user, on the main thread.                                           *)

Tick ==
    /\ now < MaxTime
    /\ now' = now + 1
    /\ UNCHANGED <<database, queue, cloud, step, call, synced>>

(* A play session is recorded, an achievement is unlocked.                 *)
Record(d, f) ==
    /\ Origin[f] = d
    /\ f \notin facts[d]
    /\ facts' = [facts EXCEPT ![d] = @ \cup {f}]
    /\ UNCHANGED <<now, favorite, mark, shown, queue, cloud, step, call, synced>>

(* toggle_favorite(): one transaction over the row the user sees and the   *)
(* ledger; no two changes carry the same marker.                           *)
Toggle(d) ==
    /\ now < MaxTime
    /\ now' = now + 1
    /\ shown' = [shown EXCEPT ![d] = ~@]
    /\ favorite' = [favorite EXCEPT ![d] = ~shown[d]]
    /\ mark' = [mark EXCEPT ![d] = now']
    /\ UNCHANGED <<facts, queue, cloud, step, call, synced>>

-----------------------------------------------------------------------------
(* sync_profile(), one call at a time per process (_PROFILE_SYNC_LOCK).    *)

Goto(p, s) == step' = [step EXCEPT ![p] = s]

(* _local_profile reads the games, and the flag the user sees, first ...   *)
ReadGames(p) ==
    LET d == HomeOf[p]
    IN  /\ step[p] \in {"idle", "failed"}
        /\ local' = [local EXCEPT ![p] =
                        [facts |-> facts[d], favorite |-> shown[d],
                         mark |-> 0, time |-> now]]
        /\ Goto(p, "reading")
        /\ UNCHANGED <<now, database, queue, cloud, merged, fresh, attempt, synced>>

(* ... and the change markers, from the ledger, last.                      *)
ReadLedger(p) ==
    /\ step[p] = "reading"
    /\ local' = [local EXCEPT ![p].mark = mark[HomeOf[p]]]
    /\ Goto(p, "ready")
    /\ UNCHANGED <<now, database, queue, cloud, merged, fresh, attempt, synced>>

(* PendingCloudSyncQueue.enqueue: repeated edits coalesce into one entry.  *)
Enqueue(p) == queue' = [queue EXCEPT ![HomeOf[p]] = {local[p]}]

(* Mutant: whatever is pending is taken for the entry just completed.      *)
MutantAcknowledge(p) == queue' = [queue EXCEPT ![HomeOf[p]] = {}]

(* PendingCloudSyncQueue.acknowledge: only an entry of the same digest.    *)
Acknowledge(p) == queue' = [queue EXCEPT ![HomeOf[p]] = @ \ {local[p]}]

Forget(p) ==
    /\ merged' = [merged EXCEPT ![p] = Empty]
    /\ attempt' = [attempt EXCEPT ![p] = 1]

(* Mutant: a failure leaves nothing behind.                                *)
MutantGiveUp(p) ==
    /\ Forget(p)
    /\ Goto(p, "failed")
    /\ UNCHANGED queue

(* The call returns False and leaves a pending entry.                      *)
GiveUp(p) ==
    /\ Enqueue(p)
    /\ Forget(p)
    /\ Goto(p, "failed")

(* Mutant: the loop never raises.                                          *)
MutantRetry(p) ==
    /\ attempt' = [attempt EXCEPT ![p] = @ + 1]
    /\ merged' = [merged EXCEPT ![p] = Empty]
    /\ Goto(p, "fetch")
    /\ UNCHANGED queue

(* An exception inside the loop: fetch and merge once more, then give up.  *)
Retry(p) ==
    \/ /\ attempt[p] = 1
       /\ attempt' = [attempt EXCEPT ![p] = 2]
       /\ merged' = [merged EXCEPT ![p] = Empty]
       /\ Goto(p, "fetch")
       /\ UNCHANGED queue
    \/ /\ attempt[p] = 2
       /\ GiveUp(p)

(* Networking is off or credentials are missing.                           *)
Refuse(p) ==
    /\ step[p] = "ready"
    /\ GiveUp(p)
    /\ UNCHANGED <<now, database, cloud, local, fresh, synced>>

(* Nothing is pending and this very profile was synchronised a moment ago. *)
Skip(p) ==
    /\ step[p] = "ready"
    /\ queue[HomeOf[p]] = {}
    /\ local[p] \in synced[p]
    /\ local' = [local EXCEPT ![p] = Unread]
    /\ Goto(p, "idle")
    /\ UNCHANGED <<now, database, queue, cloud, merged, fresh, attempt, synced>>

(* get_profile() answers, and the answer is merged ...                     *)
Fetch(p) ==
    /\ step[p] \in {"ready", "fetch"}
    /\ merged' = [merged EXCEPT ![p] = Merge(local[p], cloud)]
    /\ fresh' = [fresh EXCEPT ![p] = TRUE]
    /\ Goto(p, "put")
    /\ UNCHANGED <<now, database, queue, cloud, local, attempt, synced>>

(* ... or get_profile() fails, which the loop does not retry.              *)
FetchFails(p) ==
    /\ step[p] \in {"ready", "fetch"}
    /\ GiveUp(p)
    /\ UNCHANGED <<now, database, cloud, local, fresh, synced>>

(* Mutant: the backend replaces the document whatever its revision.        *)
MutantStored(p) ==
    /\ cloud' = merged[p]
    /\ fresh' = [q \in Process |-> FALSE]

(* The backend replaces the document if the revision it is given is still  *)
(* the current one; every other process then holds an old revision.        *)
Stored(p) ==
    /\ fresh[p]
    /\ cloud' = merged[p]
    /\ fresh' = [q \in Process |-> FALSE]

PutAccepted(p) ==
    /\ step[p] = "put"
    /\ Stored(p)
    /\ Goto(p, "ledger")
    /\ UNCHANGED <<now, database, queue, local, merged, attempt, synced>>

(* The document is replaced and the answer is lost.                        *)
PutAnswerLost(p) ==
    /\ step[p] = "put"
    /\ Stored(p)
    /\ Retry(p)
    /\ UNCHANGED <<now, database, local, synced>>

(* The revision is rejected, or the request does not reach the backend.    *)
PutFails(p) ==
    /\ step[p] = "put"
    /\ fresh' = [fresh EXCEPT ![p] = FALSE]
    /\ Retry(p)
    /\ UNCHANGED <<now, database, cloud, local, synced>>

(* _apply_profile: the ledger merges what was written ...                  *)
ApplyLedger(p) ==
    LET d == HomeOf[p]
    IN  /\ step[p] = "ledger"
        /\ facts' = [facts EXCEPT ![d] = @ \cup merged[p].facts]
        /\ favorite' = [favorite EXCEPT ![d] = NewerFavorite(Ledger(d), merged[p])]
        /\ mark' = [mark EXCEPT ![d] = NewerMark(Ledger(d), merged[p])]
        /\ Goto(p, "project")
        /\ UNCHANGED <<now, shown, queue, cloud, call, synced>>

(* ... and project_profile_game overwrites what the user sees.             *)
ApplyProjection(p) ==
    /\ step[p] = "project"
    /\ shown' = [shown EXCEPT ![HomeOf[p]] = merged[p].favorite]
    /\ Goto(p, "finish")
    /\ UNCHANGED <<now, facts, favorite, mark, queue, cloud, call, synced>>

(* The local database refuses a write.                                     *)
ApplyFails(p) ==
    /\ step[p] \in {"ledger", "project"}
    /\ Retry(p)
    /\ UNCHANGED <<now, database, cloud, local, fresh, synced>>

(* Mutant: the digest remembered is that of the database as it is now.     *)
MutantRemember(p) ==
    LET d == HomeOf[p]
    IN  synced' = [synced EXCEPT ![p] =
                     {[facts |-> facts[d], favorite |-> favorite[d],
                       mark |-> mark[d], time |-> now]}]

Remember(p) == synced' = [synced EXCEPT ![p] = {local[p]}]

(* The call remembers its digest, acknowledges it and returns True.        *)
Finish(p) ==
    /\ step[p] = "finish"
    /\ Remember(p)
    /\ Acknowledge(p)
    /\ Forget(p)
    /\ local' = [local EXCEPT ![p] = Unread]
    /\ Goto(p, "idle")
    /\ UNCHANGED <<now, database, cloud, fresh>>

(* The process ends and is started again: the database and the queue       *)
(* survive, what it remembers and was doing does not.                      *)
Restart(p) ==
    /\ step[p] # "idle" \/ synced[p] # {}
    /\ Forget(p)
    /\ local' = [local EXCEPT ![p] = Unread]
    /\ fresh' = [fresh EXCEPT ![p] = FALSE]
    /\ synced' = [synced EXCEPT ![p] = {}]
    /\ Goto(p, "idle")
    /\ UNCHANGED <<now, database, queue, cloud>>

-----------------------------------------------------------------------------
User ==
    \/ Tick
    \/ \E d \in Device, f \in Fact : Record(d, f)
    \/ \E d \in Device : Toggle(d)

Failure(p) ==
    \/ Refuse(p) \/ FetchFails(p) \/ PutAnswerLost(p) \/ PutFails(p)
    \/ ApplyFails(p) \/ Restart(p)

Progress(p) ==
    \/ ReadGames(p) \/ ReadLedger(p) \/ Skip(p) \/ Fetch(p)
    \/ PutAccepted(p) \/ ApplyLedger(p) \/ ApplyProjection(p) \/ Finish(p)

Next ==
    \/ User
    \/ \E p \in Process : Progress(p) \/ Failure(p)

Spec == Init /\ [][Next]_vars

(* A profile is synchronised again and again (at start, on every return to *)
(* the library, after a session) and every call runs on; seconds pass, so  *)
(* not every call is skipped; a device does not lose the race for the      *)
(* document every time; and from some moment on the network, the backend   *)
(* and the database work and no process ends.  A write is still rejected   *)
(* then when another device was first.                                     *)
Disturbed(p) ==
    \/ Refuse(p) \/ FetchFails(p) \/ PutAnswerLost(p) \/ ApplyFails(p) \/ Restart(p)
    \/ fresh[p] /\ PutFails(p)

Fairness ==
    /\ \A p \in Process :
        /\ WF_vars(Progress(p) \/ PutFails(p))
        /\ SF_vars(Fetch(p)) /\ SF_vars(PutAccepted(p))
    /\ <>[][\A p \in Process : ~Disturbed(p)]_vars

FairSpec == Spec /\ Fairness

-----------------------------------------------------------------------------
(* Properties.                                                             *)

TypeOK ==
    /\ now \in 0..MaxTime
    /\ facts \in [Device -> SUBSET Fact]
    /\ favorite \in [Device -> BOOLEAN]
    /\ mark \in [Device -> 0..MaxTime]
    /\ shown \in [Device -> BOOLEAN]
    /\ queue \in [Device -> SUBSET Digest]
    /\ cloud \in Document
    /\ step \in [Process -> Step]
    /\ local \in [Process -> Digest]
    /\ merged \in [Process -> Document]
    /\ fresh \in [Process -> BOOLEAN]
    /\ attempt \in [Process -> 1..2]
    /\ synced \in [Process -> SUBSET Digest]

Covers(document, digest) ==
    /\ digest.facts \subseteq document.facts
    /\ digest.mark <= document.mark

(* "Merge the account profile without losing achievements or playtime":    *)
(* whatever devices write, in whatever order, the cloud document loses no  *)
(* fact and never returns to an older change of the favourite.             *)
CloudNeverForgets ==
    [][/\ cloud.facts \subseteq cloud'.facts
       /\ cloud.mark <= cloud'.mark]_vars

(* "acknowledges only the digest it actually synchronized": an entry that  *)
(* leaves the queue, other than for a newer one, is covered by the cloud   *)
(* document, also when two processes of one device share the queue.        *)
AcknowledgedIsStored ==
    [][\A d \in Device : \A e \in queue[d] :
          queue'[d] = {} => Covers(cloud', e)]_vars

(* What a process takes for synchronised, and skips, is in the cloud.      *)
SyncedIsStored ==
    \A p \in Process : \A e \in synced[p] : Covers(cloud, e)

(* "On offline/auth/backend failure, enqueue": a profile whose             *)
(* synchronisation failed stays pending until the cloud document covers    *)
(* it, whichever process, retry or acknowledgement comes next.             *)
FailedIsPending ==
    \A p \in Process :
        step[p] = "failed" =>
            queue[HomeOf[p]] # {} \/ Covers(cloud, local[p])

(* Every fact recorded on one device reaches all of them.                  *)
EventuallyShared ==
    \A f \in Fact : f \in facts[Origin[f]] ~> \A d \in Device : f \in facts[d]

=============================================================================
