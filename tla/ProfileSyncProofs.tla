--------------------------- MODULE ProfileSyncProofs ---------------------------
(* Proofs about ProfileSync for any number of devices, processes, facts    *)
(* and seconds: the types, what the cloud document never loses, and what a *)
(* process may take for synchronised or remove from the pending queue.     *)
EXTENDS ProfileSync, TLAPS

(* Merging a profile with the document gives a document that covers both.  *)
LEMMA MergeCovers ==
    ASSUME NEW l \in Digest, NEW c \in Document
    PROVE  /\ Merge(l, c) \in Document
           /\ Covers(Merge(l, c), l)
           /\ c.facts \subseteq Merge(l, c).facts
           /\ c.mark <= Merge(l, c).mark
<1>1. NewerFavorite(l, c) \in BOOLEAN
  BY DEF NewerFavorite, Digest, Document
<1>2. /\ NewerMark(l, c) \in 0..MaxTime
      /\ l.mark <= NewerMark(l, c)
      /\ c.mark <= NewerMark(l, c)
  BY ProfileAssumption DEF NewerMark, Digest, Document
<1>3. l.facts \cup c.facts \in SUBSET Fact
  BY DEF Digest, Document
<1> QED
  BY <1>1, <1>2, <1>3 DEF Merge, Covers, Document

LEMMA LedgerDocument ==
    ASSUME TypeOK, NEW d \in Device
    PROVE  Ledger(d) \in Document
  BY DEF TypeOK, Ledger, Document

LEMMA NewerDocument ==
    ASSUME NEW a \in Document, NEW b \in Document
    PROVE  /\ NewerFavorite(a, b) \in BOOLEAN
           /\ NewerMark(a, b) \in 0..MaxTime
  BY ProfileAssumption DEF NewerFavorite, NewerMark, Document

LEMMA EmptyTypes == Empty \in Document /\ Unread \in Digest
  BY ProfileAssumption DEF Empty, Unread, Document, Digest

-----------------------------------------------------------------------------
(* What a failed attempt writes.                                           *)

LEMMA GiveUpTypes ==
    ASSUME TypeOK, NEW p \in Process, GiveUp(p)
    PROVE  /\ queue' \in [Device -> SUBSET Digest]
           /\ merged' \in [Process -> Document]
           /\ attempt' \in [Process -> 1..2]
           /\ step' \in [Process -> Step]
<1>1. HomeOf[p] \in Device /\ local[p] \in Digest
  BY ProfileAssumption DEF TypeOK
<1>2. queue' \in [Device -> SUBSET Digest]
  BY <1>1 DEF TypeOK, GiveUp, Enqueue
<1>3. merged' \in [Process -> Document] /\ attempt' \in [Process -> 1..2]
  BY EmptyTypes DEF TypeOK, GiveUp, Forget
<1>4. step' \in [Process -> Step]
  BY DEF TypeOK, GiveUp, Goto, Step
<1> QED
  BY <1>2, <1>3, <1>4

LEMMA RetryTypes ==
    ASSUME TypeOK, NEW p \in Process, Retry(p)
    PROVE  /\ queue' \in [Device -> SUBSET Digest]
           /\ merged' \in [Process -> Document]
           /\ attempt' \in [Process -> 1..2]
           /\ step' \in [Process -> Step]
<1>1. CASE GiveUp(p)
  BY <1>1, GiveUpTypes
<1>2. CASE ~GiveUp(p)
  <2>1. merged' \in [Process -> Document] /\ attempt' \in [Process -> 1..2]
    BY <1>2, EmptyTypes DEF TypeOK, Retry
  <2>2. step' \in [Process -> Step] /\ queue' \in [Device -> SUBSET Digest]
    BY <1>2 DEF TypeOK, Retry, Goto, Step
  <2> QED
    BY <2>1, <2>2
<1> QED
  BY <1>1, <1>2

(* Every reachable state is well typed: the merges, the retry counter and  *)
(* the queue entries stay within their ranges.                             *)
THEOREM ProfileTypeCorrect == Spec => []TypeOK
<1>1. Init => TypeOK
  <2> SUFFICES ASSUME Init PROVE TypeOK
    OBVIOUS
  <2>1. /\ now \in 0..MaxTime
        /\ facts \in [Device -> SUBSET Fact]
        /\ favorite \in [Device -> BOOLEAN]
        /\ mark \in [Device -> 0..MaxTime]
        /\ shown \in [Device -> BOOLEAN]
    BY ProfileAssumption DEF Init
  <2>2. /\ queue \in [Device -> SUBSET Digest]
        /\ cloud \in Document
        /\ step \in [Process -> Step]
    BY EmptyTypes DEF Init, Step
  <2>3. /\ local \in [Process -> Digest]
        /\ merged \in [Process -> Document]
        /\ fresh \in [Process -> BOOLEAN]
        /\ attempt \in [Process -> 1..2]
        /\ synced \in [Process -> SUBSET Digest]
    BY EmptyTypes DEF Init
  <2> QED
    BY <2>1, <2>2, <2>3 DEF TypeOK
<1>2. TypeOK /\ [Next]_vars => TypeOK'
  <2> SUFFICES ASSUME TypeOK, [Next]_vars PROVE TypeOK'
    OBVIOUS
  <2>1. CASE UNCHANGED vars
    BY <2>1 DEF TypeOK, vars, database, call
  <2>2. CASE Tick
    BY <2>2, ProfileAssumption DEF TypeOK, Tick, database, call
  <2>3. CASE \E d \in Device, f \in Fact : Record(d, f)
    BY <2>3 DEF TypeOK, Record, call
  <2>4. CASE \E d \in Device : Toggle(d)
    BY <2>4, ProfileAssumption DEF TypeOK, Toggle, call
  <2>5. ASSUME NEW p \in Process, Progress(p) \/ Failure(p) PROVE TypeOK'
    <3>0. HomeOf[p] \in Device
      BY ProfileAssumption
    <3>1. CASE ReadGames(p)
      <4>1. [facts |-> facts[HomeOf[p]], favorite |-> shown[HomeOf[p]],
             mark |-> 0, time |-> now] \in Digest
        BY <3>0, ProfileAssumption DEF TypeOK, Digest
      <4>2. local' \in [Process -> Digest] /\ step' \in [Process -> Step]
        BY <3>1, <4>1 DEF TypeOK, ReadGames, Goto, Step
      <4> QED
        BY <3>1, <4>2 DEF TypeOK, ReadGames, database
    <3>2. CASE ReadLedger(p)
      <4>1. [local[p] EXCEPT !.mark = mark[HomeOf[p]]] \in Digest
        BY <3>0 DEF TypeOK, Digest
      <4>2. local' \in [Process -> Digest] /\ step' \in [Process -> Step]
        BY <3>2, <4>1 DEF TypeOK, ReadLedger, Goto, Step
      <4> QED
        BY <3>2, <4>2 DEF TypeOK, ReadLedger, database
    <3>3. CASE Skip(p)
      <4>1. local' \in [Process -> Digest] /\ step' \in [Process -> Step]
        BY <3>3, EmptyTypes DEF TypeOK, Skip, Goto, Step
      <4> QED
        BY <3>3, <4>1 DEF TypeOK, Skip, database
    <3>4. CASE Fetch(p)
      <4>1. Merge(local[p], cloud) \in Document
        BY MergeCovers DEF TypeOK
      <4>2. merged' \in [Process -> Document] /\ step' \in [Process -> Step]
        BY <3>4, <4>1 DEF TypeOK, Fetch, Goto, Step
      <4> QED
        BY <3>4, <4>2 DEF TypeOK, Fetch, database
    <3>5. CASE PutAccepted(p)
      <4>1. cloud' \in Document /\ fresh' \in [Process -> BOOLEAN]
        BY <3>5 DEF TypeOK, PutAccepted, Stored
      <4>2. step' \in [Process -> Step]
        BY <3>5 DEF TypeOK, PutAccepted, Goto, Step
      <4> QED
        BY <3>5, <4>1, <4>2 DEF TypeOK, PutAccepted, database
    <3>6. CASE ApplyLedger(p)
      <4>1. /\ NewerFavorite(Ledger(HomeOf[p]), merged[p]) \in BOOLEAN
            /\ NewerMark(Ledger(HomeOf[p]), merged[p]) \in 0..MaxTime
        BY <3>0, LedgerDocument, NewerDocument DEF TypeOK
      <4>2. merged[p].facts \in SUBSET Fact
        BY DEF TypeOK, Document
      <4>3. /\ facts' \in [Device -> SUBSET Fact]
            /\ favorite' \in [Device -> BOOLEAN]
            /\ mark' \in [Device -> 0..MaxTime]
        BY <3>6, <3>0, <4>1, <4>2 DEF TypeOK, ApplyLedger
      <4>4. step' \in [Process -> Step]
        BY <3>6 DEF TypeOK, ApplyLedger, Goto, Step
      <4> QED
        BY <3>6, <4>3, <4>4 DEF TypeOK, ApplyLedger, call
    <3>7. CASE ApplyProjection(p)
      <4>1. merged[p].favorite \in BOOLEAN
        BY DEF TypeOK, Document
      <4>2. shown' \in [Device -> BOOLEAN]
        BY <3>7, <3>0, <4>1 DEF TypeOK, ApplyProjection
      <4>3. step' \in [Process -> Step]
        BY <3>7 DEF TypeOK, ApplyProjection, Goto, Step
      <4> QED
        BY <3>7, <4>2, <4>3 DEF TypeOK, ApplyProjection, call
    <3>8. CASE Finish(p)
      <4>1. local' \in [Process -> Digest] /\ synced' \in [Process -> SUBSET Digest]
        BY <3>8, EmptyTypes DEF TypeOK, Finish, Remember
      <4>2. queue' \in [Device -> SUBSET Digest]
        BY <3>8, <3>0 DEF TypeOK, Finish, Acknowledge
      <4>3. merged' \in [Process -> Document] /\ attempt' \in [Process -> 1..2]
        BY <3>8, EmptyTypes DEF TypeOK, Finish, Forget
      <4>4. step' \in [Process -> Step]
        BY <3>8 DEF TypeOK, Finish, Goto, Step
      <4> QED
        BY <3>8, <4>1, <4>2, <4>3, <4>4 DEF TypeOK, Finish, database
    <3>9. CASE Refuse(p)
      BY <3>9, GiveUpTypes DEF TypeOK, Refuse, database
    <3>10. CASE FetchFails(p)
      BY <3>10, GiveUpTypes DEF TypeOK, FetchFails, database
    <3>11. CASE PutAnswerLost(p)
      <4>1. cloud' \in Document /\ fresh' \in [Process -> BOOLEAN]
        BY <3>11 DEF TypeOK, PutAnswerLost, Stored
      <4> QED
        BY <3>11, <4>1, RetryTypes DEF TypeOK, PutAnswerLost, database
    <3>12. CASE PutFails(p)
      BY <3>12, RetryTypes DEF TypeOK, PutFails, database
    <3>13. CASE ApplyFails(p)
      BY <3>13, RetryTypes DEF TypeOK, ApplyFails, database
    <3>14. CASE Restart(p)
      <4>1. /\ local' \in [Process -> Digest]
            /\ merged' \in [Process -> Document]
            /\ attempt' \in [Process -> 1..2]
        BY <3>14, EmptyTypes DEF TypeOK, Restart, Forget
      <4>2. step' \in [Process -> Step]
        BY <3>14 DEF TypeOK, Restart, Goto, Step
      <4> QED
        BY <3>14, <4>1, <4>2 DEF TypeOK, Restart, database
    <3> QED
      BY <2>5, <3>1, <3>2, <3>3, <3>4, <3>5, <3>6, <3>7,
         <3>8, <3>9, <3>10, <3>11, <3>12, <3>13, <3>14
         DEF Progress, Failure
  <2> QED
    BY <2>1, <2>2, <2>3, <2>4, <2>5 DEF Next, User
<1> QED
  BY <1>1, <1>2, PTL DEF Spec

-----------------------------------------------------------------------------
(* The inductive invariant: what a process holds at each step of the call  *)
(* relates to the document.  A fresh merge contains the document, so the   *)
(* conditional write can only add to it; from the accepted write to the    *)
(* end of the call the document covers the profile that was read.          *)
Covered(q) ==
    /\ fresh[q] => /\ step[q] = "put"
                   /\ cloud.facts \subseteq merged[q].facts
                   /\ cloud.mark <= merged[q].mark
    /\ step[q] = "put" => Covers(merged[q], local[q])
    /\ step[q] \in {"ledger", "project", "finish"} => Covers(cloud, local[q])
    /\ \A e \in synced[q] : Covers(cloud, e)

Coverage == \A q \in Process : Covered(q)

Grows == cloud.facts \subseteq cloud'.facts /\ cloud.mark <= cloud'.mark

LEMMA CoversGrows ==
    ASSUME TypeOK, TypeOK', Grows, NEW e \in Digest, Covers(cloud, e)
    PROVE  Covers(cloud', e)
<1>1. cloud.mark \in Int /\ cloud'.mark \in Int /\ e.mark \in Int
  BY ProfileAssumption DEF TypeOK, Document, Digest
<1> QED
  BY <1>1 DEF Grows, Covers

LEMMA StoredGrows ==
    ASSUME Coverage, NEW p \in Process, Stored(p)
    PROVE  Grows
  BY DEF Coverage, Covered, Stored, Grows

(* Only an accepted write changes the document.                            *)
LEMMA CloudGrows ==
    ASSUME TypeOK, Coverage, [Next]_vars
    PROVE  Grows
<1>1. CASE cloud' = cloud
  <2>1. cloud.mark \in Int
    BY ProfileAssumption DEF TypeOK, Document
  <2> QED
    BY <1>1, <2>1 DEF Grows
<1>2. CASE \E p \in Process : Stored(p)
  BY <1>2, StoredGrows
<1>3. UNCHANGED vars \/ User => cloud' = cloud
  BY DEF vars, User, Tick, Record, Toggle
<1>4. ASSUME NEW p \in Process, Progress(p)
      PROVE  cloud' = cloud \/ Stored(p)
  BY <1>4 DEF Progress, ReadGames, ReadLedger, Skip, Fetch, PutAccepted,
              ApplyLedger, ApplyProjection, Finish
<1>5. ASSUME NEW p \in Process, Failure(p)
      PROVE  cloud' = cloud \/ Stored(p)
  BY <1>5 DEF Failure, Refuse, FetchFails, PutAnswerLost, PutFails,
              ApplyFails, Restart
<1> QED
  BY <1>1, <1>2, <1>3, <1>4, <1>5 DEF Next

(* A process that does not move keeps its part, ...                        *)
LEMMA CoveredKept ==
    ASSUME TypeOK, TypeOK', Grows, NEW q \in Process, Covered(q),
           step'[q] = step[q], local'[q] = local[q], merged'[q] = merged[q],
           synced'[q] = synced[q],
           fresh'[q] => fresh[q] /\ cloud' = cloud
    PROVE  Covered(q)'
<1>1. synced[q] \subseteq Digest /\ local[q] \in Digest
  BY DEF TypeOK
<1>2. \A e \in synced'[q] : Covers(cloud', e)
  BY <1>1, CoversGrows DEF Covered
<1>3. step'[q] \in {"ledger", "project", "finish"} => Covers(cloud', local'[q])
  BY <1>1, CoversGrows DEF Covered
<1>4. step'[q] = "put" => Covers(merged'[q], local'[q])
  BY DEF Covered
<1>5. fresh'[q] => /\ step'[q] = "put"
                   /\ cloud'.facts \subseteq merged'[q].facts
                   /\ cloud'.mark <= merged'[q].mark
  BY DEF Covered
<1> QED
  BY <1>2, <1>3, <1>4, <1>5 DEF Covered

(* ... and one before its merge or after its call only remembers.          *)
LEMMA CoveredOutside ==
    ASSUME TypeOK, TypeOK', Grows, NEW q \in Process, Covered(q),
           step'[q] \notin {"put", "ledger", "project", "finish"},
           ~fresh'[q], synced'[q] \subseteq synced[q]
    PROVE  Covered(q)'
<1>1. synced[q] \subseteq Digest
  BY DEF TypeOK
<1>2. \A e \in synced'[q] : Covers(cloud', e)
  BY <1>1, CoversGrows DEF Covered
<1> QED
  BY <1>2 DEF Covered

(* Where a retry leads.                                                    *)
LEMMA RetryLeaves ==
    ASSUME TypeOK, NEW p \in Process, Retry(p)
    PROVE  /\ step'[p] \in {"fetch", "failed"}
           /\ \A q \in Process \ {p} : step'[q] = step[q] /\ merged'[q] = merged[q]
<1>1. CASE GiveUp(p)
  BY <1>1 DEF TypeOK, GiveUp, Forget, Goto
<1>2. CASE ~GiveUp(p)
  BY <1>2 DEF TypeOK, Retry, Goto
<1> QED
  BY <1>1, <1>2

(* What a call of p leaves alone of another process.                       *)
LEMMA OthersKept ==
    ASSUME TypeOK, NEW p \in Process, Progress(p) \/ Failure(p),
           NEW q \in Process, q # p
    PROVE  /\ step'[q] = step[q] /\ local'[q] = local[q]
           /\ merged'[q] = merged[q] /\ synced'[q] = synced[q]
           /\ fresh'[q] => fresh[q] /\ cloud' = cloud
<1>0. q \in Process \ {p}
  OBVIOUS
<1>1. CASE ReadGames(p)
  BY <1>1, <1>0 DEF TypeOK, ReadGames, Goto, call
<1>2. CASE ReadLedger(p)
  BY <1>2, <1>0 DEF TypeOK, ReadLedger, Goto, call
<1>3. CASE Skip(p)
  BY <1>3, <1>0 DEF TypeOK, Skip, Goto, call
<1>4. CASE Fetch(p)
  BY <1>4, <1>0 DEF TypeOK, Fetch, Goto, call
<1>5. CASE PutAccepted(p)
  BY <1>5, <1>0 DEF TypeOK, PutAccepted, Goto, call, Stored
<1>6. CASE ApplyLedger(p)
  BY <1>6, <1>0 DEF TypeOK, ApplyLedger, Goto, call
<1>7. CASE ApplyProjection(p)
  BY <1>7, <1>0 DEF TypeOK, ApplyProjection, Goto, call
<1>8. CASE Finish(p)
  BY <1>8, <1>0 DEF TypeOK, Finish, Goto, call, Remember, Forget
<1>9. CASE Refuse(p)
  BY <1>9, <1>0 DEF TypeOK, Refuse, Goto, call, GiveUp, Forget
<1>10. CASE FetchFails(p)
  BY <1>10, <1>0 DEF TypeOK, FetchFails, Goto, call, GiveUp, Forget
<1>11. CASE PutAnswerLost(p)
  BY <1>11, <1>0, RetryLeaves DEF TypeOK, PutAnswerLost, Goto, call, Stored
<1>12. CASE PutFails(p)
  BY <1>12, <1>0, RetryLeaves DEF TypeOK, PutFails, Goto, call
<1>13. CASE ApplyFails(p)
  BY <1>13, <1>0, RetryLeaves DEF TypeOK, ApplyFails, Goto, call
<1>14. CASE Restart(p)
  BY <1>14, <1>0 DEF TypeOK, Restart, Goto, call, Forget
<1> QED
  BY <1>1, <1>2, <1>3, <1>4, <1>5, <1>6, <1>7, <1>8, <1>9, <1>10, <1>11, <1>12, <1>13, <1>14
     DEF Progress, Failure

LEMMA CoverageStep ==
    ASSUME TypeOK, TypeOK', Coverage, [Next]_vars
    PROVE  Coverage'
<1>0. Grows
  BY CloudGrows
<1>1. CASE UNCHANGED vars \/ User
  <2>1. UNCHANGED <<cloud, step, call, synced>>
    BY <1>1 DEF vars, User, Tick, Record, Toggle
  <2> QED
    BY <1>0, <2>1, CoveredKept DEF Coverage, call
<1>2. ASSUME NEW p \in Process, Progress(p) \/ Failure(p) PROVE Coverage'
  <2>1. ASSUME NEW q \in Process, q # p PROVE Covered(q)'
    BY <1>0, <1>2, <2>1, OthersKept, CoveredKept DEF Coverage
  <2>2. Covered(p)'
    <3>0. Covered(p) /\ (fresh[p] => step[p] = "put")
      BY DEF Coverage, Covered
    <3>1. CASE ReadGames(p)
      <4>1. /\ step'[p] \notin {"put", "ledger", "project", "finish"}
            /\ ~fresh'[p] /\ synced'[p] \subseteq synced[p]
        BY <3>1, <3>0 DEF TypeOK, ReadGames, Goto
      <4> QED
        BY <1>0, <3>0, <4>1, CoveredOutside
    <3>2. CASE ReadLedger(p)
      <4>1. /\ step'[p] \notin {"put", "ledger", "project", "finish"}
            /\ ~fresh'[p] /\ synced'[p] \subseteq synced[p]
        BY <3>2, <3>0 DEF TypeOK, ReadLedger, Goto
      <4> QED
        BY <1>0, <3>0, <4>1, CoveredOutside
    <3>3. CASE Skip(p)
      <4>1. /\ step'[p] \notin {"put", "ledger", "project", "finish"}
            /\ ~fresh'[p] /\ synced'[p] \subseteq synced[p]
        BY <3>3, <3>0 DEF TypeOK, Skip, Goto
      <4> QED
        BY <1>0, <3>0, <4>1, CoveredOutside
    <3>4. CASE Fetch(p)
      <4>1. /\ step'[p] = "put" /\ cloud' = cloud /\ local'[p] = local[p]
            /\ merged'[p] = Merge(local[p], cloud) /\ synced'[p] = synced[p]
        BY <3>4 DEF TypeOK, Fetch, Goto
      <4>2. /\ Covers(merged'[p], local'[p])
            /\ cloud'.facts \subseteq merged'[p].facts
            /\ cloud'.mark <= merged'[p].mark
        BY <4>1, MergeCovers DEF TypeOK
      <4> QED
        BY <3>0, <4>1, <4>2 DEF Covered
    <3>5. CASE PutAccepted(p)
      <4>1. /\ step[p] = "put" /\ step'[p] = "ledger" /\ ~fresh'[p]
            /\ cloud' = merged[p] /\ local'[p] = local[p]
            /\ synced'[p] = synced[p]
        BY <3>5 DEF TypeOK, PutAccepted, Stored, Goto
      <4>2. Covers(cloud', local'[p])
        BY <3>0, <4>1 DEF Covered
      <4>3. \A e \in synced'[p] : Covers(cloud', e)
        BY <1>0, <3>0, <4>1, CoversGrows DEF Covered, TypeOK
      <4> QED
        BY <4>1, <4>2, <4>3 DEF Covered
    <3>6. CASE ApplyLedger(p)
      <4>1. /\ step[p] = "ledger" /\ step'[p] = "project" /\ UNCHANGED <<cloud, call, synced>>
        BY <3>6 DEF TypeOK, ApplyLedger, Goto
      <4> QED
        BY <3>0, <4>1 DEF Covered, call
    <3>7. CASE ApplyProjection(p)
      <4>1. /\ step[p] = "project" /\ step'[p] = "finish" /\ UNCHANGED <<cloud, call, synced>>
        BY <3>7 DEF TypeOK, ApplyProjection, Goto
      <4> QED
        BY <3>0, <4>1 DEF Covered, call
    <3>8. CASE Finish(p)
      <4>1. /\ step[p] = "finish" /\ step'[p] = "idle" /\ cloud' = cloud
            /\ fresh' = fresh /\ synced'[p] = {local[p]}
        BY <3>8 DEF TypeOK, Finish, Remember, Goto
      <4> QED
        BY <3>0, <4>1 DEF Covered
    <3>9. CASE Refuse(p)
      <4>1. /\ step'[p] \notin {"put", "ledger", "project", "finish"}
            /\ ~fresh'[p] /\ synced'[p] \subseteq synced[p]
        BY <3>9, <3>0 DEF TypeOK, Refuse, Goto, GiveUp
      <4> QED
        BY <1>0, <3>0, <4>1, CoveredOutside
    <3>10. CASE FetchFails(p)
      <4>1. /\ step'[p] \notin {"put", "ledger", "project", "finish"}
            /\ ~fresh'[p] /\ synced'[p] \subseteq synced[p]
        BY <3>10, <3>0 DEF TypeOK, FetchFails, Goto, GiveUp
      <4> QED
        BY <1>0, <3>0, <4>1, CoveredOutside
    <3>11. CASE PutAnswerLost(p)
      <4>1. /\ step'[p] \notin {"put", "ledger", "project", "finish"}
            /\ ~fresh'[p] /\ synced'[p] \subseteq synced[p]
        BY <3>11, <3>0, RetryLeaves DEF TypeOK, PutAnswerLost, Goto, Stored
      <4> QED
        BY <1>0, <3>0, <4>1, CoveredOutside
    <3>12. CASE PutFails(p)
      <4>1. /\ step'[p] \notin {"put", "ledger", "project", "finish"}
            /\ ~fresh'[p] /\ synced'[p] \subseteq synced[p]
        BY <3>12, <3>0, RetryLeaves DEF TypeOK, PutFails, Goto
      <4> QED
        BY <1>0, <3>0, <4>1, CoveredOutside
    <3>13. CASE ApplyFails(p)
      <4>1. /\ step'[p] \notin {"put", "ledger", "project", "finish"}
            /\ ~fresh'[p] /\ synced'[p] \subseteq synced[p]
        BY <3>13, <3>0, RetryLeaves DEF TypeOK, ApplyFails, Goto
      <4> QED
        BY <1>0, <3>0, <4>1, CoveredOutside
    <3>14. CASE Restart(p)
      <4>1. /\ step'[p] \notin {"put", "ledger", "project", "finish"}
            /\ ~fresh'[p] /\ synced'[p] \subseteq synced[p]
        BY <3>14, <3>0 DEF TypeOK, Restart, Goto
      <4> QED
        BY <1>0, <3>0, <4>1, CoveredOutside
    <3> QED
      BY <1>2, <3>1, <3>2, <3>3, <3>4, <3>5, <3>6, <3>7,
         <3>8, <3>9, <3>10, <3>11, <3>12, <3>13, <3>14
         DEF Progress, Failure
  <2> QED
    BY <2>1, <2>2 DEF Coverage
<1> QED
  BY <1>1, <1>2 DEF Next

LEMMA CoverageInvariant == Spec => []Coverage
<1>1. Init => Coverage
  BY DEF Init, Coverage, Covered
<1>2. TypeOK /\ TypeOK' /\ Coverage /\ [Next]_vars => Coverage'
  BY CoverageStep
<1> QED
  BY <1>1, <1>2, ProfileTypeCorrect, PTL DEF Spec

(* What a process takes for synchronised, and skips, is in the cloud: for  *)
(* any number of devices and processes writing the same document.          *)
THEOREM Synced == Spec => []SyncedIsStored
<1>1. Coverage => SyncedIsStored
  BY DEF Coverage, Covered, SyncedIsStored
<1> QED
  BY <1>1, CoverageInvariant, PTL

(* The cloud document loses no fact and returns to no older toggle,        *)
(* whatever devices write, in whatever order, and whatever is lost.        *)
THEOREM NeverForgets == Spec => CloudNeverForgets
<1>1. TypeOK /\ Coverage /\ [Next]_vars =>
        [cloud.facts \subseteq cloud'.facts /\ cloud.mark <= cloud'.mark]_vars
  BY CloudGrows DEF Grows
<1> QED
  BY <1>1, ProfileTypeCorrect, CoverageInvariant, PTL DEF Spec, CloudNeverForgets

(* Only a finished call empties a device's queue, and only of the entry    *)
(* whose profile it has stored.                                            *)
LEMMA AcknowledgeStep ==
    ASSUME TypeOK, Coverage, [Next]_vars, NEW d \in Device, NEW e \in queue[d],
           queue'[d] = {}
    PROVE  Covers(cloud', e)
<1>1. queue' # queue
  OBVIOUS
<1>2. PICK p \in Process : Progress(p) \/ Failure(p)
  BY <1>1 DEF Next, vars, User, Tick, Record, Toggle
<1>3. CASE Finish(p)
  <2>1. e = local[p] /\ cloud' = cloud /\ step[p] = "finish"
    BY <1>3, ProfileAssumption DEF TypeOK, Finish, Acknowledge
  <2> QED
    BY <2>1 DEF Coverage, Covered
<1>4. CASE ~Finish(p)
  <2>1. queue' = queue \/ Enqueue(p)
    BY <1>2, <1>4 DEF Progress, Failure, ReadGames, ReadLedger, Skip, Fetch,
         PutAccepted, ApplyLedger, ApplyProjection, Refuse, FetchFails,
         PutAnswerLost, PutFails, ApplyFails, Restart, Retry, GiveUp
  <2>2. ASSUME Enqueue(p) PROVE FALSE
    <3>1. queue'[d] = IF HomeOf[p] = d THEN {local[p]} ELSE queue[d]
      BY <2>2 DEF TypeOK, Enqueue
    <3>2. e \in queue[d] /\ queue'[d] = {}
      OBVIOUS
    <3> QED
      BY <3>1, <3>2
  <2> QED
    BY <1>1, <2>1, <2>2
<1> QED
  BY <1>3, <1>4

(* An acknowledgement removes nothing the cloud does not cover, also when  *)
(* processes share the queue.                                              *)
THEOREM Acknowledged == Spec => AcknowledgedIsStored
<1>1. TypeOK /\ Coverage /\ [Next]_vars =>
        [\A d \in Device : \A e \in queue[d] :
            queue'[d] = {} => Covers(cloud', e)]_vars
  BY AcknowledgeStep
<1> QED
  BY <1>1, ProfileTypeCorrect, CoverageInvariant, PTL
     DEF Spec, AcknowledgedIsStored

-----------------------------------------------------------------------------
(* No marker is of the future, and no profile is ahead of its device.      *)
Timed ==
    /\ \A d \in Device : mark[d] <= now
    /\ cloud.mark <= now
    /\ \A p \in Process : merged[p].mark <= now
Behind ==
    \A p \in Process : /\ local[p].facts \subseteq facts[HomeOf[p]]
                       /\ local[p].mark <= mark[HomeOf[p]]

(* While one process of a device has failed, the other is in a call that   *)
(* began after the failed one read its profile, unless the pending entry   *)
(* is still the failed process's own.                                      *)
Chases(p, q) ==
    /\ p # q /\ HomeOf[p] = HomeOf[q]
    /\ step[p] = "failed" /\ step[q] \notin {"idle", "failed"}
    => \/ queue[HomeOf[p]] = {local[p]}
       \/ Covers(cloud, local[p])
       \/ /\ local[p].facts \subseteq local[q].facts
          /\ step[q] # "reading" => local[p].mark <= local[q].mark
Chased == \A p, q \in Process : Chases(p, q)

(* The single-instance listener lets at most two launchers overlap on a    *)
(* device: one that ends and one that starts.                              *)
TwoPerDevice ==
    \A p, q, r \in Process :
        HomeOf[p] = HomeOf[q] /\ HomeOf[q] = HomeOf[r] => p = q \/ q = r \/ p = r

(* A device's database only grows, in facts and in time.                   *)
DatabaseGrows ==
    /\ \A d \in Device : facts[d] \subseteq facts'[d] /\ mark[d] <= mark'[d]
    /\ now <= now'

LEMMA DatabaseStep ==
    ASSUME TypeOK, Timed, [Next]_vars
    PROVE  DatabaseGrows
<1>0. now \in Int /\ \A d \in Device : mark[d] \in Int
  BY ProfileAssumption DEF TypeOK
<1>1. CASE UNCHANGED <<now, facts, mark>>
  BY <1>0, <1>1 DEF DatabaseGrows
<1>2. CASE Tick
  BY <1>0, <1>2 DEF Tick, database, DatabaseGrows
<1>3. ASSUME NEW d \in Device, NEW f \in Fact, Record(d, f)
      PROVE  DatabaseGrows
  BY <1>0, <1>3 DEF Record, DatabaseGrows, TypeOK
<1>4. ASSUME NEW d \in Device, Toggle(d)
      PROVE  DatabaseGrows
  <2>1. mark' = [mark EXCEPT ![d] = now + 1] /\ now' = now + 1 /\ facts' = facts
    BY <1>4 DEF Toggle
  <2>2. mark[d] <= now /\ mark \in [Device -> 0..MaxTime]
    BY DEF Timed, TypeOK
  <2> QED
    BY <1>0, <2>1, <2>2 DEF DatabaseGrows
<1>5. ASSUME NEW p \in Process, ApplyLedger(p)
      PROVE  DatabaseGrows
  <2> DEFINE d == HomeOf[p]
  <2>1. d \in Device /\ mark[d] \in Int /\ merged[p].mark \in Int
    BY <1>0, ProfileAssumption DEF TypeOK, Document
  <2>2. NewerMark(Ledger(d), merged[p]) >= mark[d]
    BY <2>1 DEF NewerMark, Ledger
  <2>3. /\ facts' = [facts EXCEPT ![d] = @ \cup merged[p].facts]
        /\ mark' = [mark EXCEPT ![d] = NewerMark(Ledger(d), merged[p])]
        /\ now' = now
    BY <1>5 DEF ApplyLedger
  <2> HIDE DEF d
  <2> QED
    BY <1>0, <2>1, <2>2, <2>3 DEF DatabaseGrows, TypeOK
<1>6. ASSUME NEW p \in Process, Progress(p) \/ Failure(p), ~ApplyLedger(p)
      PROVE  UNCHANGED <<now, facts, mark>>
  BY <1>6 DEF Progress, Failure, ReadGames, ReadLedger, Skip, Fetch, PutAccepted,
     ApplyProjection, Finish, Refuse, FetchFails, PutAnswerLost, PutFails,
     ApplyFails, Restart, database
<1>7. UNCHANGED vars => UNCHANGED <<now, facts, mark>>
  BY DEF vars, database
<1> QED
  BY <1>1, <1>2, <1>3, <1>4, <1>5, <1>6, <1>7 DEF Next, User

LEMMA TimedStep ==
    ASSUME TypeOK, TypeOK', Timed, Behind, [Next]_vars
    PROVE  Timed'
<1>0. /\ now \in Int /\ now' \in Int /\ now <= now' /\ cloud.mark \in Int
      /\ \A d \in Device : mark[d] \in Int
      /\ \A p \in Process : merged[p].mark \in Int
  BY DatabaseStep, ProfileAssumption DEF DatabaseGrows, TypeOK, Document
<1>1. ASSUME NEW p \in Process, Progress(p) \/ Failure(p)
      PROVE  Timed'
  <2>0. /\ Empty.mark = 0 /\ 0 <= now' /\ HomeOf[p] \in Device
        /\ local[p].mark <= now /\ merged[p].mark <= now /\ cloud.mark <= now
    BY <1>0, ProfileAssumption DEF Empty, Timed, Behind, TypeOK, Digest
  <2>1. \A q \in Process : merged'[q].mark <= now'
    <3>1. ASSUME NEW q \in Process, q # p PROVE merged'[q].mark <= now'
      BY <1>0, <1>1, <3>1, OthersKept DEF Timed
    <3>2. \/ merged'[p] = merged[p] \/ merged'[p] = Empty
          \/ merged'[p] = Merge(local[p], cloud)
      BY <1>1 DEF TypeOK, Progress, Failure, ReadGames, ReadLedger, Skip, Fetch,
         PutAccepted, ApplyLedger, ApplyProjection, Finish, Refuse, FetchFails,
         PutAnswerLost, PutFails, ApplyFails, Restart, Retry, GiveUp, Forget, call
    <3>3. Merge(local[p], cloud).mark <= now
      BY <2>0 DEF Merge, NewerMark
    <3>4. merged'[p].mark <= now'
      BY <1>0, <2>0, <3>2, <3>3, MergeCovers, EmptyTypes, ProfileAssumption DEF
         TypeOK, Document
    <3> QED
      BY <3>1, <3>4
  <2>2. cloud'.mark <= now'
    <3>1. cloud' = cloud \/ cloud' = merged[p]
      BY <1>1 DEF Progress, Failure, ReadGames, ReadLedger, Skip, Fetch,
         PutAccepted, ApplyLedger, ApplyProjection, Finish, Refuse, FetchFails,
         PutAnswerLost, PutFails, ApplyFails, Restart, Stored
    <3> QED
      BY <1>0, <2>0, <3>1
  <2>3. \A d \in Device : mark'[d] <= now'
    <3>1. CASE ApplyLedger(p)
      <4>1. NewerMark(Ledger(HomeOf[p]), merged[p]) <= now
        BY <2>0 DEF NewerMark, Ledger, Timed
      <4>2. mark' = [mark EXCEPT ![HomeOf[p]] = NewerMark(Ledger(HomeOf[p]), merged[p])]
            /\ now' = now
        BY <3>1 DEF ApplyLedger
      <4> QED
        BY <2>0, <4>1, <4>2 DEF Timed, TypeOK
    <3>2. CASE ~ApplyLedger(p)
      <4>1. UNCHANGED mark
        BY <1>1, <3>2 DEF Progress, Failure, ReadGames, ReadLedger, Skip, Fetch,
           PutAccepted, ApplyProjection, Finish, Refuse, FetchFails, PutAnswerLost,
           PutFails, ApplyFails, Restart, database
      <4> QED
        BY <1>0, <4>1 DEF Timed
    <3> QED
      BY <3>1, <3>2
  <2> QED
    BY <2>1, <2>2, <2>3 DEF Timed
<1>2. CASE UNCHANGED vars \/ User
  <2>1. UNCHANGED <<cloud, merged>>
    BY <1>2 DEF vars, User, Tick, Record, Toggle, call
  <2>2. \A d \in Device : mark'[d] = mark[d] \/ mark'[d] = now'
    BY <1>2 DEF vars, User, Tick, Record, Toggle, database, TypeOK
  <2> QED
    BY <1>0, <2>1, <2>2 DEF Timed
<1> QED
  BY <1>1, <1>2 DEF Next

-----------------------------------------------------------------------------
(* What a step of a process's own call does to its profile and to the      *)
(* pending entry of its device.                                            *)
Out == {"idle", "failed"}
Reads(p) == /\ step[p] \in Out /\ step'[p] = "reading" /\ queue' = queue
            /\ local'[p].facts = facts[HomeOf[p]] /\ local'[p].mark = 0
Marks(p) == /\ step[p] = "reading" /\ step'[p] = "ready" /\ queue' = queue
            /\ local'[p].facts = local[p].facts
            /\ local'[p].mark = mark[HomeOf[p]]
Leaves(p) == step'[p] = "idle" /\ queue' = queue /\ local'[p] = Unread
Fails(p) == /\ step'[p] = "failed" /\ local'[p] = local[p]
            /\ queue' = [queue EXCEPT ![HomeOf[p]] = {local[p]}]
Continues(p) == /\ step[p] \notin Out \cup {"reading"}
                /\ step'[p] \notin Out \cup {"reading"}
                /\ queue' = queue /\ local'[p] = local[p]
Moves(p) == Reads(p) \/ Marks(p) \/ Leaves(p) \/ Fails(p) \/ Continues(p) \/ Finish(p)

LEMMA RetryMoves ==
    ASSUME TypeOK, NEW p \in Process, Retry(p), local' = local,
           step[p] \notin Out \cup {"reading"}
    PROVE  Fails(p) \/ Continues(p)
<1>1. CASE GiveUp(p)
  BY <1>1 DEF TypeOK, GiveUp, Enqueue, Goto, Fails
<1>2. CASE ~GiveUp(p)
  BY <1>2 DEF TypeOK, Retry, Goto, Continues, Out
<1> QED
  BY <1>1, <1>2

LEMMA CallMoves ==
    ASSUME TypeOK, NEW p \in Process, Progress(p) \/ Failure(p)
    PROVE  Moves(p)
<1> USE DEF Moves
<1>1. CASE ReadGames(p)
  BY <1>1 DEF TypeOK, ReadGames, Goto, Reads, Out, call
<1>2. CASE ReadLedger(p)
  <2>1. local[p] \in Digest
    BY DEF TypeOK
  <2>2. local' = [local EXCEPT ![p] = [local[p] EXCEPT !.mark = mark[HomeOf[p]]]]
    BY <1>2 DEF ReadLedger
  <2>3. local'[p] = [local[p] EXCEPT !.mark = mark[HomeOf[p]]]
    BY <2>2 DEF TypeOK
  <2> QED
    BY <1>2, <2>1, <2>3 DEF TypeOK, ReadLedger, Goto, Marks, Digest
<1>3. CASE Skip(p)
  BY <1>3 DEF TypeOK, Skip, Goto, Leaves, Out, call
<1>4. CASE Fetch(p)
  BY <1>4 DEF TypeOK, Fetch, Goto, Continues, Out, call
<1>5. CASE PutAccepted(p)
  BY <1>5 DEF TypeOK, PutAccepted, Goto, Continues, Out, call
<1>6. CASE ApplyLedger(p)
  BY <1>6 DEF TypeOK, ApplyLedger, Goto, Continues, Out, call
<1>7. CASE ApplyProjection(p)
  BY <1>7 DEF TypeOK, ApplyProjection, Goto, Continues, Out, call
<1>8. CASE Finish(p)
  BY <1>8
<1>9. CASE Refuse(p)
  BY <1>9 DEF TypeOK, Refuse, GiveUp, Enqueue, Goto, Fails
<1>10. CASE FetchFails(p)
  BY <1>10 DEF TypeOK, FetchFails, GiveUp, Enqueue, Goto, Fails
<1>11. CASE PutAnswerLost(p)
  BY <1>11, RetryMoves DEF TypeOK, PutAnswerLost, Out
<1>12. CASE PutFails(p)
  BY <1>12, RetryMoves DEF TypeOK, PutFails, Out
<1>13. CASE ApplyFails(p)
  BY <1>13, RetryMoves DEF TypeOK, ApplyFails, Out
<1>14. CASE Restart(p)
  BY <1>14 DEF TypeOK, Restart, Goto, Leaves, Out, call
<1> QED
  BY <1>1, <1>2, <1>3, <1>4, <1>5, <1>6, <1>7, <1>8, <1>9, <1>10, <1>11, <1>12,
     <1>13, <1>14 DEF Progress, Failure

LEMMA BehindStep ==
    ASSUME TypeOK, TypeOK', Timed, Behind, [Next]_vars
    PROVE  Behind'
<1>0. DatabaseGrows
  BY DatabaseStep
<1>1. ASSUME NEW q \in Process, local'[q] = local[q]
      PROVE  local'[q].facts \subseteq facts'[HomeOf[q]]
             /\ local'[q].mark <= mark'[HomeOf[q]]
  <2>1. /\ HomeOf[q] \in Device /\ local[q].mark \in Int
        /\ mark[HomeOf[q]] \in Int /\ mark'[HomeOf[q]] \in Int
    BY ProfileAssumption DEF TypeOK, Digest
  <2> QED
    BY <1>0, <1>1, <2>1 DEF Behind, DatabaseGrows
<1>2. CASE UNCHANGED vars \/ User
  BY <1>1, <1>2 DEF vars, User, Tick, Record, Toggle, call, Behind
<1>3. ASSUME NEW p \in Process, Progress(p) \/ Failure(p)
      PROVE  Behind'
  <2>1. ASSUME NEW q \in Process, q # p PROVE local'[q] = local[q]
    BY <1>3, <2>1, OthersKept
  <2>2. /\ HomeOf[p] \in Device /\ mark[HomeOf[p]] \in 0..MaxTime
        /\ mark'[HomeOf[p]] \in 0..MaxTime /\ MaxTime \in Nat
    BY ProfileAssumption DEF TypeOK
  <2>3. CASE local'[p] = local[p]
    BY <1>1, <2>1, <2>3 DEF Behind
  <2>4. CASE local'[p] # local[p]
    <3>1. Reads(p) \/ Marks(p) \/ local'[p] = Unread
      BY <1>3, <2>4, CallMoves DEF Moves, Leaves, Fails, Continues, Finish, TypeOK
    <3>2. /\ local'[p].facts \subseteq facts[HomeOf[p]]
          /\ local'[p].mark <= mark[HomeOf[p]]
      BY <2>2, <3>1 DEF Reads, Marks, Unread, Behind
    <3>3. local'[p].mark \in Int
      BY ProfileAssumption DEF TypeOK, Digest
    <3>4. /\ local'[p].facts \subseteq facts'[HomeOf[p]]
          /\ local'[p].mark <= mark'[HomeOf[p]]
      BY <1>0, <2>2, <3>2, <3>3 DEF DatabaseGrows
    <3> QED
      BY <1>1, <2>1, <3>4 DEF Behind
  <2> QED
    BY <2>3, <2>4
<1> QED
  BY <1>2, <1>3 DEF Next

(* A pair of processes that does not move, and whose entry does not.       *)
LEMMA ChasesKept ==
    ASSUME TypeOK, TypeOK', Grows, NEW r \in Process, NEW q \in Process, Chases(r, q),
           step'[r] = step[r], local'[r] = local[r],
           step'[q] \in Out <=> step[q] \in Out,
           step'[q] = "reading" <=> step[q] = "reading",
           local'[q] = local[q], queue'[HomeOf[r]] = queue[HomeOf[r]]
    PROVE  Chases(r, q)'
<1>1. local[r] \in Digest
  BY DEF TypeOK
<1>2. Covers(cloud, local[r]) => Covers(cloud', local[r])
  BY <1>1, CoversGrows
<1> QED
  BY <1>2 DEF Chases, Out

LEMMA ChasedStep ==
    ASSUME TwoPerDevice, TypeOK, TypeOK', Grows, Timed, Behind, Chased, [Next]_vars
    PROVE  Chased'
<1>1. CASE UNCHANGED vars \/ User
  <2>1. UNCHANGED <<step, local, queue>>
    BY <1>1 DEF vars, User, Tick, Record, Toggle, call
  <2> QED
    BY <2>1, ChasesKept DEF Chased
<1>2. ASSUME NEW p \in Process, Progress(p) \/ Failure(p),
             NEW r \in Process, NEW q \in Process, r # q, HomeOf[r] = HomeOf[q],
             step'[r] = "failed", step'[q] \notin Out
      PROVE  Chases(r, q)'
  <2>0. Moves(p) /\ Chases(r, q) /\ HomeOf[r] \in Device /\ HomeOf[p] \in Device
    BY <1>2, CallMoves, ProfileAssumption DEF Chased
  <2>1. CASE p = r
    <3>1. Fails(p)
      BY <1>2, <2>0, <2>1 DEF Moves, Reads, Marks, Leaves, Continues, Finish,
         Goto, TypeOK, Out
    <3>2. queue'[HomeOf[r]] = {local'[r]}
      BY <2>0, <2>1, <3>1 DEF Fails, TypeOK
    <3> QED
      BY <3>2 DEF Chases
  <2>2. CASE p # r /\ p # q
    <3>1. HomeOf[p] # HomeOf[r]
      BY <1>2, <2>2 DEF TwoPerDevice
    <3>2. queue'[HomeOf[r]] = queue[HomeOf[r]]
      BY <2>0, <3>1 DEF Moves, Reads, Marks, Leaves, Fails, Continues, Finish,
         Acknowledge, TypeOK
    <3> QED
      BY <1>2, <2>0, <2>2, <3>2, OthersKept, ChasesKept
  <2>3. CASE p = q
    <3>1. step'[r] = step[r] /\ local'[r] = local[r] /\ step[r] = "failed"
      BY <1>2, <2>3, OthersKept
    <3>2. CASE Reads(q)
      BY <1>2, <3>1, <3>2 DEF Reads, Behind, Chases
    <3>3. CASE Marks(q)
      <4>1. Covers(cloud, local[r]) => Covers(cloud', local'[r])
        BY <3>1, CoversGrows DEF TypeOK
      <4>2. local[r].mark <= local'[q].mark
        BY <1>2, <3>3 DEF Marks, Behind
      <4> QED
        BY <1>2, <2>0, <3>1, <3>3, <4>1, <4>2 DEF Marks, Chases
    <3>4. CASE Continues(q)
      BY <2>0, <3>1, <3>4, ChasesKept DEF Continues, Out
    <3>5. ~Leaves(q) /\ ~Fails(q) /\ ~Finish(q)
      BY <1>2 DEF Leaves, Fails, Finish, Goto, TypeOK, Out
    <3> QED
      BY <2>0, <2>3, <3>2, <3>3, <3>4, <3>5 DEF Moves
  <2> QED
    BY <2>1, <2>2, <2>3
<1>3. ASSUME NEW p \in Process, Progress(p) \/ Failure(p)
      PROVE  Chased'
  BY <1>2, <1>3 DEF Chased, Chases, Out
<1> QED
  BY <1>1, <1>3 DEF Next

LEMMA PendingStep ==
    ASSUME TwoPerDevice, TypeOK, TypeOK', Grows, Coverage, Chased, FailedIsPending,
           [Next]_vars
    PROVE  FailedIsPending'
<1>0. ASSUME NEW r \in Process, step[r] = "failed", local'[r] = local[r],
             queue'[HomeOf[r]] = queue[HomeOf[r]]
      PROVE  queue'[HomeOf[r]] # {} \/ Covers(cloud', local'[r])
  BY <1>0, CoversGrows DEF FailedIsPending, TypeOK
<1>1. CASE UNCHANGED vars \/ User
  <2>1. UNCHANGED <<step, local, queue>>
    BY <1>1 DEF vars, User, Tick, Record, Toggle, call
  <2> QED
    BY <1>0, <2>1 DEF FailedIsPending
<1>2. ASSUME NEW p \in Process, Progress(p) \/ Failure(p),
             NEW r \in Process, step'[r] = "failed"
      PROVE  queue'[HomeOf[r]] # {} \/ Covers(cloud', local'[r])
  <2>0. Moves(p) /\ HomeOf[r] \in Device /\ HomeOf[p] \in Device
    BY <1>2, CallMoves, ProfileAssumption
  <2>1. CASE p = r
    <3>1. Fails(p)
      BY <1>2, <2>0, <2>1 DEF Moves, Reads, Marks, Leaves, Continues, Finish,
         Goto, TypeOK, Out
    <3> QED
      BY <2>0, <2>1, <3>1 DEF Fails, TypeOK
  <2>2. CASE p # r
    <3>1. step[r] = "failed" /\ local'[r] = local[r]
      BY <1>2, <2>2, OthersKept
    <3>2. CASE queue'[HomeOf[r]] = queue[HomeOf[r]]
      BY <1>0, <3>1, <3>2
    <3>3. CASE queue'[HomeOf[r]] # queue[HomeOf[r]] /\ Fails(p)
      BY <2>0, <3>3 DEF Fails, TypeOK
    <3>4. CASE queue'[HomeOf[r]] # queue[HomeOf[r]] /\ Finish(p)
      <4>1. /\ HomeOf[p] = HomeOf[r] /\ step[p] = "finish" /\ cloud' = cloud
            /\ queue'[HomeOf[r]] = queue[HomeOf[r]] \ {local[p]}
        BY <2>0, <3>4 DEF Finish, Acknowledge, TypeOK
      <4>2. Covers(cloud, local[p]) /\ Chases(r, p)
        BY <4>1 DEF Coverage, Covered, Chased
      <4>3. /\ local[r].mark \in Int /\ local[p].mark \in Int /\ cloud.mark \in Int
        BY ProfileAssumption DEF TypeOK, Digest, Document
      <4>4. CASE queue[HomeOf[r]] = {local[r]}
        <5>1. local[p] = local[r]
          BY <3>4, <4>1, <4>4
        <5> QED
          BY <3>1, <4>1, <4>2, <5>1
      <4>5. CASE Covers(cloud, local[r])
        BY <3>1, <4>1, <4>5
      <4>6. CASE local[r].facts \subseteq local[p].facts /\ local[r].mark <= local[p].mark
        BY <3>1, <4>1, <4>2, <4>3, <4>6 DEF Covers
      <4> QED
        BY <2>2, <3>1, <4>1, <4>2, <4>4, <4>5, <4>6 DEF Chases
    <3> QED
      BY <2>0, <3>2, <3>3, <3>4 DEF Moves, Reads, Marks, Leaves, Continues
  <2> QED
    BY <2>1, <2>2
<1>3. ASSUME NEW p \in Process, Progress(p) \/ Failure(p)
      PROVE  FailedIsPending'
  BY <1>2, <1>3 DEF FailedIsPending
<1> QED
  BY <1>1, <1>3 DEF Next

(* A profile whose synchronisation failed stays pending until the cloud    *)
(* covers it (sync_profile, PendingCloudSyncQueue), for any number of      *)
(* devices with at most two launchers each; with a third it is false.      *)
THEOREM FailedPends ==
    ASSUME TwoPerDevice
    PROVE  Spec => []FailedIsPending
<1> DEFINE Pends == Timed /\ Behind /\ Chased /\ FailedIsPending
<1>1. Init => Pends
  <2> SUFFICES ASSUME Init PROVE Pends
    OBVIOUS
  <2>1. Timed
    BY DEF Init, Timed, Empty
  <2>2. Behind
    BY ProfileAssumption DEF Init, Behind, Unread
  <2>3. Chased /\ FailedIsPending
    BY DEF Init, Chased, Chases, FailedIsPending
  <2> QED
    BY <2>1, <2>2, <2>3
<1>2. TypeOK /\ TypeOK' /\ Coverage /\ Pends /\ [Next]_vars => Pends'
  BY TwoPerDevice, CloudGrows, TimedStep, BehindStep, ChasedStep, PendingStep
<1>3. Pends => FailedIsPending
  OBVIOUS
<1> QED
  BY <1>1, <1>2, <1>3, ProfileTypeCorrect, CoverageInvariant, PTL DEF Spec
=============================================================================
