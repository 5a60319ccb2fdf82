----------------------------- MODULE SaveSyncProofs -----------------------------
(***************************************************************************)
(* That synchronisation keeps every session, reports "in sync" truthfully  *)
(* and replaces a save only by a newer one: for any number of devices,     *)
(* generations, seconds and failures, and however stale the listings are.  *)
(***************************************************************************)
EXTENDS SaveSync, FiniteSetTheorems, TLAPS

(* Generations the cloud has given out; a version has one content, so they *)
(* agree with what the cloud still holds.                                  *)
Given(games) == games \subseteq {x \in Generation : x.version <= top}
Agrees(games) == \A x \in games, y \in cloud : x.version = y.version => x = y

(* A listing may be as old as it likes, but never shows what was not so.   *)
Listings ==
    /\ IsFiniteSet(cloud) /\ Agrees(cloud)
    /\ \A d \in Device :
           /\ listing[d] # Unfetched => Given(listing[d]) /\ Agrees(listing[d])
           /\ fetched[d] # Unfetched => Given(fetched[d]) /\ Agrees(fetched[d])

(* What an operation carries from one of its steps to the next.            *)
JobAt(d) ==
    /\ job[d].version <= top
    /\ job[d].at = "package" => live[d] # 0
    /\ job[d].at \in {"confirm", "apply", "record"} => job[d].content # 0
    /\ job[d].at \in {"apply", "record"} =>
           \A x \in cloud : x.version = job[d].version => x.content = job[d].content
    /\ job[d].kind # "manual" /\ job[d].seen # 0 =>
           /\ job[d].at = "download" =>
                  \A x \in cloud : x.version = job[d].version =>
                      x.content > job[d].seen + Tolerance
           /\ job[d].at = "apply" => job[d].content > job[d].seen + Tolerance
Jobs == \A d \in Device : JobAt(d)

(* What is recorded as active is what the cloud holds under that number.   *)
Recorded ==
    \A d \in Device : ~mistaken[d] =>
        \A x \in cloud : x.version = active[d].version => x.content = active[d].mtime

Kept == SessionsAreKept /\ \A d \in Device : 0 \notin heads[d]

IInv == TypeOK /\ Listings /\ Jobs /\ Recorded /\ Kept

-----------------------------------------------------------------------------
(* Bounded sets of numbers have extreme elements.                          *)
LEMMA MinExists ==
    ASSUME NEW S \in SUBSET Nat, S # {}
    PROVE  \E m \in S : \A s \in S : m <= s
PROOF
<1> DEFINE Less == OpToRel(<, Nat)
<1>1. \A x, y \in Nat : x < y => <<x, y>> \in Less
  BY Zenon DEF OpToRel
<1>2. \E m \in S : \A y \in S : <<y, m>> \notin Less
  BY NatLessThanWellFounded, WFMin
<1> HIDE DEF Less
<1>3. \E m \in S : \A y \in S : ~(y < m)
  BY <1>1, <1>2, Zenon
<1> QED
  BY <1>3

LEMMA MaxExists ==
    ASSUME NEW S \in SUBSET Nat, S # {}, NEW n \in Nat, \A s \in S : s <= n
    PROVE  \E m \in S : \A s \in S : s <= m
PROOF
<1> DEFINE T == {n - s : s \in S}
<1>1. \A s \in S : n - s \in Nat
  OBVIOUS
<1>2. T \in SUBSET Nat /\ T # {}
  BY <1>1, Zenon
<1> HIDE DEF T
<1>3. PICK t \in T : \A u \in T : t <= u
  BY <1>2, MinExists
<1> USE DEF T
<1>4. PICK m \in S : t = n - m
  OBVIOUS
<1>5. \A s \in S : n - s \in T
  OBVIOUS
<1> QED
  BY <1>3, <1>4, <1>5

(* The newest generation of a listing is one of the listing.               *)
LEMMA NewestIsListed ==
    ASSUME MaxNow \in Nat, top \in Nat, NEW games, games # {}, Given(games)
    PROVE  Newest(games) \in games
PROOF
<1> USE DEF Given, Generation, Time
<1> DEFINE contents == {x.content : x \in games}
<1>1. contents \in SUBSET Nat /\ contents # {} /\ \A c \in contents : c <= MaxNow
  OBVIOUS
<1> HIDE DEF contents
<1>2. PICK c \in contents : \A b \in contents : b <= c
  BY <1>1, MaxExists
<1> USE DEF contents
<1>3. \A x \in games : x.content <= c /\ x.content \in Nat /\ x.version \in Nat
  BY <1>2
<1> DEFINE versions == {x.version : x \in {y \in games : y.content = c}}
<1>4. versions \in SUBSET Nat /\ versions # {} /\ \A v \in versions : v <= top
  OBVIOUS
<1> HIDE DEF versions
<1>5. PICK v \in versions : \A u \in versions : u <= v
  BY <1>4, MaxExists
<1> USE DEF versions
<1>6. PICK x \in games : x.content = c /\ x.version = v
  BY <1>5
<1>7. \A y \in games : y.content = c => y.version <= v
  BY <1>5
<1>8. \A y \in games : \/ x.content > y.content
                       \/ x.content = y.content /\ x.version >= y.version
  BY <1>1, <1>3, <1>6, <1>7
<1> QED
  BY <1>8 DEF Newest

(* Evicting the lowest numbers leaves no more than the cloud retains.      *)
LEMMA StoreFacts ==
    ASSUME SyncAssumption, TypeOK, Listings, NEW content \in Time \ {0}, Store(content)
    PROVE  LET new == [version |-> top + 1, content |-> content] IN
           /\ new \in Generation
           /\ cloud' \subseteq cloud \cup {new}
           /\ top' = top + 1
           /\ IsFiniteSet(cloud') /\ Cardinality(cloud') <= Retained
           /\ \A x, y \in cloud' : x.version = y.version => x = y
PROOF
<1> DEFINE new == [version |-> top + 1, content |-> content]
           all == cloud \cup {new}
           Above(x) == {y \in all : y.version > x.version}
<1> USE DEF TypeOK
<1>1. new \in Generation /\ top' = top + 1
      /\ cloud' = {x \in all : Cardinality(Above(x)) < Retained}
  BY DEF Generation, Store
<1>2. IsFiniteSet(all)
  BY FS_AddElement DEF Listings
<1>3. \A x \in all : x.version \in Nat
  BY <1>1 DEF Generation
<1>4. \A x, y \in all : x.version = y.version => x = y
  BY <1>1 DEF Listings, Agrees, Generation
<1>7. cloud' \subseteq all /\ \A x \in cloud' : x.version \in Nat
  BY <1>1, <1>3
<1>5. IsFiniteSet(cloud')
  BY <1>1, <1>2, FS_Subset
<1>6. Cardinality(cloud') <= Retained
  <2>1. CASE cloud' = {}
    BY <2>1, FS_EmptySet, SyncAssumption DEF SyncAssumption
  <2>2. CASE cloud' # {}
    <3> DEFINE versions == {x.version : x \in cloud'}
    <3>1. versions \in SUBSET Nat /\ versions # {}
      BY <1>7, <2>2
    <3> HIDE DEF versions
    <3>2. PICK v \in versions : \A u \in versions : v <= u
      BY <3>1, MinExists
    <3> USE DEF versions
    <3>3. PICK x \in cloud' : \A y \in cloud' : x.version <= y.version
      BY <3>2
    <3>4. cloud' \ {x} \subseteq Above(x)
      <4>1. ASSUME NEW y \in cloud' \ {x} PROVE y \in all /\ y.version > x.version
        <5>1. y.version # x.version
          BY <1>4, <1>7, <3>3
        <5>2. x.version <= y.version /\ x.version \in Nat /\ y.version \in Nat
          BY <1>7, <3>3
        <5>3. y.version > x.version
          BY ONLY <5>1, <5>2
        <5> QED
          BY <1>7, <5>3
      <4> QED
        BY <4>1
    <3>5. IsFiniteSet(Above(x)) /\ Cardinality(Above(x)) < Retained
      BY <1>1, <1>2, <3>3, FS_Subset
    <3>6. Cardinality(cloud' \ {x}) <= Cardinality(Above(x))
      BY <3>4, <3>5, FS_Subset
    <3>7. Cardinality(cloud' \ {x}) = Cardinality(cloud') - 1
      BY <1>5, <3>3, FS_RemoveElement
    <3>8. Cardinality(cloud') \in Nat /\ Cardinality(Above(x)) \in Nat /\ Retained \in Nat
      BY <1>5, <3>5, FS_CardinalityType, SyncAssumption DEF SyncAssumption
    <3> QED
      BY <3>5, <3>6, <3>7, <3>8
  <2> QED
    BY <2>1, <2>2
<1> QED
  BY <1>1, <1>4, <1>5, <1>6

(* What a check or an upload reads was given out and agrees with the cloud. *)
LEMMA ReadFacts ==
    ASSUME TypeOK, Listings, NEW d \in Device
    PROVE  Read(d) \in SUBSET Generation /\ Given(Read(d)) /\ Agrees(Read(d))
BY DEF TypeOK, Listings, Read, Given, Listing

(* A new generation disagrees with nothing that was listed before.         *)
LEMMA StoreAgrees ==
    ASSUME SyncAssumption, TypeOK, Listings, NEW content \in Time \ {0}, Store(content)
    PROVE  /\ Agrees(cloud)'
           /\ \A l \in SUBSET Generation :
                  Given(l) /\ Agrees(l) => Given(l)' /\ Agrees(l)'
PROOF
<1> DEFINE new == [version |-> top + 1, content |-> content]
<1>1. /\ cloud' \subseteq cloud \cup {new} /\ top' = top + 1 /\ top \in Nat
      /\ \A x, y \in cloud' : x.version = y.version => x = y
  BY StoreFacts DEF TypeOK
<1>2. ASSUME NEW l \in SUBSET Generation, Given(l), Agrees(l)
      PROVE  Given(l)' /\ Agrees(l)'
  <2>1. \A x \in l : x.version \in Nat /\ x.version <= top
    BY <1>2 DEF Given, Generation
  <2>2. \A x \in l : x.version <= top'
    BY <1>1, <2>1
  <2>3. \A x \in l : x.version # new.version
    BY <1>1, <2>1
  <2> QED
    BY <1>1, <1>2, <2>2, <2>3 DEF Given, Agrees
<1> QED
  BY <1>1, <1>2 DEF Agrees

(* What each answer of the comparison says of the two saves.               *)
LEMMA StatusFacts ==
    ASSUME SyncAssumption, TypeOK, NEW d \in Device, NEW games, Given(games)
    PROVE  /\ Status(d, games) \in {"local_newer", "in_sync"} => live[d] # 0
           /\ Status(d, games) \in {"in_sync", "cloud_newer", "cloud_only"} =>
                  games # {} /\ Newest(games) \in games
           /\ Status(d, games) = "cloud_only" => live[d] = 0
           /\ Status(d, games) = "cloud_newer" =>
                  Newest(games).content > live[d] + Tolerance
PROOF
<1>1. Tolerance \in Nat /\ MaxNow \in Nat /\ top \in Nat /\ live[d] \in Nat
  BY DEF SyncAssumption, TypeOK, Time
<1>2. games # {} => Newest(games) \in games /\ Newest(games).content \in Nat
  BY <1>1, NewestIsListed DEF Given, Generation, Time
<1> DEFINE n == Newest(games).content
<1>3. Status(d, games) \in {"in_sync", Decide(live[d], games)}
      /\ (Status(d, games) # Decide(live[d], games) => live[d] # 0 /\ games # {})
  BY DEF Status
<1>4. CASE live[d] # 0 /\ games # {}
  <2>1. Decide(live[d], games) = IF Near(live[d], n) THEN "in_sync"
                                 ELSE IF live[d] > n THEN "local_newer" ELSE "cloud_newer"
    BY <1>4 DEF Decide
  <2>2. Decide(live[d], games) = "cloud_newer" => n > live[d] + Tolerance
    BY <1>1, <1>2, <1>4, <2>1 DEF Near
  <2> HIDE DEF n
  <2> QED
    BY <1>2, <1>3, <1>4, <2>1, <2>2 DEF n
<1>5. CASE live[d] = 0 \/ games = {}
  <2>1. Decide(live[d], games) = IF live[d] = 0
                                 THEN IF games = {} THEN "no_saves" ELSE "cloud_only"
                                 ELSE "local_newer"
    BY <1>5 DEF Decide
  <2> QED
    BY <1>2, <1>3, <1>5, <2>1
<1> QED
  BY <1>4, <1>5

(* What the cloud holds once it has stored an upload.                      *)
LEMMA UploadFacts ==
    ASSUME SyncAssumption, IInv, NEW d \in Device, Confirm(d) \/ ConfirmLost(d)
    PROVE  /\ job[d].content \in Time \ {0} /\ Store(job[d].content)
           /\ top \in Nat /\ top' = top + 1
           /\ cloud' \subseteq Generation
           /\ \A x \in cloud' :
                  x \in cloud \/ (x.version = top + 1 /\ x.content = job[d].content)
           /\ IsFiniteSet(cloud') /\ Cardinality(cloud') <= Retained
PROOF
<1>1. job[d].content \in Time \ {0} /\ Store(job[d].content)
  BY DEF IInv, Confirm, ConfirmLost, TypeOK, Job, Jobs, JobAt
<1>2. TypeOK /\ Listings
  BY DEF IInv
<1> DEFINE new == [version |-> top + 1, content |-> job[d].content]
<1>3. /\ new \in Generation /\ cloud' \subseteq cloud \cup {new} /\ top' = top + 1
      /\ IsFiniteSet(cloud') /\ Cardinality(cloud') <= Retained
  BY <1>1, <1>2, StoreFacts
<1>4. new.version = top + 1 /\ new.content = job[d].content
  OBVIOUS
<1>5. cloud \subseteq Generation /\ top \in Nat
  BY <1>2 DEF TypeOK
<1> HIDE DEF new
<1> QED
  BY <1>1, <1>3, <1>4, <1>5

(* The records an operation is made of.                                    *)
LEMMA JobFacts ==
    ASSUME SyncAssumption
    PROVE  /\ Idle \in Job
           /\ \A kind \in Kind : [Idle EXCEPT !.at = "package", !.kind = kind] \in Job
           /\ \A kind \in Kind, v \in Nat, t \in Time :
                  [Idle EXCEPT !.at = "download", !.kind = kind, !.version = v, !.seen = t]
                      \in Job
           /\ \A j \in Job : [j EXCEPT !.at = "record"] \in Job
           /\ \A j \in Job, t \in Time : /\ [j EXCEPT !.at = "confirm", !.content = t] \in Job
                                       /\ [j EXCEPT !.at = "apply", !.content = t] \in Job
PROOF
<1>1. Idle \in Job
  BY DEF SyncAssumption, Idle, Job, Kind, Time
<1> QED
  BY <1>1 DEF Job

(* No step loses a session.                                                *)
LEMMA KeptStep ==
    ASSUME SyncAssumption, IInv, [Next]_vars
    PROVE  Kept'
PROOF
<1> USE SyncAssumption DEF SyncAssumption, IInv, history, TypeOK, Kept,
        SessionsAreKept, Jobs, JobAt
<1>1. ASSUME NEW d \in Device, NEW kind \in Kind, Check(d, kind) PROVE Kept'
    BY <1>1 DEF Check, StartUpload, StartRestore
<1>2. ASSUME NEW d \in Device, Package(d) PROVE Kept'
    BY <1>2 DEF Package, Activate, MarkPlayed, Invalidate, Finish
<1>3. ASSUME NEW d \in Device, Confirm(d) PROVE Kept'
    BY <1>3 DEF Confirm, Activate, MarkPlayed, Invalidate, Finish
<1>4. ASSUME NEW d \in Device, Download(d) PROVE Kept'
    BY <1>4 DEF Download, Finish
<1>5. ASSUME NEW d \in Device, Apply(d) PROVE Kept'
    BY <1>5 DEF Apply
<1>6. ASSUME NEW d \in Device, Record(d) PROVE Kept'
    BY <1>6 DEF Record, Activate, MarkPlayed, Invalidate, Finish
<1>7. ASSUME NEW d \in Device, Play(d) PROVE Kept'
  <2>1. PICK later \in 1..(Tolerance + 1) :
            /\ now + later <= MaxNow
            /\ live' = [live EXCEPT ![d] = now + later]
            /\ heads' = [heads EXCEPT ![d] = (@ \ {live[d]}) \union {now + later}]
    BY <1>7 DEF Play
  <2>2. now + later # 0
    BY DEF Time
  <2> QED
    BY <1>7, <2>1, <2>2 DEF Play
<1>8. ASSUME NEW d \in Device, Choose(d) PROVE Kept'
    BY <1>8 DEF Choose, Surprise, StartUpload, StartRestore
<1>9. ASSUME NEW d \in Device, Expire(d) PROVE Kept'
    BY <1>9 DEF Expire, Invalidate
<1>10. ASSUME NEW d \in Device, FetchSnapshot(d) PROVE Kept'
    BY <1>10 DEF FetchSnapshot, Surprise
<1>11. ASSUME NEW d \in Device, AdoptListing(d) PROVE Kept'
    BY <1>11 DEF AdoptListing
<1>12. ASSUME NEW d \in Device, Fails(d) PROVE Kept'
    BY <1>12 DEF Fails, Surprise, Finish
<1>13. ASSUME NEW d \in Device, ConfirmLost(d) PROVE Kept'
    BY <1>13 DEF ConfirmLost, Surprise, Finish
<1>14. CASE UNCHANGED vars
    BY <1>14 DEF vars, history
<1> QED
    BY <1>1, <1>2, <1>3, <1>4, <1>5, <1>6, <1>7, <1>8, <1>9, <1>10, <1>11, <1>12,
       <1>13, <1>14 DEF Next, Work, Kind

(* No step shows in a listing what the cloud never held.                   *)
LEMMA ListingsStep ==
    ASSUME SyncAssumption, IInv, [Next]_vars
    PROVE  Listings'
PROOF
<1> USE SyncAssumption DEF SyncAssumption, IInv, history
<1>1. ASSUME NEW d \in Device, NEW kind \in Kind, Check(d, kind) PROVE Listings'
    BY <1>1, ReadFacts DEF Check, StartUpload, StartRestore, TypeOK, Listings,
       Given, Agrees, Listing
<1>2. ASSUME NEW d \in Device, Package(d) PROVE Listings'
    BY <1>2, ReadFacts, SMTT(30) DEF Package, Activate, MarkPlayed, Invalidate,
       Finish, TypeOK, Listings, Given, Agrees, Listing
<1>3. ASSUME NEW d \in Device, Confirm(d) PROVE Listings'
  <2>1. job[d].content \in Time \ {0} /\ Store(job[d].content)
    BY <1>3 DEF Confirm, TypeOK, Job, Jobs, JobAt
  <2>2. Listings
    OBVIOUS
  <2>3. IsFiniteSet(cloud') /\ Agrees(cloud)'
    BY <2>1, StoreFacts, StoreAgrees
  <2>4. \A l \in SUBSET Generation : Given(l) /\ Agrees(l) => Given(l)' /\ Agrees(l)'
    BY <2>1, StoreAgrees
  <2>5. \A e \in Device : /\ listing'[e] \in {listing[e], Unfetched}
                         /\ fetched'[e] = fetched[e]
    BY <1>3 DEF Confirm, TypeOK, Invalidate
  <2>6. \A e \in Device : /\ listing[e] # Unfetched => listing[e] \in SUBSET Generation
                         /\ fetched[e] # Unfetched => fetched[e] \in SUBSET Generation
    <3>1. \A e \in Device : listing[e] \in Listing /\ fetched[e] \in Listing
      BY DEF TypeOK
    <3> QED
      BY <3>1 DEF Listing
  <2> QED
    BY <2>2, <2>3, <2>4, <2>5, <2>6, SMTT(30) DEF Listings, Given, Agrees
<1>4. ASSUME NEW d \in Device, Download(d) PROVE Listings'
    BY <1>4, SMTT(30) DEF Download, Finish, TypeOK, Listings, Given, Agrees, Listing
<1>5. ASSUME NEW d \in Device, Apply(d) PROVE Listings'
    BY <1>5 DEF Apply, TypeOK, Listings, Given, Agrees, Listing
<1>6. ASSUME NEW d \in Device, Record(d) PROVE Listings'
    BY <1>6 DEF Record, Activate, MarkPlayed, Invalidate, Finish, TypeOK,
       Listings, Given, Agrees, Listing
<1>7. ASSUME NEW d \in Device, Play(d) PROVE Listings'
    BY <1>7 DEF Play, TypeOK, Listings, Given, Agrees, Listing
<1>8. ASSUME NEW d \in Device, Choose(d) PROVE Listings'
  <2>1. listing' = [listing EXCEPT ![d] = Read(d)] /\ UNCHANGED <<cloud, top, fetched>>
    BY <1>8 DEF Choose
  <2> QED
    BY <2>1, ReadFacts DEF TypeOK, Listings, Given, Agrees, Listing
<1>9. ASSUME NEW d \in Device, Expire(d) PROVE Listings'
    BY <1>9 DEF Expire, Invalidate, TypeOK, Listings, Given, Agrees, Listing
<1>10. ASSUME NEW d \in Device, FetchSnapshot(d) PROVE Listings'
    BY <1>10 DEF FetchSnapshot, Surprise, TypeOK, Listings, Given, Agrees, Listing
<1>11. ASSUME NEW d \in Device, AdoptListing(d) PROVE Listings'
    BY <1>11 DEF AdoptListing, TypeOK, Listings, Given, Agrees, Listing
<1>12. ASSUME NEW d \in Device, Fails(d) PROVE Listings'
    BY <1>12 DEF Fails, Surprise, Finish, TypeOK, Listings, Given, Agrees, Listing
<1>13. ASSUME NEW d \in Device, ConfirmLost(d) PROVE Listings'
  <2>1. job[d].content \in Time \ {0} /\ Store(job[d].content)
    BY <1>13 DEF ConfirmLost, TypeOK, Job, Jobs, JobAt
  <2>2. Listings
    OBVIOUS
  <2>3. IsFiniteSet(cloud') /\ Agrees(cloud)'
    BY <2>1, StoreFacts, StoreAgrees
  <2>4. \A l \in SUBSET Generation : Given(l) /\ Agrees(l) => Given(l)' /\ Agrees(l)'
    BY <2>1, StoreAgrees
  <2>5. \A e \in Device : /\ listing'[e] \in {listing[e], Unfetched}
                         /\ fetched'[e] = fetched[e]
    BY <1>13 DEF ConfirmLost, TypeOK, Invalidate
  <2>6. \A e \in Device : /\ listing[e] # Unfetched => listing[e] \in SUBSET Generation
                         /\ fetched[e] # Unfetched => fetched[e] \in SUBSET Generation
    <3>1. \A e \in Device : listing[e] \in Listing /\ fetched[e] \in Listing
      BY DEF TypeOK
    <3> QED
      BY <3>1 DEF Listing
  <2> QED
    BY <2>2, <2>3, <2>4, <2>5, <2>6, SMTT(30) DEF Listings, Given, Agrees
<1>14. CASE UNCHANGED vars
    BY <1>14, SMTT(30) DEF vars, history, Listings, Given, Agrees
<1> QED
    BY <1>1, <1>2, <1>3, <1>4, <1>5, <1>6, <1>7, <1>8, <1>9, <1>10, <1>11, <1>12,
       <1>13, <1>14 DEF Next, Work, Kind

(* Every step keeps what the operations carry.                            *)
LEMMA JobsStep ==
    ASSUME SyncAssumption, IInv, [Next]_vars
    PROVE  Jobs'
PROOF
<1>0. ASSUME NEW d \in Device, Confirm(d) \/ ConfirmLost(d)
      PROVE  /\ top' = top + 1 /\ top \in Nat
             /\ \A x \in cloud' : x \in cloud \/ x.version = top + 1
  BY <1>0, UploadFacts
<1> USE SyncAssumption DEF SyncAssumption, IInv, history, TypeOK, Jobs, JobAt
<1>1. ASSUME NEW d \in Device, NEW kind \in Kind, Check(d, kind) PROVE Jobs'
  <2>1. Given(Read(d)) /\ Agrees(Read(d))
    BY ReadFacts
  <2>2. /\ UNCHANGED <<live, cloud, top>>
        /\ \/ job' = job
           \/ Status(d, Read(d)) \in {"local_newer", "in_sync"} /\ StartUpload(d, kind)
           \/ /\ Status(d, Read(d)) \in {"cloud_newer", "cloud_only"}
              /\ StartRestore(d, kind, Newest(Read(d)).version)
    BY <1>1 DEF Check
  <2>3. CASE Status(d, Read(d)) \in {"local_newer", "in_sync"} /\ StartUpload(d, kind)
    BY <2>1, <2>2, <2>3, StatusFacts DEF StartUpload, Idle
  <2>4. CASE /\ Status(d, Read(d)) \in {"cloud_newer", "cloud_only"}
             /\ StartRestore(d, kind, Newest(Read(d)).version)
    <3> DEFINE n == Newest(Read(d))
    <3>1. /\ n \in Generation /\ n.version <= top
          /\ live[d] # 0 => n.content > live[d] + Tolerance
          /\ \A x \in cloud : x.version = n.version => x = n
      BY <2>1, <2>4, StatusFacts DEF Given, Agrees
    <3>2. job' = [job EXCEPT ![d] = [Idle EXCEPT !.at = "download", !.kind = kind,
                                     !.version = n.version, !.seen = live[d]]]
      BY <2>4 DEF StartRestore
    <3> HIDE DEF n
    <3> QED
      BY <2>2, <3>1, <3>2 DEF Idle
  <2>5. CASE job' = job
    BY <2>2, <2>5
  <2> QED
    BY <2>2, <2>3, <2>4, <2>5
<1>2. ASSUME NEW d \in Device, Package(d) PROVE Jobs'
  <2>1. UNCHANGED <<live, cloud, top>> /\ live[d] # 0
    BY <1>2 DEF Package
  <2>2. CASE Finish(d)
    BY <2>1, <2>2 DEF Finish, Idle
  <2>3. CASE job' = [job EXCEPT ![d].at = "confirm", ![d].content = live[d]]
    BY <1>2, <2>1, <2>3 DEF Package
  <2> QED
    BY <1>2, <2>2, <2>3 DEF Package
<1>3. ASSUME NEW d \in Device, Confirm(d) PROVE Jobs'
  <2>2. /\ top' = top + 1 /\ top \in Nat
        /\ \A x \in cloud' : x \in cloud \/ x.version = top + 1
    BY <1>3, <1>0
  <2>3. ASSUME NEW e \in Device PROVE JobAt(e)'
    <3>1. job[e].version \in Nat /\ job[e].version # top + 1
      BY <2>2 DEF Job
    <3>2. CASE e = d
      BY <1>3, <2>2, <3>2 DEF Confirm, Finish, Idle
    <3>3. CASE e # d
      BY <1>3, <2>2, <3>1, <3>3 DEF Confirm, Finish
    <3> QED
      BY <3>2, <3>3
  <2> QED
    BY <2>3
<1>4. ASSUME NEW d \in Device, Download(d) PROVE Jobs'
  <2>1. UNCHANGED <<live, cloud, top>>
    BY <1>4 DEF Download
  <2>2. CASE Finish(d)
    BY <2>1, <2>2 DEF Finish, Idle
  <2>3. ASSUME NEW x \in cloud, x.version = job[d].version,
               job' = [job EXCEPT ![d].at = "apply", ![d].content = x.content]
        PROVE  Jobs'
    <3>1. x.content # 0 /\ \A y \in cloud : y.version = x.version => y = x
      BY DEF Listings, Agrees, Generation
    <3>2. ASSUME NEW e \in Device PROVE JobAt(e)'
      <4>1. CASE e = d
        <5>1. /\ job'[d].at = "apply" /\ job'[d].content = x.content
              /\ job'[d].version = job[d].version
              /\ job'[d].kind = job[d].kind /\ job'[d].seen = job[d].seen
          BY <2>3 DEF Job
        <5>2. /\ x.content # 0 /\ job[d].version <= top
              /\ job[d].kind # "manual" /\ job[d].seen # 0 =>
                     x.content > job[d].seen + Tolerance
          BY <1>4, <2>3, <3>1 DEF Download
        <5> QED
          BY <2>1, <2>3, <3>1, <4>1, <5>1, <5>2
      <4>2. CASE e # d
        BY <2>1, <2>3, <4>2
      <4> QED
        BY <4>1, <4>2
    <3> QED
      BY <3>2
  <2> QED
    BY <1>4, <2>2, <2>3 DEF Download
<1>5. ASSUME NEW d \in Device, Apply(d) PROVE Jobs'
    BY <1>5 DEF Apply
<1>6. ASSUME NEW d \in Device, Record(d) PROVE Jobs'
    BY <1>6 DEF Record, Finish, Idle
<1>7. ASSUME NEW d \in Device, Play(d) PROVE Jobs'
    BY <1>7 DEF Play, Time
<1>8. ASSUME NEW d \in Device, Choose(d) PROVE Jobs'
  <2>1. UNCHANGED <<live, cloud, top>>
    BY <1>8 DEF Choose
  <2>2. CASE live[d] # 0 /\ StartUpload(d, "manual")
    BY <2>1, <2>2 DEF StartUpload, Idle
  <2>3. ASSUME NEW x \in Read(d), StartRestore(d, "manual", x.version)
        PROVE  Jobs'
    <3>1. x.version \in Nat /\ x.version <= top
      BY ReadFacts DEF Given, Generation
    <3> QED
      BY <2>1, <2>3, <3>1 DEF StartRestore, Idle
  <2> QED
    BY <1>8, <2>2, <2>3 DEF Choose
<1>9. ASSUME NEW d \in Device, Expire(d) PROVE Jobs'
    BY <1>9 DEF Expire, Invalidate
<1>10. ASSUME NEW d \in Device, FetchSnapshot(d) PROVE Jobs'
    BY <1>10 DEF FetchSnapshot, Surprise
<1>11. ASSUME NEW d \in Device, AdoptListing(d) PROVE Jobs'
    BY <1>11 DEF AdoptListing
<1>12. ASSUME NEW d \in Device, Fails(d) PROVE Jobs'
    BY <1>12 DEF Fails, Surprise, Finish, Idle
<1>13. ASSUME NEW d \in Device, ConfirmLost(d) PROVE Jobs'
  <2>2. /\ top' = top + 1 /\ top \in Nat
        /\ \A x \in cloud' : x \in cloud \/ x.version = top + 1
    BY <1>13, <1>0
  <2>3. ASSUME NEW e \in Device PROVE JobAt(e)'
    <3>1. job[e].version \in Nat /\ job[e].version # top + 1
      BY <2>2 DEF Job
    <3>2. CASE e = d
      BY <1>13, <2>2, <3>2 DEF ConfirmLost, Finish, Idle
    <3>3. CASE e # d
      BY <1>13, <2>2, <3>1, <3>3 DEF ConfirmLost, Finish
    <3> QED
      BY <3>2, <3>3
  <2> QED
    BY <2>3
<1>14. CASE UNCHANGED vars
    BY <1>14 DEF vars, history
<1> QED
    BY <1>1, <1>2, <1>3, <1>4, <1>5, <1>6, <1>7, <1>8, <1>9, <1>10, <1>11, <1>12,
       <1>13, <1>14 DEF Next, Work, Kind

(* Every step that records a version records what it holds.               *)
LEMMA RecordedStep ==
    ASSUME SyncAssumption, IInv, [Next]_vars
    PROVE  Recorded'
PROOF
<1>0. TypeOK /\ Listings /\ Jobs /\ Recorded
  BY DEF IInv
<1> USE SyncAssumption, <1>0 DEF history, Recorded
<1>1. ASSUME NEW d \in Device, NEW kind \in Kind, Check(d, kind) PROVE Recorded'
    BY <1>1 DEF Check
<1>2. ASSUME NEW d \in Device, Package(d) PROVE Recorded'
  <2>1. UNCHANGED cloud
    BY <1>2 DEF Package
  <2>2. ASSUME NEW x \in Read(d), x.content = live[d], Activate(d, x.version, live[d]),
               MarkPlayed(d, FALSE)
        PROVE  Recorded'
    <3>1. \A y \in cloud : y.version = x.version => y.content = live[d]
      BY <2>2, ReadFacts DEF Agrees
    <3> QED
      BY <2>1, <2>2, <3>1 DEF Activate, MarkPlayed, TypeOK
  <2> QED
    BY <1>2, <2>1, <2>2 DEF Package
<1>3. ASSUME NEW d \in Device, Confirm(d) PROVE Recorded'
  <2>1. /\ top \in Nat /\ \A e \in Device : active[e].version \in Nat /\ active[e].version <= top
        /\ \A x \in cloud : x.version \in Nat /\ x.version <= top
    BY DEF TypeOK, Generation
  <2>2. /\ top' = top + 1
        /\ \A x \in cloud' :
               x \in cloud \/ (x.version = top + 1 /\ x.content = job[d].content)
    BY <1>3, UploadFacts
  <2>3. ASSUME NEW e \in Device, ~mistaken'[e], NEW x \in cloud',
               x.version = active'[e].version
        PROVE  x.content = active'[e].mtime
    <3>1. CASE e = d
      <4>1. active'[e] = [version |-> top + 1, mtime |-> job[d].content]
        BY <1>3, <3>1 DEF Confirm, Activate, TypeOK
      <4> QED
        BY <2>1, <2>2, <2>3, <4>1
    <3>2. CASE e # d
      <4>1. active'[e] = active[e] /\ mistaken'[e] = mistaken[e]
        BY <1>3, <3>2 DEF Confirm, Activate, MarkPlayed, TypeOK
      <4>2. x \in cloud
        BY <2>1, <2>2, <2>3, <4>1
      <4> QED
        BY <2>3, <4>1, <4>2
    <3> QED
      BY <3>1, <3>2
  <2> QED
    BY <2>3
<1>4. ASSUME NEW d \in Device, Download(d) PROVE Recorded'
    BY <1>4 DEF Download
<1>5. ASSUME NEW d \in Device, Apply(d) PROVE Recorded'
    BY <1>5 DEF Apply
<1>6. ASSUME NEW d \in Device, Record(d) PROVE Recorded'
  <2>1. \A x \in cloud : x.version = job[d].version => x.content = job[d].content
    BY <1>6 DEF Record, Jobs, JobAt
  <2> QED
    BY <1>6, <2>1 DEF Record, Activate, MarkPlayed, TypeOK
<1>7. ASSUME NEW d \in Device, Play(d) PROVE Recorded'
    BY <1>7 DEF Play
<1>8. ASSUME NEW d \in Device, Choose(d) PROVE Recorded'
    BY <1>8 DEF Choose
<1>9. ASSUME NEW d \in Device, Expire(d) PROVE Recorded'
    BY <1>9 DEF Expire
<1>10. ASSUME NEW d \in Device, FetchSnapshot(d) PROVE Recorded'
    BY <1>10 DEF FetchSnapshot
<1>11. ASSUME NEW d \in Device, AdoptListing(d) PROVE Recorded'
    BY <1>11 DEF AdoptListing
<1>12. ASSUME NEW d \in Device, Fails(d) PROVE Recorded'
    BY <1>12 DEF Fails
<1>13. ASSUME NEW d \in Device, ConfirmLost(d) PROVE Recorded'
  <2>1. top \in Nat /\ \A e \in Device : active[e].version \in Nat /\ active[e].version <= top
    BY DEF TypeOK
  <2>2. \A x \in cloud' : x \in cloud \/ x.version = top + 1
    BY <1>13, UploadFacts
  <2> QED
    BY <1>13, <2>1, <2>2 DEF ConfirmLost
<1>14. CASE UNCHANGED vars
    BY <1>14 DEF vars, history
<1> QED
    BY <1>1, <1>2, <1>3, <1>4, <1>5, <1>6, <1>7, <1>8, <1>9, <1>10, <1>11, <1>12,
       <1>13, <1>14 DEF Next, Work, Kind

(* Every step keeps the types.                                             *)
LEMMA TypeStep ==
    ASSUME SyncAssumption, IInv, [Next]_vars
    PROVE  TypeOK'
PROOF
<1>0. TypeOK /\ Listings /\ Jobs
  BY DEF IInv
<1>a. \A d \in Device : Read(d) \in Listing /\ \A x \in Read(d) : x.version \in 0..top
  <2> SUFFICES ASSUME NEW d \in Device
               PROVE  Read(d) \in Listing /\ \A x \in Read(d) : x.version \in 0..top
    OBVIOUS
  <2>1. Read(d) \in SUBSET Generation /\ Given(Read(d))
    BY <1>0, ReadFacts
  <2> QED
    BY <2>1 DEF Given, Generation, Listing
<1>b. Unfetched \in Listing /\ cloud \in Listing
  BY <1>0 DEF TypeOK, Listing
<1>c. Idle \in Job
  BY <1>0, SyncAssumption DEF Idle, Job, Kind, Time, SyncAssumption
<1> USE SyncAssumption, <1>0, <1>a, <1>b, <1>c DEF history, TypeOK
<1>1. ASSUME NEW d \in Device, NEW kind \in Kind, Check(d, kind) PROVE TypeOK'
  <2>1. UNCHANGED <<now, live, active, forks, cloud, top, fetched, surprises, history>>
        /\ listing' \in [Device -> Listing]
    BY <1>1 DEF Check
  <2>2. CASE StartUpload(d, kind)
    <3>1. [Idle EXCEPT !.at = "package", !.kind = kind] \in Job
      BY JobFacts
    <3> QED
      BY <2>1, <2>2, <3>1 DEF StartUpload
  <2>3. CASE /\ Status(d, Read(d)) \in {"cloud_newer", "cloud_only"}
             /\ StartRestore(d, kind, Newest(Read(d)).version)
    <3>1. Newest(Read(d)).version \in Nat
      BY <2>3, <1>a, <1>0, ReadFacts, StatusFacts
    <3>2. [Idle EXCEPT !.at = "download", !.kind = kind,
                       !.version = Newest(Read(d)).version, !.seen = live[d]] \in Job
      BY <3>1, JobFacts
    <3> QED
      BY <2>1, <2>3, <3>2 DEF StartRestore
  <2>4. CASE job' = job
    BY <2>1, <2>4
  <2> QED
    BY <1>1, <2>2, <2>3, <2>4 DEF Check
<1>2. ASSUME NEW d \in Device, Package(d) PROVE TypeOK'
  <2>1. UNCHANGED <<now, live, forks, cloud, top, fetched, surprises, heads, chosen>>
    BY <1>2 DEF Package
  <2>2. ASSUME NEW x \in Read(d), Activate(d, x.version, live[d]), MarkPlayed(d, FALSE),
               Invalidate(d), Finish(d)
        PROVE  TypeOK'
    <3>1. x.version \in 0..top
      BY <1>a
    <3> QED
      BY <2>1, <2>2, <3>1 DEF Activate, MarkPlayed, Invalidate, Finish
  <2>3. CASE /\ listing' = [listing EXCEPT ![d] = Read(d)]
             /\ job' = [job EXCEPT ![d].at = "confirm", ![d].content = live[d]]
             /\ UNCHANGED <<active, mistaken>>
    <3>1. [job[d] EXCEPT !.at = "confirm", !.content = live[d]] \in Job
      BY JobFacts
    <3>2. job' = [job EXCEPT ![d] = [job[d] EXCEPT !.at = "confirm", !.content = live[d]]]
      BY <2>3
    <3> QED
      BY <2>1, <2>3, <3>1, <3>2
  <2> QED
    BY <1>2, <2>2, <2>3 DEF Package
<1>3. ASSUME NEW d \in Device, Confirm(d) PROVE TypeOK'
  <2>1. /\ job[d].content \in Time /\ top \in Nat /\ top' = top + 1
        /\ cloud' \subseteq Generation /\ Cardinality(cloud') <= Retained
        /\ \A x \in cloud' :
               x \in cloud \/ (x.version = top + 1 /\ x.content = job[d].content)
    BY <1>3, UploadFacts
  <2>2. \A x \in cloud' : x.version <= top'
    <3>1. \A x \in cloud : x.version \in Nat /\ x.version <= top
      BY DEF Generation
    <3> QED
      BY <2>1, <3>1
  <2>3. active' \in [Device -> [version : 0..top', mtime : Time]]
    BY <1>3, <2>1 DEF Confirm, Activate
  <2>4. /\ listing' \in [Device -> Listing] /\ job' \in [Device -> Job]
        /\ mistaken' \in [Device -> BOOLEAN]
    BY <1>3 DEF Confirm, MarkPlayed, Invalidate, Finish
  <2> QED
    BY <1>3, <2>1, <2>2, <2>3, <2>4 DEF Confirm
<1>4. ASSUME NEW d \in Device, Download(d) PROVE TypeOK'
  <2>1. UNCHANGED <<now, live, active, forks, cloud, top, listing, fetched, surprises,
                    history>>
    BY <1>4 DEF Download
  <2>2. CASE Finish(d)
    BY <2>1, <2>2 DEF Finish
  <2>3. ASSUME NEW x \in cloud,
               job' = [job EXCEPT ![d].at = "apply", ![d].content = x.content]
        PROVE  TypeOK'
    <3>1. [job[d] EXCEPT !.at = "apply", !.content = x.content] \in Job
      BY JobFacts DEF Generation
    <3>2. job' = [job EXCEPT ![d] = [job[d] EXCEPT !.at = "apply", !.content = x.content]]
      BY <2>3
    <3> QED
      BY <2>1, <3>1, <3>2
  <2> QED
    BY <1>4, <2>2, <2>3 DEF Download
<1>5. ASSUME NEW d \in Device, Apply(d) PROVE TypeOK'
  <2>1. [job[d] EXCEPT !.at = "record"] \in Job
    BY JobFacts
  <2>2. job' = [job EXCEPT ![d] = [job[d] EXCEPT !.at = "record"]]
    BY <1>5 DEF Apply
  <2>3. job[d].content \in Time
    BY DEF Job
  <2> QED
    BY <1>5, <2>1, <2>2, <2>3 DEF Apply
<1>6. ASSUME NEW d \in Device, Record(d) PROVE TypeOK'
  <2>1. job[d].version \in 0..top
    BY <1>0 DEF Jobs, JobAt, Job
  <2> QED
    BY <1>6, <2>1 DEF Record, Activate, MarkPlayed, Invalidate, Finish
<1>7. ASSUME NEW d \in Device, Play(d) PROVE TypeOK'
    BY <1>7 DEF Play, Time
<1>8. ASSUME NEW d \in Device, Choose(d) PROVE TypeOK'
  <2>1. UNCHANGED <<now, live, active, forks, cloud, top, fetched, heads, mistaken>>
        /\ listing' \in [Device -> Listing] /\ chosen' \in [Device -> Time]
        /\ surprises' \in 0..MaxSurprises
    BY <1>8 DEF Choose, Surprise, Time, SyncAssumption
  <2>2. CASE StartUpload(d, "manual")
    <3>1. [Idle EXCEPT !.at = "package", !.kind = "manual"] \in Job
      BY JobFacts DEF Kind
    <3> QED
      BY <2>1, <2>2, <3>1 DEF StartUpload
  <2>3. ASSUME NEW x \in Read(d), StartRestore(d, "manual", x.version)
        PROVE  TypeOK'
    <3>1. x.version \in Nat
      BY <1>a
    <3>2. [Idle EXCEPT !.at = "download", !.kind = "manual",
                       !.version = x.version, !.seen = live[d]] \in Job
      BY <3>1, JobFacts DEF Kind
    <3> QED
      BY <2>1, <2>3, <3>2 DEF StartRestore
  <2> QED
    BY <1>8, <2>2, <2>3 DEF Choose
<1>9. ASSUME NEW d \in Device, Expire(d) PROVE TypeOK'
    BY <1>9 DEF Expire, Invalidate
<1>10. ASSUME NEW d \in Device, FetchSnapshot(d) PROVE TypeOK'
    BY <1>10 DEF FetchSnapshot, Surprise
<1>11. ASSUME NEW d \in Device, AdoptListing(d) PROVE TypeOK'
    BY <1>11 DEF AdoptListing
<1>12. ASSUME NEW d \in Device, Fails(d) PROVE TypeOK'
    BY <1>12 DEF Fails, Surprise, Finish
<1>13. ASSUME NEW d \in Device, ConfirmLost(d) PROVE TypeOK'
  <2>1. /\ job[d].content \in Time /\ top \in Nat /\ top' = top + 1
        /\ cloud' \subseteq Generation /\ Cardinality(cloud') <= Retained
        /\ \A x \in cloud' :
               x \in cloud \/ (x.version = top + 1 /\ x.content = job[d].content)
    BY <1>13, UploadFacts
  <2>2. \A x \in cloud' : x.version <= top'
    <3>1. \A x \in cloud : x.version \in Nat /\ x.version <= top
      BY DEF Generation
    <3> QED
      BY <2>1, <3>1
  <2>3. active' \in [Device -> [version : 0..top', mtime : Time]]
    BY <1>13, <2>1 DEF ConfirmLost
  <2> QED
    BY <1>13, <2>1, <2>2, <2>3 DEF ConfirmLost, Surprise, Finish, SyncAssumption
<1>14. CASE UNCHANGED vars
    BY <1>14 DEF vars, history
<1> QED
    BY <1>1, <1>2, <1>3, <1>4, <1>5, <1>6, <1>7, <1>8, <1>9, <1>10, <1>11, <1>12,
       <1>13, <1>14 DEF Next, Work, Kind

(* A restore nobody asked for writes a newer save over the one it checked. *)
Replaces(e) ==
    /\ job[e].at = "apply" /\ job'[e].at = "record" /\ live'[e] # live[e]
    /\ job[e].kind # "manual" /\ live[e] \in {job[e].seen} \ {0}

LEMMA ReplaceStep ==
    ASSUME SyncAssumption, IInv, [Next]_vars, NEW e \in Device, Replaces(e)
    PROVE  live'[e] > live[e] + Tolerance
PROOF
<1>1. /\ job[e].content > live[e] + Tolerance
      /\ job[e].at = "apply" /\ job'[e].at = "record" /\ live'[e] # live[e]
  BY DEF IInv, Jobs, JobAt, Replaces
<1>2. job \in [Device -> Job] /\ live \in [Device -> Time]
  BY DEF IInv, TypeOK
<1> SUFFICES live'[e] = job[e].content
  BY <1>1
<1>3. PICK d \in Device :
          \/ Check(d, "routine") \/ Check(d, "exit") \/ Work(d)
          \/ Play(d) \/ Choose(d) \/ Expire(d)
          \/ FetchSnapshot(d) \/ AdoptListing(d) \/ Fails(d) \/ ConfirmLost(d)
  BY <1>1 DEF Next, vars
<1>4. CASE Apply(d)
  BY <1>1, <1>2, <1>4 DEF Apply
<1>5. CASE Play(d)
  BY <1>1, <1>2, <1>5 DEF Play
<1>6. CASE ~Apply(d) /\ ~Play(d)
  <2>1. live' = live
    BY <1>3, <1>6 DEF Work, Check, Package, Confirm, Download, Record, Choose,
       Expire,
       FetchSnapshot, AdoptListing, Fails, ConfirmLost
  <2> QED
    BY <1>1, <2>1
<1> QED
  BY <1>4, <1>5, <1>6

-----------------------------------------------------------------------------
(* The inductive invariant holds throughout.                               *)
THEOREM Inductive == Spec => []IInv
PROOF
<1>1. Init => IInv
  <2> SUFFICES ASSUME Init PROVE IInv
    OBVIOUS
  <2> USE SyncAssumption DEF Init, SyncAssumption
  <2>1. IsFiniteSet(cloud) /\ Cardinality(cloud) = 0
    BY FS_EmptySet
  <2>2. Idle \in Job
    BY JobFacts
  <2>3. TypeOK
    BY <2>1, <2>2 DEF TypeOK, Time, Listing, Generation
  <2>4. Listings
    BY <2>1 DEF Listings, Agrees
  <2>5. Jobs
    BY DEF Jobs, JobAt, Idle
  <2> QED
    BY <2>3, <2>4, <2>5 DEF IInv, Recorded, Kept, SessionsAreKept
<1>2. IInv /\ [Next]_vars => IInv'
  BY SyncAssumption, TypeStep, ListingsStep, JobsStep, RecordedStep, KeptStep DEF
     IInv
<1> QED
  BY <1>1, <1>2, PTL DEF Spec

(* Every variable keeps its type, and the cloud no more than it retains.   *)
THEOREM TypeInvariant == Spec => []TypeOK
BY Inductive, PTL DEF IInv

(* What was played on a device and not played on from there is in its files *)
(* or among its safety forks (sync_cloud_to_local).                         *)
THEOREM SessionsKept == Spec => []SessionsAreKept
BY Inductive, PTL DEF IInv, Kept

(* check_sync_status, told the truth about the cloud, never calls a save in *)
(* sync that is not near the newest one, unless the game wrote between a    *)
(* restore and its record.                                                  *)
THEOREM InSyncIsTrue == Spec => []InSyncIsNear
PROOF
<1>1. IInv => InSyncIsNear
  <2> SUFFICES ASSUME IInv, NEW d \in Device, cloud # {}, Status(d, cloud) = "in_sync",
                      ~Mistaken(d)
               PROVE  Near(live[d], Newest(cloud).content)
    BY DEF InSyncIsNear
  <2>1. Given(cloud) /\ MaxNow \in Nat /\ top \in Nat
    BY SyncAssumption DEF IInv, TypeOK, Given, SyncAssumption
  <2>2. Newest(cloud) \in cloud
    BY <2>1, NewestIsListed
  <2>3. CASE Newest(cloud).version = active[d].version /\ Near(live[d], active[d].mtime)
    BY <2>2, <2>3 DEF IInv, Recorded, Mistaken
  <2>4. CASE Decide(live[d], cloud) = "in_sync"
    <3>1. live[d] # 0
      BY <2>4 DEF Decide
    <3>2. Decide(live[d], cloud) = IF Near(live[d], Newest(cloud).content) THEN "in_sync"
                                   ELSE IF live[d] > Newest(cloud).content
                                   THEN "local_newer" ELSE "cloud_newer"
      BY <3>1 DEF Decide
    <3> QED
      BY <2>4, <3>2
  <2> QED
    BY <2>3, <2>4 DEF Status
<1> QED
  BY <1>1, Inductive, PTL

(* An automatic restore replaces the save it checked only by one written   *)
(* later, however stale the listing it was decided on.                     *)
THEOREM NewerReplaces == Spec => NewerReplacesOlder
PROOF
<1>1. IInv /\ [Next]_vars =>
          [\A d \in Device : Replaces(d) => live'[d] > live[d] + Tolerance]_vars
  BY SyncAssumption, ReplaceStep
<1>2. [\A d \in Device : Replaces(d) => live'[d] > live[d] + Tolerance]_vars =>
          [\A d \in Device :
              /\ job[d].at = "apply" /\ job'[d].at = "record" /\ live'[d] # live[d]
              /\ job[d].kind # "manual" /\ live[d] \in {job[d].seen} \ {0}
              => live'[d] > live[d] + Tolerance]_vars
  BY DEF Replaces
<1> QED
  BY <1>1, <1>2, Inductive, PTL DEF Spec, NewerReplacesOlder
================================================================================
