-------------------------------- MODULE SaveSync --------------------------------
(***************************************************************************)
(* The save of one game on several devices and in the private cloud:       *)
(* CloudSaveSyncEngine's comparison, upload and restore, driven by the     *)
(* status poll, the check before a launch, the check after an exit and the *)
(* user.                                                                   *)
(*                                                                         *)
(* A save is the time it was last written, which is what the engine        *)
(* compares: restoring keeps the files' times, and the devices' clocks     *)
(* agree.  Zero is no save.  A device runs one cloud operation at a time   *)
(* (CloudSyncCoordinator, module GameLaunch) and replaces its files as one *)
(* step (module SaveRestore), but records what it restored in a later one. *)
(* The game may be played at any moment.                                   *)
(***************************************************************************)
EXTENDS Integers, FiniteSets

CONSTANTS
    Device,
    Unfetched,      \* no listing is cached
    Tolerance,      \* two seconds: saves this close count as the same
    Retained,       \* generations the cloud keeps of one game
    MaxNow,         \* bound on the clock
    MaxSurprises    \* bound on failures, lost answers, crashes, late listings and
                    \* the user's own uploads and restores

ASSUME SyncAssumption ==
    /\ {Tolerance, MaxNow, MaxSurprises} \subseteq Nat
    /\ Retained \in Nat \ {0}

VARIABLES
    now,        \* the common clock
    live,       \* the save files of each device
    active,     \* active_save_ver and active_save_mtime
    forks,      \* the safety forks of each device
    cloud,      \* the generations the cloud holds
    top,        \* the latest version number it gave
    listing,    \* CloudSaveRepository._listing
    fetched,    \* an account snapshot's listing not adopted yet
    job,        \* the cloud operation of each device
    surprises,  \* how many there were
    heads,      \* history: saves played here and not played further here
    chosen,     \* history: the save the user restored and did not replace
    mistaken    \* history: what is active was played on before it was recorded

history == <<heads, chosen, mistaken>>
vars == <<now, live, active, forks, cloud, top, listing, fetched, job,
          surprises, history>>

Time == 0..MaxNow
Generation == [version : Nat \ {0}, content : Time \ {0}]
Listing == (SUBSET Generation) \union {Unfetched}
Kind == {"routine", "exit", "manual"}   \* routine: polled or before a launch
Job == [at : {"idle", "package", "confirm", "download", "apply",
               "record"},
        kind : Kind, version : Nat, content : Time, seen : Time]
Idle == [at |-> "idle", kind |-> "routine", version |-> 0, content |-> 0,
         seen |-> 0]

Init ==
    /\ now = 0 /\ live = [d \in Device |-> 0]
    /\ active = [d \in Device |-> [version |-> 0, mtime |-> 0]]
    /\ forks = [d \in Device |-> {}]
    /\ cloud = {} /\ top = 0
    /\ listing = [d \in Device |-> Unfetched]
    /\ fetched = [d \in Device |-> Unfetched]
    /\ job = [d \in Device |-> Idle]
    /\ surprises = 0
    /\ heads = [d \in Device |-> {}]
    /\ chosen = [d \in Device |-> 0]
    /\ mistaken = [d \in Device |-> FALSE]

--------------------------------------------------------------------------------
(* The comparison.                                                         *)

Near(s, t) == s - t <= Tolerance /\ t - s <= Tolerance
(* Mutant: the highest version number is taken for the newest save.        *)
MutantNewest(games) == CHOOSE x \in games : \A y \in games : x.version >= y.version

Newest(games) ==    \* by content, then by number
    CHOOSE x \in games : \A y \in games :
        \/ x.content > y.content
        \/ x.content = y.content /\ x.version >= y.version

Decide(mine, games) ==
    LET cloudSave == Newest(games).content IN
    CASE mine = 0 /\ games = {} -> "no_saves"
      [] mine = 0 /\ games # {} -> "cloud_only"
      [] mine # 0 /\ games = {} -> "local_newer"
      [] OTHER -> IF Near(mine, cloudSave) THEN "in_sync"
                  ELSE IF mine > cloudSave THEN "local_newer" ELSE "cloud_newer"

Status(d, games) ==
    IF /\ live[d] # 0 /\ games # {}
       /\ Newest(games).version = active[d].version
       /\ Near(live[d], active[d].mtime)
    THEN "in_sync"
    ELSE Decide(live[d], games)

(* A cached listing is read, a missing one fetched and cached.             *)
Read(d) == IF listing[d] = Unfetched THEN cloud ELSE listing[d]

--------------------------------------------------------------------------------
(* The automatic operations.  job.seen is history: the save the check saw. *)

StartUpload(d, kind) ==
    job' = [job EXCEPT ![d] = [Idle EXCEPT !.at = "package", !.kind = kind]]
StartRestore(d, kind, version) ==
    job' = [job EXCEPT ![d] = [Idle EXCEPT !.at = "download", !.kind = kind,
                                           !.version = version, !.seen = live[d]]]

(* A poll and a launch resolve alike; an exit also offers a save that is   *)
(* in sync.  The poll gives up on a snapshot it has tried twice; a launch  *)
(* does not, so that limit is left out.                                    *)
Check(d, kind) ==
    LET games == Read(d)
        status == Status(d, games)
    IN
    /\ job[d] = Idle
    /\ listing' = [listing EXCEPT ![d] = games]
    /\ \/ /\ status = "local_newer" \/ (kind = "exit" /\ status = "in_sync")
          /\ StartUpload(d, kind)
       \/ /\ status \in {"cloud_newer", "cloud_only"}
          /\ StartRestore(d, kind, Newest(games).version)
       \/ /\ status = "no_saves" \/ (kind # "exit" /\ status = "in_sync")
          /\ UNCHANGED job
    /\ UNCHANGED <<now, live, active, forks, cloud, top, fetched, surprises, history>>

--------------------------------------------------------------------------------
(* Upload: the saves are scanned and packaged anew; identical content the  *)
(* listing already shows is not sent again.                                *)

(* Mutant: the number of the next version is recorded.                     *)
MutantActivate(d, version, mtime) ==
    active' = [active EXCEPT ![d] = [version |-> version + 1, mtime |-> mtime]]

Activate(d, version, mtime) ==
    active' = [active EXCEPT ![d] = [version |-> version, mtime |-> mtime]]
MarkPlayed(d, played) == mistaken' = [mistaken EXCEPT ![d] = played]
Invalidate(d) == listing' = [listing EXCEPT ![d] = Unfetched]
Finish(d) == job' = [job EXCEPT ![d] = Idle]

(* Mutant: a skipped upload records the newest version, not the one found. *)
MutantPackage(d) ==
    LET same == {x \in Read(d) : x.content = live[d]} IN
    /\ job[d].at = "package"
    /\ \/ /\ same # {}
          /\ Activate(d, Newest(Read(d)).version, live[d])
          /\ MarkPlayed(d, FALSE) /\ Invalidate(d) /\ Finish(d)
       \/ /\ same = {}
          /\ listing' = [listing EXCEPT ![d] = Read(d)]
          /\ job' = [job EXCEPT ![d].at = "confirm", ![d].content = live[d]]
          /\ UNCHANGED <<active, mistaken>>
    /\ UNCHANGED <<now, live, forks, cloud, top, fetched, surprises, heads, chosen>>

Package(d) ==
    LET same == {x \in Read(d) : x.content = live[d]} IN
    /\ job[d].at = "package"
    /\ \/ /\ \E x \in same : Activate(d, x.version, live[d])
          /\ MarkPlayed(d, FALSE) /\ Invalidate(d) /\ Finish(d)
       \/ /\ same = {}
          /\ listing' = [listing EXCEPT ![d] = Read(d)]
          /\ job' = [job EXCEPT ![d].at = "confirm", ![d].content = live[d]]
          /\ UNCHANGED <<active, mistaken>>
    /\ UNCHANGED <<now, live, forks, cloud, top, fetched, surprises, heads, chosen>>

(* The cloud numbers what it stores and evicts the lowest numbers.         *)
Store(content) ==
    LET all == cloud \union {[version |-> top + 1, content |-> content]} IN
    /\ top' = top + 1
    /\ cloud' = {x \in all : Cardinality({y \in all : y.version > x.version}) < Retained}

Confirm(d) ==
    /\ job[d].at = "confirm"
    /\ Store(job[d].content)
    /\ Activate(d, top + 1, job[d].content) /\ MarkPlayed(d, FALSE)
    /\ Invalidate(d)
    /\ Finish(d)
    /\ UNCHANGED <<now, live, forks, fetched, surprises, heads, chosen>>

--------------------------------------------------------------------------------
(* Restore: the version is downloaded, the save in place is forked, then   *)
(* replaced.  A version the cloud no longer holds fails.                   *)

(* Mutant: without a version to ask for, the latest one stored is sent.    *)
MutantDownload(d) ==
    /\ job[d].at = "download"
    /\ \E x \in cloud :
        /\ x.version = top
        /\ job' = [job EXCEPT ![d].at = "apply", ![d].content = x.content]
    /\ UNCHANGED <<now, live, active, forks, cloud, top, listing, fetched, surprises,
                   history>>

Download(d) ==
    /\ job[d].at = "download"
    /\ \/ \E x \in cloud :
             /\ x.version = job[d].version
             /\ job' = [job EXCEPT ![d].at = "apply", ![d].content = x.content]
       \/ /\ \A x \in cloud : x.version # job[d].version
          /\ Finish(d)
    /\ UNCHANGED <<now, live, active, forks, cloud, top, listing, fetched, surprises,
                   history>>

(* Mutant: the fork is kept only when the user asked for the restore.      *)
MutantApply(d) ==
    /\ job[d].at = "apply"
    /\ forks' = IF job[d].kind # "manual" THEN forks
                ELSE [forks EXCEPT ![d] = @ \union ({live[d]} \ {0})]
    /\ live' = [live EXCEPT ![d] = job[d].content]
    /\ job' = [job EXCEPT ![d].at = "record"]
    /\ chosen' = [chosen EXCEPT ![d] =
                     IF job[d].kind = "manual" THEN job[d].content ELSE @]
    /\ UNCHANGED <<now, active, cloud, top, listing, fetched, surprises, heads, mistaken>>

Apply(d) ==
    /\ job[d].at = "apply"
    /\ forks' = [forks EXCEPT ![d] = @ \union ({live[d]} \ {0})]
    /\ live' = [live EXCEPT ![d] = job[d].content]
    /\ job' = [job EXCEPT ![d].at = "record"]
    /\ chosen' = [chosen EXCEPT ![d] =
                     IF job[d].kind = "manual" THEN job[d].content ELSE @]
    /\ UNCHANGED <<now, active, cloud, top, listing, fetched, surprises, heads, mistaken>>

(* The version is recorded with the time the files have by now.  An exit   *)
(* check's restore leaves the listing alone.                               *)
Record(d) ==
    /\ job[d].at = "record"
    /\ Activate(d, job[d].version, live[d])
    /\ MarkPlayed(d, live[d] # job[d].content)
    /\ IF job[d].kind = "exit" THEN UNCHANGED listing ELSE Invalidate(d)
    /\ Finish(d)
    /\ UNCHANGED <<now, live, forks, cloud, top, fetched, surprises, heads, chosen>>

--------------------------------------------------------------------------------
(* The world: play, the user's choices, listings, failures.                *)

Surprise == surprises < MaxSurprises /\ surprises' = surprises + 1

Play(d) ==
    /\ \E later \in 1..(Tolerance + 1) :
        /\ now + later <= MaxNow
        /\ now' = now + later
        /\ live' = [live EXCEPT ![d] = now + later]
        /\ heads' = [heads EXCEPT ![d] = (@ \ {live[d]}) \union {now + later}]
    /\ chosen' = [chosen EXCEPT ![d] = 0]
    /\ UNCHANGED <<active, forks, cloud, top, listing, fetched, job, surprises, mistaken>>

Choose(d) ==    \* upload now, or roll back to a listed version
    /\ Surprise /\ job[d] = Idle
    /\ listing' = [listing EXCEPT ![d] = Read(d)]
    /\ \/ live[d] # 0 /\ StartUpload(d, "manual")
       \/ \E x \in Read(d) : StartRestore(d, "manual", x.version)
    /\ chosen' = [chosen EXCEPT ![d] = 0]
    /\ UNCHANGED <<now, live, active, forks, cloud, top, fetched, heads, mistaken>>

Expire(d) ==    \* the listing's time to live is over
    /\ Invalidate(d)
    /\ UNCHANGED <<now, live, active, forks, cloud, top, fetched, job, surprises, history>>

FetchSnapshot(d) ==     \* CloudAccountService has read the listing ...
    /\ Surprise
    /\ fetched' = [fetched EXCEPT ![d] = cloud]
    /\ UNCHANGED <<now, live, active, forks, cloud, top, listing, job, history>>
AdoptListing(d) ==      \* ... and publishes it, whatever happened since
    /\ fetched[d] # Unfetched
    /\ listing' = [listing EXCEPT ![d] = fetched[d]]
    /\ fetched' = [fetched EXCEPT ![d] = Unfetched]
    /\ UNCHANGED <<now, live, active, forks, cloud, top, job, surprises, history>>

Fails(d) ==     \* a transfer fails, or the launcher dies
    /\ Surprise /\ job[d] # Idle
    /\ Finish(d)
    /\ UNCHANGED <<now, live, active, forks, cloud, top, listing, fetched, history>>
ConfirmLost(d) ==   \* the cloud stored it, the answer never came
    /\ Surprise /\ job[d].at = "confirm"
    /\ Store(job[d].content)
    /\ Finish(d)
    /\ UNCHANGED <<now, live, active, forks, listing, fetched, history>>

Work(d) == Package(d) \/ Confirm(d) \/ Download(d) \/ Apply(d) \/ Record(d)
Next == \E d \in Device :
    \/ Check(d, "routine") \/ Check(d, "exit") \/ Work(d)
    \/ Play(d) \/ Choose(d) \/ Expire(d)
    \/ FetchSnapshot(d) \/ AdoptListing(d) \/ Fails(d) \/ ConfirmLost(d)

Spec == Init /\ [][Next]_vars
(* Operations end, listings expire, and every device goes on checking.     *)
FairSpec == Spec /\ \A d \in Device :
    /\ WF_vars(Work(d)) /\ WF_vars(Expire(d)) /\ WF_vars(Check(d, "routine"))

--------------------------------------------------------------------------------

(* Types; the cloud keeps Retained generations and no device takes itself  *)
(* to be on a version the cloud has not given out.                         *)
TypeOK ==
    /\ now \in Time /\ live \in [Device -> Time]
    /\ active \in [Device -> [version : 0..top, mtime : Time]]
    /\ forks \in [Device -> SUBSET Time]
    /\ cloud \subseteq Generation /\ Cardinality(cloud) <= Retained
    /\ top \in Nat /\ \A x \in cloud : x.version <= top
    /\ listing \in [Device -> Listing] /\ fetched \in [Device -> Listing]
    /\ job \in [Device -> Job] /\ surprises \in 0..MaxSurprises
    /\ heads \in [Device -> SUBSET Time] /\ chosen \in [Device -> Time]
    /\ mistaken \in [Device -> BOOLEAN]

(* sync_cloud_to_local keeps the save it displaces: what was played on a   *)
(* device and not played on from there is still in its files or among its  *)
(* forks, whatever was synchronised, rolled back, lost or repeated since;  *)
(* that only the ten newest forks are kept is left out of the model.       *)
SessionsAreKept == \A d \in Device : heads[d] \subseteq {live[d]} \union forks[d]

(* check_sync_status reports "in sync" from the version and time it        *)
(* recorded earlier; told the truth about the cloud, it never says so of a *)
(* save that is further from the newest one than the tolerance.  The       *)
(* exception is a save the game wrote between a restore and its record.    *)
Mistaken(d) == mistaken[d] /\ active[d].version = Newest(cloud).version
InSyncIsNear ==
    \A d \in Device : cloud # {} /\ Status(d, cloud) = "in_sync" =>
        Near(live[d], Newest(cloud).content) \/ Mistaken(d)

(* However stale the listing was that a check read, a restore nobody asked *)
(* for replaces the save it checked only by one written later.             *)
NewerReplacesOlder ==
    [][\A d \in Device :
          /\ job[d].at = "apply" /\ job'[d].at = "record" /\ live'[d] # live[d]
          /\ job[d].kind # "manual" /\ live[d] \in {job[d].seen} \ {0}
          => live'[d] > live[d] + Tolerance]_vars

(* When nobody plays any more, every device ends up with the newest save   *)
(* of the cloud and stays there: no upload and restore undo each other.    *)
(* The exception is that of InSyncIsNear.                                  *)
Converges ==
    <>[](cloud # {} => \A d \in Device :
            Near(live[d], Newest(cloud).content) \/ Mistaken(d))

(* README.md:151: "Manual history rollback remains available."  A version  *)
(* the user rolled back to is in place until the user plays or chooses     *)
(* again.                                                                  *)
RollbackStands == \A d \in Device : chosen[d] # 0 => live[d] = chosen[d]

================================================================================
