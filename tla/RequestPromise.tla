---------------------------- MODULE RequestPromise ----------------------------
(* What RequestManager promises its callers, without workers, queues,      *)
(* slots, tokens or generations: a key has at most one request callers can *)
(* join; every accepted request is answered at most once, and only when it *)
(* can no longer be joined, so that nobody waits on a request whose answer *)
(* was given before; and nothing is accepted after close.                  *)
EXTENDS Integers

CONSTANTS
    Key,            \* resource keys
    MaxRequests,    \* bound: requests accepted
    Outcome         \* what a request is answered with

VARIABLES
    accepted,       \* requests accepted so far; also the newest request
    joinable,       \* the request submit() hands out for a key
    answer,         \* the answer of every request
    closed

vars == <<accepted, joinable, answer, closed>>

NoRequest == 0
Pending == "pending"

Init ==
    /\ accepted = 0
    /\ joinable = [k \in Key |-> NoRequest]
    /\ answer = [r \in 1..MaxRequests |-> Pending]
    /\ closed = FALSE

(* A new request takes the place of the one that could be joined.          *)
Accept(k) ==
    /\ ~closed
    /\ accepted < MaxRequests
    /\ accepted' = accepted + 1
    /\ joinable' = [joinable EXCEPT ![k] = accepted + 1]
    /\ UNCHANGED <<answer, closed>>

(* Invalidated, or about to be answered.                                   *)
Withdraw(k) ==
    /\ joinable[k] # NoRequest
    /\ joinable' = [joinable EXCEPT ![k] = NoRequest]
    /\ UNCHANGED <<accepted, answer, closed>>

Answer(r, a) ==
    /\ answer[r] = Pending
    /\ \A k \in Key : joinable[k] # r
    /\ answer' = [answer EXCEPT ![r] = a]
    /\ UNCHANGED <<accepted, joinable, closed>>

Close ==
    /\ closed' = TRUE
    /\ UNCHANGED <<accepted, joinable, answer>>

Next ==
    \/ \E k \in Key : Accept(k) \/ Withdraw(k)
    \/ \E r \in 1..accepted, a \in Outcome : Answer(r, a)
    \/ Close

Spec == Init /\ [][Next]_vars
=============================================================================
