--------------------------- MODULE MCRequestManager ---------------------------
(* Instances of RequestManager for TLC.  Keys, services, callers and       *)
(* workers are model values; the specs below are the requests that make    *)
(* the lanes, the service limit, retries, generations, the offline check   *)
(* and stale fallbacks matter.                                             *)
EXTENDS RequestManager, TLC

CONSTANTS k1, cloud

Plain(k, generation) ==
    [key |-> k, priority |-> 10, service |-> NoService, generation |-> generation,
     attempts |-> 1, allowOffline |-> TRUE, stale |-> FALSE]

(* One key, explicit generations: joins, supersession, invalidation,       *)
(* retries, the offline refusal and the stale fallback.                    *)
OrderingSpecs ==
    { [Plain(k1, 0) EXCEPT !.attempts = 2],
      [Plain(k1, 1) EXCEPT !.allowOffline = FALSE, !.stale = TRUE] }

(* The convenience API only, in both lanes and for one service of limit    *)
(* one: a request supersedes or follows one that still holds its slots.    *)
ImplicitSpecs ==
    { [Plain(k1, 0) EXCEPT !.service = cloud, !.attempts = 2],
      [Plain(k1, 0) EXCEPT !.priority = 20, !.allowOffline = FALSE] }

OneSlot == [s \in Service |-> 1]

Symmetry == Permutations(Worker)
=============================================================================
