------------------------------ MODULE AsyncBatch ------------------------------
(***************************************************************************)
(* batch of async.util.ts, with the parallel it calls for each batch and   *)
(* the retry around each item.  Items are numbers; the result of an item   *)
(* is the item, and a hole in an array of results is 0.                    *)
(***************************************************************************)
EXTENDS Naturals, FiniteSetsExt, Sequences

CONSTANTS
    MaxItems,    \* bound on the items
    BatchSize,
    MaxAttempts, \* of retry
    MaxRejects   \* bound on attempts that reject

VARIABLES
    items,        \* how many there are
    concurrency,
    next,         \* the item the loop is at
    step,         \* "loop", "race", "all", "over" or "thrown"
    executing,    \* the promises in the array
    winner,       \* the promise that ends the race: {} or {i}
    item,         \* item[i]: "idle", "running", "sleeping", "settled" or "rejected"
    tried,        \* attempts made of each item
    results,
    rejects

batchVars == <<items, concurrency, next, step, executing, winner, item, tried, results, rejects>>

-----------------------------------------------------------------------------
Items == 1..items
SameBatch(i) == {j \in Items : (j - 1) \div BatchSize = (i - 1) \div BatchSize}
Running == {i \in Items : item[i] \in {"running", "sleeping"}}
Ended == {i \in Items : item[i] \in {"settled", "rejected"}}

TypeOK ==
    /\ items \in 1..MaxItems /\ concurrency \in 1..MaxItems
    /\ next \in 1..items + 1 /\ executing \subseteq SameBatch(next) /\ winner \subseteq executing
    /\ step \in {"loop", "race", "all", "over", "thrown"}
    /\ item \in [1..MaxItems -> {"idle", "running", "sleeping", "settled", "rejected"}]
    /\ tried \in [1..MaxItems -> 0..MaxAttempts]
    /\ results \in Seq(0..items) /\ rejects \in 0..MaxRejects

Init ==
    /\ items \in 1..MaxItems /\ concurrency \in 1..MaxItems
    /\ next = 1 /\ step = "loop" /\ executing = {} /\ winner = {}
    /\ item = [i \in 1..MaxItems |-> "idle"] /\ tried = [i \in 1..MaxItems |-> 0]
    /\ results = <<>> /\ rejects = 0

-----------------------------------------------------------------------------
GoOn ==
    IF next = Max(SameBatch(next)) THEN step' = "all" /\ UNCHANGED next
    ELSE step' = "loop" /\ next' = next + 1

(* Mutant: the race begins only when one more runs than is allowed.        *)
StartOneMore ==
    /\ step = "loop" /\ next <= items
    /\ item' = [item EXCEPT ![next] = "running"] /\ tried' = [tried EXCEPT ![next] = 1]
    /\ executing' = executing \cup {next}
    /\ IF Cardinality(executing') > concurrency
       THEN /\ step' = "race" /\ UNCHANGED next
            /\ winner' = IF executing \cap Ended = {} THEN {} ELSE {Min(executing \cap Ended)}
       ELSE GoOn /\ winner' = {}
    /\ UNCHANGED <<items, concurrency, results, rejects>>

(* fn is called and its promise pushed.  The race of the promises in the   *)
(* array is won by the first that is settled already, or by the next.      *)
Start ==
    /\ step = "loop" /\ next <= items
    /\ item' = [item EXCEPT ![next] = "running"] /\ tried' = [tried EXCEPT ![next] = 1]
    /\ executing' = executing \cup {next}
    /\ IF Cardinality(executing') >= concurrency
       THEN /\ step' = "race" /\ UNCHANGED next
            /\ winner' = IF executing \cap Ended = {} THEN {} ELSE {Min(executing \cap Ended)}
       ELSE GoOn /\ winner' = {}
    /\ UNCHANGED <<items, concurrency, results, rejects>>

Settle(i, outcome) ==
    /\ item' = [item EXCEPT ![i] = outcome]
    /\ winner' = IF step = "race" /\ winner = {} THEN {i} \cap executing ELSE winner

Resolves(i) ==
    /\ item[i] = "running"
    /\ Settle(i, "settled")
    /\ UNCHANGED <<items, concurrency, next, step, executing, tried, results, rejects>>

(* Mutant: the last attempt is made again too.                             *)
RejectsLast(i) ==
    /\ item[i] = "running" /\ rejects < MaxRejects
    /\ rejects' = rejects + 1
    /\ \/ tried[i] <= MaxAttempts /\ item' = [item EXCEPT ![i] = "sleeping"] /\ UNCHANGED winner
       \/ Settle(i, "rejected")
    /\ UNCHANGED <<items, concurrency, next, step, executing, tried, results>>

(* retry: the attempt rejects and is made again after a delay, unless it   *)
(* was the last one or shouldRetry says no.                                *)
Rejects(i) ==
    /\ item[i] = "running" /\ rejects < MaxRejects
    /\ rejects' = rejects + 1
    /\ \/ tried[i] < MaxAttempts /\ item' = [item EXCEPT ![i] = "sleeping"] /\ UNCHANGED winner
       \/ Settle(i, "rejected")
    /\ UNCHANGED <<items, concurrency, next, step, executing, tried, results>>

TryAgain(i) ==
    /\ item[i] = "sleeping"
    /\ item' = [item EXCEPT ![i] = "running"] /\ tried' = [tried EXCEPT ![i] = @ + 1]
    /\ UNCHANGED <<items, concurrency, next, step, executing, winner, results, rejects>>

(* The race is over: what leaves the array is not the promise that won but *)
(* the one that was pushed last.                                           *)
RaceEnds ==
    /\ step = "race" /\ winner # {}
    /\ winner' = {}
    /\ IF \E i \in winner : item[i] = "rejected"
       THEN step' = "thrown" /\ UNCHANGED <<next, executing>>
       ELSE GoOn /\ executing' = executing \ {next}
    /\ UNCHANGED <<items, concurrency, item, tried, results, rejects>>

(* Promise.all of what is in the array.  The batch's results are as many   *)
(* as the last one that is there, and are appended as they are.            *)
BatchEnds ==
    /\ step = "all"
    /\ \/ /\ \E i \in executing : item[i] = "rejected"
          /\ step' = "thrown" /\ UNCHANGED <<next, executing, results>>
       \/ /\ \A i \in executing : item[i] = "settled"
          /\ LET batch == SameBatch(next)
                 there == {i \in batch : item[i] = "settled"}
             IN  results' = results \o
                     [k \in 1..(IF there = {} THEN 0 ELSE Max(there) + 1 - Min(batch)) |->
                         IF Min(batch) + k - 1 \in there THEN Min(batch) + k - 1 ELSE 0]
          /\ executing' = {}
          /\ IF next = items THEN step' = "over" /\ UNCHANGED next
             ELSE step' = "loop" /\ next' = next + 1
    /\ UNCHANGED <<items, concurrency, winner, item, tried, rejects>>

Next ==
    \/ Start \/ RaceEnds \/ BatchEnds
    \/ \E i \in Items : Resolves(i) \/ Rejects(i) \/ TryAgain(i)

Spec == Init /\ [][Next]_batchVars

-----------------------------------------------------------------------------
(* One item at a time, or more allowed than a batch has: no more run at    *)
(* once than that, a batch ends with every result in its place, and one    *)
(* that loses an item throws.  (In between neither is so: the race takes   *)
(* the newest promise out of the array, so that the rest of the batch      *)
(* starts at once and results are missing or move up.)  In any case items  *)
(* are tried at most MaxAttempts times, and no result is another's twice.  *)
BatchIsSound ==
    /\ concurrency = 1 \/ concurrency > BatchSize =>
         /\ step \notin {"thrown", "over"} => Cardinality(Running) <= concurrency
         /\ step = "over" => results = [i \in Items |-> i]
    /\ \A i \in Items : tried[i] <= MaxAttempts /\ (item[i] = "rejected" => rejects > 0)
    /\ \A j, k \in DOMAIN results : j < k /\ results[j] > 0 /\ results[k] > 0 => results[j] < results[k]
=============================================================================
