------------------------------ MODULE RateLimit ------------------------------
(***************************************************************************)
(* rate-limit.service.ts for one user and one action: a counter in the     *)
(* cache that is read, increased and written back with a new time to live. *)
(***************************************************************************)
EXTENDS Naturals, FiniteSets

CONSTANTS
    Checks,      \* checkRateLimit calls in flight at once
    Limit,
    MaxChecks,   \* bound on the calls
    MaxCacheErrors

VARIABLES
    counter,  \* the value under the key; 0 when there is none
    check,    \* check[c]: {} or what the call has read
    allowed,  \* calls allowed since the key was last absent, the cache's errors apart
    overlap,  \* some calls since then were in flight together
    checks, cacheErrors

rateVars == <<counter, check, allowed, overlap, checks, cacheErrors>>

-----------------------------------------------------------------------------
TypeOK ==
    /\ counter \in 0..MaxChecks /\ allowed \in 0..MaxChecks /\ overlap \in BOOLEAN
    /\ \A c \in Checks : check[c] \subseteq 0..MaxChecks /\ Cardinality(check[c]) <= 1
    /\ checks \in 0..MaxChecks /\ cacheErrors \in 0..MaxCacheErrors

Init ==
    /\ counter = 0 /\ check = [c \in Checks |-> {}]
    /\ allowed = 0 /\ overlap = FALSE /\ checks = 0 /\ cacheErrors = 0

Busy == {c \in Checks : check[c] # {}}

GetCount(c) ==
    /\ check[c] = {} /\ checks < MaxChecks
    /\ checks' = checks + 1
    /\ check' = [check EXCEPT ![c] = {counter}]
    /\ overlap' = (overlap \/ Busy # {})
    /\ UNCHANGED <<counter, allowed, cacheErrors>>

(* Mutant: the count is compared with the limit before it is increased.    *)
SetThenCompare(c) ==
    /\ \E n \in check[c] :
         /\ counter' = n + 1
         /\ allowed' = IF n <= Limit THEN allowed + 1 ELSE allowed
    /\ check' = [check EXCEPT ![c] = {}]
    /\ UNCHANGED <<overlap, checks, cacheErrors>>

(* The new count is written, for a whole window more, whether the call is  *)
(* allowed or not.                                                         *)
SetCount(c) ==
    /\ \E n \in check[c] :
         /\ counter' = n + 1
         /\ allowed' = IF n + 1 <= Limit THEN allowed + 1 ELSE allowed
    /\ check' = [check EXCEPT ![c] = {}]
    /\ UNCHANGED <<overlap, checks, cacheErrors>>

(* The cache fails, before or after it has written: the call is allowed.   *)
CacheFails(c) ==
    /\ cacheErrors < MaxCacheErrors
    /\ cacheErrors' = cacheErrors + 1
    /\ \E n \in check[c] : counter' \in {counter, n + 1}
    /\ check' = [check EXCEPT ![c] = {}]
    /\ UNCHANGED <<allowed, overlap, checks>>

(* The time to live is over, or resetRateLimit deletes the key.            *)
Expire ==
    /\ counter > 0
    /\ counter' = 0 /\ allowed' = 0 /\ overlap' = (Busy # {})
    /\ UNCHANGED <<check, checks, cacheErrors>>

Next == (\E c \in Checks : GetCount(c) \/ SetCount(c) \/ CacheFails(c)) \/ Expire

Spec == Init /\ [][Next]_rateVars

-----------------------------------------------------------------------------
(* One call after the other, the limit is exact: as many calls are allowed *)
(* as the counter says, and never more than the limit.                     *)
LimitIsExact ==
    ~overlap =>
        /\ allowed <= Limit
        /\ cacheErrors = 0 /\ Busy = {} => allowed = IF counter < Limit THEN counter ELSE Limit
=============================================================================
