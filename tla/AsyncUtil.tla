------------------------------ MODULE AsyncUtil ------------------------------
(***************************************************************************)
(* The parts of async.util.ts that callers share: a lock, a debounced and  *)
(* a memoized function.  Each behaviour uses one of them, named by util.   *)
(* A caller's code between two awaits is one step, and the continuations   *)
(* of a promise run in the order in which they were attached to it.        *)
(***************************************************************************)
EXTENDS Naturals, Sequences, Functions

CONSTANTS
    Callers,   \* each calls once, in any order
    MaxErrors  \* bound on executions that reject

VARIABLES
    util,     \* "lock", "debounce" or "memoize"
    call,     \* call[c]: "not made", "waiting", "ready", "running", "answered" or "rejected"
    order,    \* the callers in the order of their calls
    held,     \* the callers between the creation and the deletion of their lock
    locks,    \* the promise in the map, by its caller: {} or {c}
    queue,    \* the continuations that await the promise in the map
    due,      \* the continuations of a promise that was settled, still to run
    timer,    \* the caller the debouncing timer runs for: {} or {c}
    latest,   \* the caller whose resolve the debounced function has
    answer,   \* answer[c]: the caller whose execution answered c
    cached,   \* the memoized value, by the caller whose execution made it
    executions, errors

asyncVars == <<util, call, order, held, locks, queue, due, timer, latest, answer, cached,
               executions, errors>>

-----------------------------------------------------------------------------
TypeOK ==
    /\ util \in {"lock", "debounce", "memoize"}
    /\ call \in [Callers -> {"not made", "waiting", "ready", "running", "answered", "rejected"}]
    /\ Range(order) = {c \in Callers : call[c] # "not made"}
    /\ held \cup locks \cup timer \cup latest \cup cached \cup Range(queue) \cup Range(due) \subseteq Callers
    /\ \A c \in Callers : answer[c] \subseteq Callers
    /\ executions \in Nat /\ errors \in 0..MaxErrors

Init ==
    /\ util \in {"lock", "debounce", "memoize"}
    /\ call = [c \in Callers |-> "not made"] /\ order = <<>>
    /\ held = {} /\ locks = {} /\ queue = <<>> /\ due = <<>>
    /\ timer = {} /\ latest = {}
    /\ answer = [c \in Callers |-> {}] /\ cached = {}
    /\ executions = 0 /\ errors = 0

Position(c) == CHOOSE i \in DOMAIN order : order[i] = c
Invokes(c) == call[c] = "not made" /\ order' = Append(order, c)

-----------------------------------------------------------------------------
(* lock: fn starts and its promise is the lock, in one step.               *)
Acquire(c) ==
    /\ held' = held \cup {c} /\ locks' = {c}
    /\ call' = [call EXCEPT ![c] = "running"]
    /\ executions' = executions + 1

Lock(c) ==
    /\ util = "lock" /\ due = <<>> /\ Invokes(c)
    /\ IF locks = {} THEN Acquire(c) /\ UNCHANGED queue
       ELSE /\ queue' = Append(queue, c)
            /\ call' = [call EXCEPT ![c] = "waiting"]
            /\ UNCHANGED <<held, locks, executions>>
    /\ UNCHANGED <<util, due, timer, latest, answer, cached, errors>>

(* The promise of fn is settled.  Its owner was the first to await it and  *)
(* deletes the lock; who waited is due after that, one by one, before any  *)
(* other code runs.  A rejection is thrown to every one of them.           *)
Release(c) ==
    /\ util = "lock" /\ c \in held /\ due = <<>>
    /\ held' = held \ {c} /\ locks' = {}
    /\ queue' = <<>>
    /\ \/ /\ call' = [call EXCEPT ![c] = "answered"]
          /\ due' = queue /\ answer' = [answer EXCEPT ![c] = {c}] /\ UNCHANGED errors
       \/ /\ errors < MaxErrors /\ errors' = errors + 1
          /\ call' = [d \in Callers |-> IF d = c \/ d \in Range(queue) THEN "rejected" ELSE call[d]]
          /\ due' = <<>> /\ UNCHANGED answer
    /\ UNCHANGED <<util, order, timer, latest, cached, executions>>

(* Mutant: the map is looked at once, an if for the while.                 *)
ContinueAnyway ==
    /\ due # <<>> /\ due' = Tail(due)
    /\ Acquire(Head(due))
    /\ UNCHANGED <<util, order, queue, timer, latest, answer, cached, errors>>

(* The loop: the first finds no lock, and the others await its promise.    *)
Continue ==
    /\ due # <<>> /\ due' = Tail(due)
    /\ IF locks = {} THEN Acquire(Head(due)) /\ UNCHANGED queue
       ELSE queue' = Append(queue, Head(due)) /\ UNCHANGED <<held, locks, call, executions>>
    /\ UNCHANGED <<util, order, timer, latest, answer, cached, errors>>

-----------------------------------------------------------------------------
(* debounce: the timer starts again for the newest call, which alone has   *)
(* its resolve remembered.                                                 *)
Debounce(c) ==
    /\ util = "debounce" /\ Invokes(c)
    /\ timer' = {c} /\ latest' = {c}
    /\ call' = [d \in Callers |-> IF d = c \/ d \in timer THEN "waiting" ELSE call[d]]
    /\ UNCHANGED <<util, held, locks, queue, due, answer, cached, executions, errors>>

TimerFires ==
    /\ util = "debounce" /\ timer # {}
    /\ call' = [c \in Callers |-> IF c \in timer THEN "running" ELSE call[c]]
    /\ held' = held \cup timer
    /\ timer' = {} /\ executions' = executions + 1
    /\ UNCHANGED <<util, order, locks, queue, due, latest, answer, cached, errors>>

(* An execution ends and settles the newest call, whoever it was made for; *)
(* settling a promise once more does nothing.                              *)
Settle(c) ==
    /\ util = "debounce" /\ c \in held
    /\ held' = held \ {c}
    /\ \/ /\ call' = [d \in Callers |-> IF d \in latest /\ answer[d] = {} THEN "answered" ELSE call[d]]
          /\ answer' = [d \in Callers |-> IF d \in latest /\ answer[d] = {} THEN {c} ELSE answer[d]]
          /\ UNCHANGED errors
       \/ /\ errors < MaxErrors /\ errors' = errors + 1
          /\ call' = [d \in Callers |-> IF d \in latest /\ answer[d] = {} THEN "rejected" ELSE call[d]]
          /\ answer' = [d \in Callers |-> IF d \in latest /\ answer[d] = {} THEN {c} ELSE answer[d]]
    /\ UNCHANGED <<util, order, locks, queue, due, timer, latest, cached, executions>>

-----------------------------------------------------------------------------
(* memoize, all callers with one key: a miss executes, however many others *)
(* are executing already, and only a result is kept.                       *)
Memoize(c) ==
    /\ util = "memoize" /\ Invokes(c)
    /\ IF cached = {}
       THEN call' = [call EXCEPT ![c] = "running"] /\ executions' = executions + 1 /\ UNCHANGED answer
       ELSE call' = [call EXCEPT ![c] = "answered"] /\ answer' = [answer EXCEPT ![c] = cached]
            /\ UNCHANGED executions
    /\ UNCHANGED <<util, held, locks, queue, due, timer, latest, cached, errors>>

StoreResult(c) ==
    /\ util = "memoize" /\ call[c] = "running"
    /\ \/ /\ cached' = {c} /\ answer' = [answer EXCEPT ![c] = {c}]
          /\ call' = [call EXCEPT ![c] = "answered"] /\ UNCHANGED errors
       \/ /\ errors < MaxErrors /\ errors' = errors + 1
          /\ call' = [call EXCEPT ![c] = "rejected"] /\ UNCHANGED <<cached, answer>>
    /\ UNCHANGED <<util, order, held, locks, queue, due, timer, latest, executions>>

-----------------------------------------------------------------------------
Next ==
    \/ \E c \in Callers :
          \/ Lock(c) \/ Release(c) \/ Debounce(c)
          \/ Settle(c) \/ Memoize(c) \/ StoreResult(c)
    \/ Continue \/ TimerFires

Spec == Init /\ [][Next]_asyncVars

-----------------------------------------------------------------------------
(* One execution at a time has the lock, the map knows its promise, the    *)
(* callers get it in the order of their calls, and whoever waits has a     *)
(* holder to wait for; only a rejection makes a waiter give up.            *)
LockIsExclusive ==
    util = "lock" =>
        /\ \A c, d \in held : c = d
        /\ held = locks
        /\ queue # <<>> => held # {}
        /\ \A c, d \in Callers :
             call[c] = "waiting" /\ call[d] = "running" => Position(d) < Position(c)
        /\ errors = 0 => \A c \in Callers : call[c] # "rejected"

(* A debounced call is answered by its own execution or by that of an      *)
(* earlier call that was still running; one that is superseded before its  *)
(* answer is never settled, and executes nothing unless its timer had      *)
(* fired.                                                                  *)
DebounceAnswersTheNewest ==
    util = "debounce" =>
        /\ \A c \in Callers : \A d \in answer[c] : Position(d) <= Position(c)
        /\ \A c \in Callers : call[c] = "waiting" /\ c \notin timer => c \notin latest
        /\ executions <= Len(order)

(* Calls that miss while the first executes all execute, but once a caller *)
(* was given the kept value nobody who comes later executes again.         *)
MemoizedOnce ==
    util = "memoize" =>
        \A c, d \in Callers :
            /\ answer[d] # {} /\ answer[d] # {d}
            /\ call[c] \in {"running", "rejected"} \/ answer[c] = {c}
            => Position(c) < Position(d)
=============================================================================
