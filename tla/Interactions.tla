------------------------------ MODULE Interactions ------------------------------
(***************************************************************************)
(* user-interaction.service.ts: interactions are put into a buffer, which  *)
(* a timer and a full buffer flush with one INSERT; a flush that fails puts *)
(* its batch back in front.  Flushes overlap.  The INSERT names columns    *)
(* that the table of the migrations has not, and is always refused there:  *)
(* that it is stored is what happens over a table that has them.           *)
(***************************************************************************)
EXTENDS Naturals, FiniteSets, Sequences, Functions

CONSTANTS
    BufferSize,      \* BUFFER_SIZE, 100 in the code
    MaxTracked,      \* bound on the interactions tracked
    Flushes,         \* flushes that may be under way at once
    MaxFlushFaults   \* bound on INSERTs that reject

VARIABLES
    kind,         \* kind[n]: the type of the interaction tracked as the n-th
    buffer,       \* interactionBuffer: numbers of interactions
    flush,        \* flush[f]: the batch the flush f has taken, empty when it is done
    stored,       \* the rows of item_analytics, in the order of insertion
    counting,     \* interactions whose counters are being updated
    viewCount, useCount,
    scoredAt,     \* the counters popularity_score was computed from
    cleared,      \* clearBuffer was called
    flushFaults

interactionVars == <<kind, buffer, flush, stored, counting, viewCount, useCount, scoredAt, cleared,
                     flushFaults>>

-----------------------------------------------------------------------------
InteractionTypes == {"view", "use", "favorite", "search"}
Tracked == DOMAIN kind
InFlight == UNION {Range(flush[f]) : f \in Flushes}

TypeOK ==
    /\ kind \in Seq(InteractionTypes) /\ Len(kind) <= MaxTracked
    /\ Range(buffer) \subseteq Tracked /\ Range(stored) \subseteq Tracked
    /\ \A f \in Flushes : Range(flush[f]) \subseteq Tracked
    /\ counting \subseteq Tracked
    /\ viewCount <= Len(kind) /\ useCount <= Len(kind)
    /\ cleared \in BOOLEAN /\ flushFaults \in 0..MaxFlushFaults

Init ==
    /\ kind = <<>> /\ buffer = <<>> /\ stored = <<>>
    /\ flush = [f \in Flushes |-> <<>>]
    /\ counting = {} /\ viewCount = 0 /\ useCount = 0 /\ scoredAt = <<0, 0>>
    /\ cleared = FALSE /\ flushFaults = 0

(* flushInteractions up to its await: the buffer is taken as a whole.      *)
TakeBatch(buf) ==
    IF buf = <<>> THEN buffer' = buf /\ UNCHANGED flush
    ELSE \E f \in Flushes :
           /\ flush[f] = <<>>
           /\ flush' = [flush EXCEPT ![f] = buf]
           /\ buffer' = <<>>

-----------------------------------------------------------------------------
(* trackInteraction: into the buffer, the counters are begun, and from     *)
(* BUFFER_SIZE on every further one starts a flush.                        *)
TrackInteraction ==
    /\ Len(kind) < MaxTracked
    /\ \E t \in InteractionTypes : kind' = Append(kind, t)
    /\ LET n == Len(kind) + 1
           buf == Append(buffer, n)
       IN /\ IF Len(buf) >= BufferSize THEN TakeBatch(buf) ELSE buffer' = buf /\ UNCHANGED flush
          /\ counting' = counting \cup {n}
    /\ UNCHANGED <<stored, viewCount, useCount, scoredAt, cleared, flushFaults>>

(* The interval of ten seconds.                                            *)
FlushInterval ==
    /\ buffer # <<>>
    /\ TakeBatch(buffer)
    /\ UNCHANGED <<kind, stored, counting, viewCount, useCount, scoredAt, cleared, flushFaults>>

InsertBatch(f) ==
    /\ flush[f] # <<>>
    /\ stored' = stored \o flush[f]
    /\ flush' = [flush EXCEPT ![f] = <<>>]
    /\ UNCHANGED <<kind, buffer, counting, viewCount, useCount, scoredAt, cleared, flushFaults>>

(* Mutant: the buffer becomes the failed batch.                            *)
FlushFailsForgetting(f) ==
    /\ flush[f] # <<>> /\ flushFaults < MaxFlushFaults
    /\ flushFaults' = flushFaults + 1
    /\ buffer' = flush[f]
    /\ flush' = [flush EXCEPT ![f] = <<>>]
    /\ UNCHANGED <<kind, stored, counting, viewCount, useCount, scoredAt, cleared>>

(* The INSERT rejects: unshift, before what has come in meanwhile.         *)
FlushFails(f) ==
    /\ flush[f] # <<>> /\ flushFaults < MaxFlushFaults
    /\ flushFaults' = flushFaults + 1
    /\ buffer' = flush[f] \o buffer
    /\ flush' = [flush EXCEPT ![f] = <<>>]
    /\ UNCHANGED <<kind, stored, counting, viewCount, useCount, scoredAt, cleared>>

(* updateItemCounters: one UPDATE adds to the counter of a view or a use,  *)
(* and the score is computed anew; a random tenth of all computes it too.  *)
UpdateItemCounters(n) ==
    /\ n \in counting /\ counting' = counting \ {n}
    /\ viewCount' = viewCount + (IF kind[n] = "view" THEN 1 ELSE 0)
    /\ useCount' = useCount + (IF kind[n] = "use" THEN 1 ELSE 0)
    /\ \/ scoredAt' = <<viewCount', useCount'>>
       \/ kind[n] \notin {"view", "use"} /\ UNCHANGED scoredAt
    /\ UNCHANGED <<kind, buffer, flush, stored, cleared, flushFaults>>

ClearBuffer ==
    /\ buffer # <<>> /\ buffer' = <<>> /\ cleared' = TRUE
    /\ UNCHANGED <<kind, flush, stored, counting, viewCount, useCount, scoredAt, flushFaults>>

-----------------------------------------------------------------------------
Next ==
    \/ TrackInteraction \/ FlushInterval \/ ClearBuffer
    \/ \E f \in Flushes : InsertBatch(f) \/ FlushFails(f)
    \/ \E n \in 1..MaxTracked : UpdateItemCounters(n)

Spec == Init /\ [][Next]_interactionVars

-----------------------------------------------------------------------------
(* Every tracked interaction is in the buffer, in one flush or in the      *)
(* table, and there once, however flushes overlap and fail, unless the     *)
(* buffer was cleared.                                                     *)
NothingLost ==
    /\ ~cleared => Range(buffer) \cup InFlight \cup Range(stored) = Tracked
    /\ \A s \in {buffer, stored} \cup {flush[f] : f \in Flushes} : IsInjective(s)
    /\ Range(buffer) \cap Range(stored) = {}
    /\ \A f \in Flushes :
         /\ Range(flush[f]) \cap (Range(buffer) \cup Range(stored)) = {}
         /\ \A g \in Flushes \ {f} : Range(flush[f]) \cap Range(flush[g]) = {}
=============================================================================
