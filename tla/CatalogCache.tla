----------------------------- MODULE CatalogCache -----------------------------
(***************************************************************************)
(* catalog-cache.service.ts and cache-warming.service.ts: an item is read  *)
(* from an in-memory cache (L1) or from Redis (L2); the read of the        *)
(* database (L3) never succeeds, so items come in only by setCatalogItem.  *)
(* Calls interleave at their awaits; a Redis that fails is passed over.    *)
(***************************************************************************)
EXTENDS Naturals, FiniteSets

CONSTANTS
    Items,
    Readers,        \* calls that may be in flight at once
    MaxPublished,   \* bound on the revisions of an item
    MaxReads,       \* bound on the calls that come in
    MaxRedisFaults  \* bound on Redis commands that reject

VARIABLES
    source,     \* source[i]: revision in the database, 0 for none
    l1, l2,     \* the copy of an item in either layer, if any
    reader,     \* reader[c]: the call c is in
    stale,      \* items written and not invalidated since
    mingled,    \* calls and writes have overlapped
    reads, redisFaults

cacheVars == <<source, l1, l2, reader, stale, mingled, reads, redisFaults>>

-----------------------------------------------------------------------------
Away == [step |-> "idle", item |-> "none", copy |-> {}]
Idle(c) == reader[c].step = "idle"
Working == \E c \in Readers : ~Idle(c)

TypeOK ==
    /\ source \in [Items -> 0..MaxPublished]
    /\ l1 \in [Items -> SUBSET (1..MaxPublished)] /\ l2 \in [Items -> SUBSET (1..MaxPublished)]
    /\ \A i \in Items : Cardinality(l1[i]) <= 1 /\ Cardinality(l2[i]) <= 1
    /\ \A c \in Readers : reader[c].step \in {"idle", "l2", "l3", "set", "setex", "del"}
    /\ stale \subseteq Items /\ mingled \in BOOLEAN
    /\ reads \in 0..MaxReads /\ redisFaults \in 0..MaxRedisFaults

Init ==
    /\ source = [i \in Items |-> 0]
    /\ l1 = [i \in Items |-> {}] /\ l2 = [i \in Items |-> {}]
    /\ reader = [c \in Readers |-> Away]
    /\ stale = {} /\ mingled = FALSE /\ reads = 0 /\ redisFaults = 0

Move(c, s) == reader' = [reader EXCEPT ![c].step = s]
Done(c) == reader' = [reader EXCEPT ![c] = Away]
Come == reads < MaxReads /\ reads' = reads + 1 /\ mingled' = (mingled \/ Working)

(* Redis answers, or rejects and the rejection is caught.                  *)
Answers == UNCHANGED redisFaults
Rejects == redisFaults < MaxRedisFaults /\ redisFaults' = redisFaults + 1

-----------------------------------------------------------------------------
(* Whoever writes a catalog item writes the database and nothing else.     *)
PublishItem ==
    /\ \E i \in Items :
         /\ source[i] < MaxPublished
         /\ source' = [source EXCEPT ![i] = @ + 1]
         /\ stale' = stale \cup {i}
    /\ mingled' = (mingled \/ Working)
    /\ UNCHANGED <<l1, l2, reader, reads, redisFaults>>

(* warmCache begins a get for every id at once, getCatalogItem for one; an *)
(* item in L1 is answered before the first await.                          *)
WarmCache ==
    /\ Come
    /\ \E use \in SUBSET Readers \ {{}} : \E ids \in [use -> Items] :
         /\ \A c \in use : Idle(c)
         /\ \A c, d \in use : ids[c] = ids[d] => c = d
         /\ reader' = [c \in Readers |->
                         IF c \in use /\ l1[ids[c]] = {}
                         THEN [step |-> "l2", item |-> ids[c], copy |-> {}] ELSE reader[c]]
    /\ UNCHANGED <<source, l1, l2, stale, redisFaults>>

GetFromL2(c) ==
    /\ reader[c].step = "l2"
    /\ LET i == reader[c].item IN
         \/ Answers /\ l2[i] # {} /\ l1' = [l1 EXCEPT ![i] = l2[i]] /\ Done(c)
         \/ Answers /\ l2[i] = {} /\ Move(c, "l3") /\ UNCHANGED l1
         \/ Rejects /\ Move(c, "l3") /\ UNCHANGED l1
    /\ UNCHANGED <<source, l2, stale, mingled, reads>>

(* The repository has no method findById: the TypeError is caught, and the *)
(* answer is null whatever the database holds.                             *)
GetFromL3(c) ==
    /\ reader[c].step = "l3"
    /\ Done(c)
    /\ UNCHANGED <<source, l1, l2, stale, mingled, reads, redisFaults>>

(* A user of the module has read an item and gives it to the cache.        *)
HoldItem(c) ==
    /\ Idle(c) /\ Come
    /\ \E i \in Items :
         /\ source[i] > 0
         /\ reader' = [reader EXCEPT ![c] = [step |-> "set", item |-> i, copy |-> {source[i]}]]
    /\ UNCHANGED <<source, l1, l2, stale, redisFaults>>

(* setCatalogItem: L1 at once, then SETEX.                                 *)
SetCatalogItem(c) ==
    /\ reader[c].step = "set"
    /\ l1' = [l1 EXCEPT ![reader[c].item] = reader[c].copy]
    /\ Move(c, "setex")
    /\ UNCHANGED <<source, l2, stale, mingled, reads, redisFaults>>

SetInL2(c) ==
    /\ reader[c].step = "setex"
    /\ \/ Answers /\ l2' = [l2 EXCEPT ![reader[c].item] = reader[c].copy]
       \/ Rejects /\ UNCHANGED l2
    /\ Done(c)
    /\ UNCHANGED <<source, l1, stale, mingled, reads>>

(* invalidateItem, for updated and for deleted items: L1 at once, then DEL.*)
InvalidateItem(c) ==
    /\ Idle(c) /\ Come
    /\ \E i \in Items :
         /\ l1' = [l1 EXCEPT ![i] = {}]
         /\ reader' = [reader EXCEPT ![c] = [step |-> "del", item |-> i, copy |-> {}]]
    /\ UNCHANGED <<source, l2, stale, redisFaults>>

DeleteFromL2(c) ==
    /\ reader[c].step = "del"
    /\ \/ /\ Answers /\ l2' = [l2 EXCEPT ![reader[c].item] = {}]
          /\ stale' = stale \ {reader[c].item}
       \/ Rejects /\ UNCHANGED <<l2, stale>>
    /\ Done(c)
    /\ UNCHANGED <<source, l1, mingled, reads>>

(* invalidateAll clears L1 and deletes the keys "catalog:*" from Redis,    *)
(* where items have keys "item:*"; a pattern of the warming service is one *)
(* of "catalog:*" too and deletes nothing of an item.                      *)
InvalidateAll ==
    /\ Come
    /\ l1' = [i \in Items |-> {}]
    /\ UNCHANGED <<source, l2, reader, stale, redisFaults>>

(* The time to live of either layer is over, or L1 is full.                *)
EvictL1 ==
    /\ \E i \in Items : l1[i] # {} /\ l1' = [l1 EXCEPT ![i] = {}]
    /\ UNCHANGED <<source, l2, reader, stale, mingled, reads, redisFaults>>
ExpireL2 ==
    /\ \E i \in Items : l2[i] # {} /\ l2' = [l2 EXCEPT ![i] = {}]
    /\ UNCHANGED <<source, l1, reader, stale, mingled, reads, redisFaults>>

-----------------------------------------------------------------------------
Next ==
    \/ PublishItem \/ WarmCache \/ InvalidateAll \/ EvictL1 \/ ExpireL2
    \/ \E c \in Readers :
        \/ GetFromL2(c) \/ GetFromL3(c) \/ SetCatalogItem(c) \/ SetInL2(c)
        \/ HoldItem(c) \/ InvalidateItem(c) \/ DeleteFromL2(c)

Spec == Init /\ [][Next]_cacheVars

-----------------------------------------------------------------------------
(* Properties.                                                             *)

(* The refinement: both layers are followers of the database, whatever     *)
(* overlaps, expires or fails.                                             *)
Layer == INSTANCE Followers WITH
             Holders <- {"l1", "l2"},
             published <- UNION {{i} \X (1..source[i]) : i \in Items},
             held <- [l1 |-> UNION {{i} \X l1[i] : i \in Items},
                      l2 |-> UNION {{i} \X l2[i] : i \in Items}]

LayersFollow == Layer!Spec

(* An item that was invalidated after its last write is old in neither     *)
(* layer, as long as no call overlapped another call or a write.           *)
InvalidatedIsFresh ==
    ~mingled /\ ~Working => \A i \in Items \ stale : l1[i] \cup l2[i] \subseteq {source[i]}
=============================================================================
