---------------------------- MODULE Catalog_proofs ----------------------------
(***************************************************************************)
(* What the services of the catalog keep, for any items, calls, failures   *)
(* and overlaps: each section is about one service.                        *)
(***************************************************************************)
EXTENDS MCCatalog, Sequences, FiniteSetTheorems, WellFoundedInduction, TLAPS

(* A cached entry is one copy at most.                                     *)
Small(S) == \A x, y \in S : x = y

(***************************************************************************)
(* The layered cache.                                                      *)
(***************************************************************************)
Published == 1..MaxPublished
CacheSteps == {"idle", "l2", "l3", "set", "setex", "del"}
CacheCall == [step : CacheSteps, item : Items \cup {"none"}, copy : SUBSET Published]

CacheTypes ==
    /\ source \in [Items -> 0..MaxPublished]
    /\ l1 \in [Items -> SUBSET Published] /\ l2 \in [Items -> SUBSET Published]
    /\ reader \in [Readers -> CacheCall]
    /\ stale \subseteq Items /\ mingled \in BOOLEAN
    /\ reads \in 0..MaxReads /\ redisFaults \in 0..MaxRedisFaults

(* A copy is one revision at most, of an item that a call has named, and   *)
(* no newer than the row.                                                  *)
CacheCopies ==
    /\ \A i \in Items :
         /\ Small(l1[i]) /\ Small(l2[i])
         /\ \A n \in l1[i] \cup l2[i] : n <= source[i]
    /\ \A c \in Readers :
         /\ ~Cache!Idle(c) => reader[c].item \in Items
         /\ reader[c].copy # {} => ~Cache!Idle(c)
         /\ Small(reader[c].copy)
         /\ \A n \in reader[c].copy : n <= source[reader[c].item]

(* While nothing overlaps, the calls of one warming are about items of     *)
(* their own, an invalidation is the only call, what is carried is         *)
(* current, and nobody fills L1 between an invalidation and its DEL.       *)
CacheAlone ==
    ~mingled =>
        /\ \A c, d \in Readers : c # d /\ ~Cache!Idle(c) /\ ~Cache!Idle(d) =>
              reader[c].item # reader[d].item /\ reader[c].step # "del"
        /\ \A c \in Readers :
              /\ \A n \in reader[c].copy : n = source[reader[c].item]
              /\ reader[c].step = "del" => l1[reader[c].item] = {}
        /\ \A i \in Items \ stale : l1[i] \cup l2[i] \subseteq {source[i]}

CacheInv == CacheTypes /\ CacheCopies /\ CacheAlone

(* The bounds of the layered cache are numbers.                            *)
LEMMA CacheNumbers ==
    /\ MaxPublished \in Nat /\ MaxReads \in Nat /\ MaxRedisFaults \in Nat
BY BoundsAssumption

(* It starts empty.                                                        *)
LEMMA CacheInit == Cache!Init => CacheInv
<1> SUFFICES ASSUME Cache!Init PROVE CacheInv
    OBVIOUS
<1> USE CacheNumbers DEF Cache!Init
<1>1. CacheTypes
  <2>1. Cache!Away \in CacheCall
    BY DEF Cache!Away, CacheCall, CacheSteps
  <2>2. reader \in [Readers -> CacheCall] /\ source \in [Items -> 0..MaxPublished]
    BY <2>1
  <2>3. l1 \in [Items -> SUBSET Published] /\ l2 \in [Items -> SUBSET Published]
      OBVIOUS
  <2>4. reads \in 0..MaxReads /\ redisFaults \in 0..MaxRedisFaults
      OBVIOUS
  <2> QED BY <2>2, <2>3, <2>4, Zenon DEF CacheTypes
<1>2. CacheCopies /\ CacheAlone
  BY DEF CacheCopies, CacheAlone, Small, Cache!Idle, Cache!Away
<1> QED BY <1>1, <1>2 DEF CacheInv

(* A row gets a new revision; what overlaps a call is noted.               *)
LEMMA CachePublish == CacheInv /\ Cache!PublishItem => CacheInv'
<1> SUFFICES ASSUME CacheInv, Cache!PublishItem PROVE CacheInv'
    OBVIOUS
<1> USE CacheNumbers DEF CacheInv, CacheTypes, Cache!PublishItem
<1>1. PICK i \in Items :
        /\ source[i] < MaxPublished
        /\ source' = [source EXCEPT ![i] = @ + 1]
        /\ stale' = stale \cup {i}
    OBVIOUS
<1>2. CacheTypes'
  BY <1>1
<1>3. \A j \in Items : source[j] <= source'[j] /\ source[j] \in Nat /\ source'[j] \in Nat
  BY <1>1
<1>4. \A c \in Readers : reader[c].copy \subseteq Nat
  BY DEF CacheCall, Published
<1>5. \A j \in Items : l1[j] \subseteq Nat /\ l2[j] \subseteq Nat
  BY DEF Published
<1>6. CacheCopies'
  BY <1>3, <1>4, <1>5 DEF CacheCopies, Cache!Idle
<1>7. CacheAlone'
  <2> SUFFICES ASSUME ~mingled' PROVE CacheAlone'
    BY DEF CacheAlone
  <2>1. ~mingled /\ \A c \in Readers : Cache!Idle(c)
    BY DEF Cache!Working
  <2>2. \A j \in Items \ stale' : source'[j] = source[j] /\ j \in Items \ stale
    BY <1>1
  <2> QED BY <2>1, <2>2 DEF CacheAlone, CacheCopies, Cache!Idle
<1> QED BY <1>2, <1>6, <1>7 DEF CacheInv

(* What one reader's move keeps of CacheAlone's first conjunct.            *)
LEMMA CacheRead ==
    ASSUME CacheInv, NEW c \in Readers,
           Cache!GetFromL2(c) \/ Cache!GetFromL3(c) \/ Cache!SetCatalogItem(c)
             \/ Cache!SetInL2(c) \/ Cache!DeleteFromL2(c)
    PROVE  /\ reader[c].item \in Items /\ reader[c] \in CacheCall
           /\ \E x \in CacheCall :
                 /\ reader' = [reader EXCEPT ![c] = x]
                 /\ x = Cache!Away \/ (x.item = reader[c].item /\ x.step \in {"l3", "setex"})
                 /\ Small(x.copy) /\ \A n \in x.copy : n <= source[x.item]
                 /\ x.copy # {} => x.step # "idle"
                 /\ x.copy \subseteq reader[c].copy
           /\ UNCHANGED <<source, mingled>> /\ reads' \in 0..MaxReads
           /\ redisFaults' \in 0..MaxRedisFaults /\ stale' \subseteq Items
<1> USE CacheNumbers DEF CacheInv
<1>1. reader[c] \in CacheCall /\ source \in [Items -> 0..MaxPublished] /\ reader \in [Readers -> CacheCall]
  BY DEF CacheTypes
<1>2. reader[c].item \in Items
  BY DEF CacheCopies, Cache!Idle, Cache!GetFromL2, Cache!GetFromL3, Cache!SetCatalogItem,
         Cache!SetInL2, Cache!DeleteFromL2
<1> DEFINE Good(x) ==
            /\ reader' = [reader EXCEPT ![c] = x]
            /\ x = Cache!Away \/ (x.item = reader[c].item /\ x.step \in {"l3", "setex"})
            /\ Small(x.copy) /\ \A n \in x.copy : n <= source[x.item]
            /\ x.copy # {} => x.step # "idle"
            /\ x.copy \subseteq reader[c].copy
<1>3. Cache!Away \in CacheCall
  BY DEF Cache!Away, CacheCall, CacheSteps
<1>4. ASSUME Cache!Done(c) PROVE Good(Cache!Away)
  BY <1>4 DEF Cache!Done, Cache!Away, Small
<1>5. ASSUME NEW s \in {"l3", "setex"}, Cache!Move(c, s)
      PROVE  \E x \in CacheCall : Good(x)
  <2> DEFINE x == [reader[c] EXCEPT !.step = s]
  <2>1. x \in CacheCall /\ x.step = s /\ x.item = reader[c].item /\ x.copy = reader[c].copy
    BY <1>1 DEF CacheCall, CacheSteps
  <2>2. reader' = [reader EXCEPT ![c] = x]
    BY <1>5, <1>1 DEF Cache!Move
  <2>3. Small(x.copy) /\ \A n \in x.copy : n <= source[x.item]
    BY <2>1 DEF CacheCopies
  <2> HIDE DEF x
  <2>4. Good(x)
    BY <2>1, <2>2, <2>3
  <2> QED BY <2>1, <2>4
<1>6. CASE Cache!GetFromL2(c)
  BY <1>6, <1>1, <1>2, <1>3, <1>4, <1>5 DEF Cache!GetFromL2, CacheTypes, Cache!Answers, Cache!Rejects
<1>7. CASE Cache!GetFromL3(c)
  BY <1>7, <1>1, <1>2, <1>3, <1>4 DEF Cache!GetFromL3, CacheTypes
<1>8. CASE Cache!SetCatalogItem(c)
  BY <1>8, <1>1, <1>2, <1>5 DEF Cache!SetCatalogItem, CacheTypes
<1>9. CASE Cache!SetInL2(c)
  BY <1>9, <1>1, <1>2, <1>3, <1>4 DEF Cache!SetInL2, CacheTypes, Cache!Answers, Cache!Rejects
<1>10. CASE Cache!DeleteFromL2(c)
  BY <1>10, <1>1, <1>2, <1>3, <1>4 DEF Cache!DeleteFromL2, CacheTypes, Cache!Answers, Cache!Rejects
<1> QED BY <1>6, <1>7, <1>8, <1>9, <1>10

(* The steps of one call in flight.                                        *)
LEMMA CacheMoves ==
    ASSUME CacheInv, NEW c \in Readers,
           Cache!GetFromL2(c) \/ Cache!GetFromL3(c) \/ Cache!SetCatalogItem(c)
             \/ Cache!SetInL2(c) \/ Cache!DeleteFromL2(c)
    PROVE  CacheInv'
<1> DEFINE i == reader[c].item
<1>1. PICK x \in CacheCall :
        /\ reader' = [reader EXCEPT ![c] = x]
        /\ x = Cache!Away \/ (x.item = i /\ x.step \in {"l3", "setex"})
        /\ Small(x.copy) /\ \A n \in x.copy : n <= source[x.item]
        /\ x.copy # {} => x.step # "idle"
        /\ x.copy \subseteq reader[c].copy
  BY CacheRead
<1>2. /\ i \in Items /\ reader[c] \in CacheCall
      /\ UNCHANGED <<source, mingled>> /\ reads' \in 0..MaxReads
      /\ redisFaults' \in 0..MaxRedisFaults /\ stale' \subseteq Items
  BY CacheRead
<1>3. /\ source \in [Items -> 0..MaxPublished] /\ reader \in [Readers -> CacheCall]
      /\ l1 \in [Items -> SUBSET Published] /\ l2 \in [Items -> SUBSET Published]
      /\ mingled \in BOOLEAN
  BY DEF CacheInv, CacheTypes
<1>4. reader[c].copy \in SUBSET Published /\ ~Cache!Idle(c)
  BY <1>2 DEF CacheCall, Cache!Idle, Cache!GetFromL2, Cache!GetFromL3, Cache!SetCatalogItem,
              Cache!SetInL2, Cache!DeleteFromL2
<1>5. /\ l1' = l1 \/ (l1' = [l1 EXCEPT ![i] = l2[i]] /\ reader[c].step = "l2")
             \/ (l1' = [l1 EXCEPT ![i] = reader[c].copy] /\ reader[c].step = "set")
      /\ \/ l2' = l2
         \/ l2' = [l2 EXCEPT ![i] = reader[c].copy] /\ reader[c].step = "setex"
         \/ l2' = [l2 EXCEPT ![i] = {}]
  BY DEF Cache!GetFromL2, Cache!GetFromL3, Cache!SetCatalogItem, Cache!SetInL2, Cache!DeleteFromL2
<1>6. \/ stale' = stale
      \/ /\ stale' = stale \ {i} /\ l1' = l1 /\ l2' = [l2 EXCEPT ![i] = {}]
         /\ reader[c].step = "del"
  BY DEF Cache!GetFromL2, Cache!GetFromL3, Cache!SetCatalogItem, Cache!SetInL2, Cache!DeleteFromL2
<1> HIDE DEF i
<1>7. CacheTypes'
  <2>1. l1' \in [Items -> SUBSET Published] /\ l2' \in [Items -> SUBSET Published]
    BY <1>2, <1>3, <1>4, <1>5
  <2>2. reader' \in [Readers -> CacheCall]
    BY <1>1, <1>3
  <2> QED BY <2>1, <2>2, <1>2, <1>3 DEF CacheTypes
<1>8. \A d \in Readers : d # c => reader'[d] = reader[d]
  BY <1>1, <1>3
<1>9. reader'[c] = x
  BY <1>1, <1>3
<1>10. \A j \in Items : /\ l1'[j] = l1[j] \/ (j = i /\ l1'[j] = l2[j])
                            \/ (j = i /\ l1'[j] = reader[c].copy)
                        /\ l2'[j] = l2[j] \/ (j = i /\ l2'[j] = reader[c].copy) \/ l2'[j] = {}
  BY <1>2, <1>3, <1>5
<1>11. CacheCopies'
  <2>1. \A j \in Items : /\ Small(l1'[j]) /\ Small(l2'[j])
                         /\ \A n \in l1'[j] \cup l2'[j] : n <= source'[j]
    BY <1>2, <1>10 DEF CacheInv, CacheCopies, Small, i
  <2>2. \A d \in Readers :
          /\ ~Cache!Idle(d)' => reader'[d].item \in Items
          /\ reader'[d].copy # {} => ~Cache!Idle(d)'
          /\ Small(reader'[d].copy)
          /\ \A n \in reader'[d].copy : n <= source'[reader'[d].item]
    <3> TAKE d \in Readers
    <3>1. CASE d = c
      BY <3>1, <1>1, <1>2, <1>9 DEF Cache!Idle, Cache!Away
    <3>2. CASE d # c
      BY <3>2, <1>2, <1>8 DEF CacheInv, CacheCopies, Cache!Idle
    <3> QED BY <3>1, <3>2
  <2> QED BY <2>1, <2>2 DEF CacheCopies
<1>12. CacheAlone'
  <2> SUFFICES ASSUME ~mingled' PROVE CacheAlone'
    BY DEF CacheAlone
  <2>1. ~mingled
    BY <1>2
  <2>2. /\ \A d, e \in Readers : d # e /\ ~Cache!Idle(d) /\ ~Cache!Idle(e) =>
            reader[d].item # reader[e].item /\ reader[d].step # "del"
        /\ \A d \in Readers :
            /\ \A n \in reader[d].copy : n = source[reader[d].item]
            /\ reader[d].step = "del" => l1[reader[d].item] = {}
        /\ \A j \in Items \ stale : l1[j] \cup l2[j] \subseteq {source[j]}
    BY <2>1 DEF CacheInv, CacheAlone
  <2>3. ~Cache!Idle(c)' => x.item = i /\ x.step # "del"
    BY <1>1, <1>9 DEF Cache!Idle, Cache!Away
  <2>4. \A d, e \in Readers : d # e /\ ~Cache!Idle(d)' /\ ~Cache!Idle(e)' =>
            reader'[d].item # reader'[e].item /\ reader'[d].step # "del"
    <3> SUFFICES ASSUME NEW d \in Readers, NEW e \in Readers, d # e,
                        ~Cache!Idle(d)', ~Cache!Idle(e)'
                 PROVE  reader'[d].item # reader'[e].item /\ reader'[d].step # "del"
        OBVIOUS
    <3>1. ~Cache!Idle(d) /\ ~Cache!Idle(e)
      BY <1>4, <1>8 DEF Cache!Idle
    <3>2. reader[d].item # reader[e].item /\ reader[d].step # "del"
      BY <3>1, <2>2
    <3>3. reader'[d].item = reader[d].item /\ reader'[e].item = reader[e].item
      BY <2>3, <1>8, <1>9 DEF i
    <3> QED BY <3>2, <3>3, <2>3, <1>8, <1>9
  <2>5. \A d \in Readers : \A n \in reader'[d].copy : n = source'[reader'[d].item]
    <3> TAKE d \in Readers
    <3>1. CASE d = c
      BY <3>1, <1>1, <1>2, <1>9, <2>2 DEF Cache!Away, i
    <3>2. CASE d # c
      BY <3>2, <1>2, <1>8, <2>2
    <3> QED BY <3>1, <3>2
  <2>6. \A d \in Readers : reader'[d].step = "del" => l1'[reader'[d].item] = {}
    <3> SUFFICES ASSUME NEW d \in Readers, reader'[d].step = "del"
                 PROVE  l1'[reader'[d].item] = {}
        OBVIOUS
    <3>1. d # c
      BY <2>3, <1>9 DEF Cache!Idle
    <3>2. ~Cache!Idle(d) /\ reader[d].step = "del"
      BY <3>1, <1>8 DEF Cache!Idle
    <3> QED BY <3>1, <3>2, <1>4, <2>2
  <2>7. \A j \in Items \ stale' : l1'[j] \cup l2'[j] \subseteq {source'[j]}
    <3> TAKE j \in Items \ stale'
    <3>1. CASE j \in stale
      <4>1. j = i /\ l1' = l1 /\ l2'[j] = {} /\ reader[c].step = "del"
        BY <3>1, <1>2, <1>3, <1>6
      <4> QED BY <4>1, <2>2 DEF i
    <3>2. CASE j \notin stale
      BY <3>2, <1>2, <1>10, <2>2 DEF i
    <3> QED BY <3>1, <3>2
  <2> QED BY <2>4, <2>5, <2>6, <2>7 DEF CacheAlone
<1> QED BY <1>7, <1>11, <1>12 DEF CacheInv

(* A warming begins its gets at once.                                      *)
LEMMA CacheWarms == CacheInv /\ Cache!WarmCache => CacheInv'
<1> SUFFICES ASSUME CacheInv, Cache!WarmCache PROVE CacheInv'
    OBVIOUS
<1> USE CacheNumbers
<1>0. PICK use \in SUBSET Readers \ {{}} : \E ids \in [use -> Items] :
        /\ \A c \in use : Cache!Idle(c)
        /\ \A c, d \in use : ids[c] = ids[d] => c = d
        /\ reader' = [c \in Readers |->
                        IF c \in use /\ l1[ids[c]] = {}
                        THEN [step |-> "l2", item |-> ids[c], copy |-> {}] ELSE reader[c]]
  BY DEF Cache!WarmCache
<1>1. PICK ids \in [use -> Items] :
        /\ \A c \in use : Cache!Idle(c)
        /\ \A c, d \in use : ids[c] = ids[d] => c = d
        /\ reader' = [c \in Readers |->
                        IF c \in use /\ l1[ids[c]] = {}
                        THEN [step |-> "l2", item |-> ids[c], copy |-> {}] ELSE reader[c]]
  BY <1>0
<1>2. /\ source \in [Items -> 0..MaxPublished] /\ reader \in [Readers -> CacheCall]
      /\ l1 \in [Items -> SUBSET Published] /\ l2 \in [Items -> SUBSET Published]
      /\ mingled \in BOOLEAN /\ mingled' \in BOOLEAN /\ reads' \in 0..MaxReads
      /\ UNCHANGED <<source, l1, l2, stale, redisFaults>>
      /\ stale \subseteq Items /\ redisFaults \in 0..MaxRedisFaults
      /\ mingled' = (mingled \/ Cache!Working)
  BY DEF CacheInv, CacheTypes, Cache!WarmCache, Cache!Come
<1>3. \A c \in Readers :
        \/ reader'[c] = reader[c]
        \/ /\ c \in use /\ ids[c] \in Items
           /\ reader'[c] = [step |-> "l2", item |-> ids[c], copy |-> {}]
           /\ reader'[c].step = "l2" /\ reader'[c].item = ids[c] /\ reader'[c].copy = {}
  BY <1>1, <1>2
<1>4. CacheTypes'
  <2>1. \A i \in Items : [step |-> "l2", item |-> i, copy |-> {}] \in CacheCall
    BY DEF CacheCall, CacheSteps
  <2>2. \A c \in Readers : reader'[c] \in CacheCall
    <3> TAKE c \in Readers
    <3>1. reader[c] \in CacheCall
      BY <1>2
    <3> QED BY <2>1, <3>1, <1>3, Zenon
  <2>3. reader' \in [Readers -> CacheCall]
    BY <2>2, <1>1
  <2> QED BY <2>3, <1>2, Zenon DEF CacheTypes
<1>5. CacheCopies'
  <2>1. \A d \in Readers :
          /\ ~Cache!Idle(d)' => reader'[d].item \in Items
          /\ reader'[d].copy # {} => ~Cache!Idle(d)'
          /\ Small(reader'[d].copy)
          /\ \A n \in reader'[d].copy : n <= source'[reader'[d].item]
    <3> TAKE d \in Readers
    <3>1. CASE reader'[d] = reader[d]
      BY <3>1, <1>2 DEF CacheInv, CacheCopies, Cache!Idle
    <3>2. CASE reader'[d] # reader[d]
      <4>1. reader'[d].step = "l2" /\ reader'[d].item \in Items /\ reader'[d].copy = {}
        BY <3>2, <1>3
      <4> QED BY <4>1, Zenon DEF Cache!Idle, Small
    <3> QED BY <3>1, <3>2
  <2> QED BY <2>1, <1>2 DEF CacheInv, CacheCopies
<1>6. CacheAlone'
  <2> SUFFICES ASSUME ~mingled' PROVE CacheAlone'
    BY DEF CacheAlone
  <2>1. ~mingled /\ \A c \in Readers : reader[c].step = "idle" /\ reader[c].copy = {}
    BY <1>2 DEF Cache!Working, Cache!Idle, CacheInv, CacheCopies
  <2>2. \A j \in Items \ stale : l1[j] \cup l2[j] \subseteq {source[j]}
    BY <2>1 DEF CacheInv, CacheAlone
  <2>3. \A c \in Readers :
          /\ reader'[c].copy = {} /\ reader'[c].step # "del"
          /\ reader'[c].step # "idle" => c \in use /\ reader'[c].item = ids[c]
    <3> TAKE c \in Readers
    <3>1. CASE reader'[c] = reader[c]
      BY <3>1, <2>1
    <3>2. CASE reader'[c] # reader[c]
      BY <3>2, <1>3
    <3> QED BY <3>1, <3>2
  <2> QED BY <2>2, <2>3, <1>1, <1>2 DEF CacheAlone, Cache!Idle
<1> QED BY <1>4, <1>5, <1>6 DEF CacheInv

(* An invalidation clears L1 and goes on to Redis.                         *)
LEMMA CacheInvalidates ==
    ASSUME CacheInv, NEW c \in Readers, Cache!InvalidateItem(c) PROVE CacheInv'
<1> USE CacheNumbers
<1>1. PICK i \in Items :
        /\ l1' = [l1 EXCEPT ![i] = {}]
        /\ reader' = [reader EXCEPT ![c] = [step |-> "del", item |-> i, copy |-> {}]]
  BY DEF Cache!InvalidateItem
<1>2. /\ source \in [Items -> 0..MaxPublished] /\ reader \in [Readers -> CacheCall]
      /\ l1 \in [Items -> SUBSET Published] /\ l2 \in [Items -> SUBSET Published]
      /\ mingled \in BOOLEAN /\ mingled' \in BOOLEAN /\ reads' \in 0..MaxReads
      /\ UNCHANGED <<source, l2, stale, redisFaults>>
      /\ stale \subseteq Items /\ redisFaults \in 0..MaxRedisFaults
      /\ mingled' = (mingled \/ Cache!Working)
  BY DEF CacheInv, CacheTypes, Cache!InvalidateItem, Cache!Come
<1>3. /\ reader'[c].step = "del" /\ reader'[c].item = i /\ reader'[c].copy = {}
      /\ \A d \in Readers : d # c => reader'[d] = reader[d]
  BY <1>1, <1>2
<1>4. \A j \in Items : l1'[j] = IF j = i THEN {} ELSE l1[j]
  BY <1>1, <1>2
<1>5. CacheTypes'
  <2>1. [step |-> "del", item |-> i, copy |-> {}] \in CacheCall
    BY DEF CacheCall, CacheSteps
  <2>2. reader' \in [Readers -> CacheCall] /\ l1' \in [Items -> SUBSET Published]
    BY <2>1, <1>1, <1>2
  <2> QED BY <2>2, <1>2, Zenon DEF CacheTypes
<1>6. CacheCopies'
  <2>1. \A d \in Readers :
          /\ ~Cache!Idle(d)' => reader'[d].item \in Items
          /\ reader'[d].copy # {} => ~Cache!Idle(d)'
          /\ Small(reader'[d].copy)
          /\ \A n \in reader'[d].copy : n <= source'[reader'[d].item]
    <3> TAKE d \in Readers
    <3>1. CASE d # c
      BY <3>1, <1>2, <1>3 DEF CacheInv, CacheCopies, Cache!Idle
    <3>2. CASE d = c
      BY <3>2, <1>3, Zenon DEF Cache!Idle, Small
    <3> QED BY <3>1, <3>2
  <2>2. \A j \in Items : /\ Small(l1'[j]) /\ Small(l2'[j])
                         /\ \A n \in l1'[j] \cup l2'[j] : n <= source'[j]
    BY <1>2, <1>4 DEF CacheInv, CacheCopies, Small
  <2> QED BY <2>1, <2>2 DEF CacheCopies
<1>7. CacheAlone'
  <2> SUFFICES ASSUME ~mingled' PROVE CacheAlone'
    BY DEF CacheAlone
  <2>1. ~mingled /\ \A d \in Readers : reader[d].step = "idle" /\ reader[d].copy = {}
    BY <1>2 DEF Cache!Working, Cache!Idle, CacheInv, CacheCopies
  <2>2. \A j \in Items \ stale : l1[j] \cup l2[j] \subseteq {source[j]}
    BY <2>1 DEF CacheInv, CacheAlone
  <2>3. \A d \in Readers : reader'[d].copy = {} /\ (reader'[d].step # "idle" => d = c)
    BY <2>1, <1>3
  <2>4. \A j \in Items \ stale' : l1'[j] \cup l2'[j] \subseteq {source'[j]}
    BY <2>2, <1>2, <1>4
  <2>5. l1'[i] = {}
    BY <1>4
  <2> QED BY <2>3, <2>4, <2>5, <1>3 DEF CacheAlone, Cache!Idle
<1> QED BY <1>5, <1>6, <1>7 DEF CacheInv

(* A caller gives an item it has read.                                     *)
LEMMA CacheIsGiven ==
    ASSUME CacheInv, NEW c \in Readers, Cache!HoldItem(c) PROVE CacheInv'
<1> USE CacheNumbers
<1>1. PICK i \in Items :
        /\ source[i] > 0
        /\ reader' = [reader EXCEPT ![c] = [step |-> "set", item |-> i, copy |-> {source[i]}]]
  BY DEF Cache!HoldItem
<1>2. /\ source \in [Items -> 0..MaxPublished] /\ reader \in [Readers -> CacheCall]
      /\ l1 \in [Items -> SUBSET Published] /\ l2 \in [Items -> SUBSET Published]
      /\ mingled \in BOOLEAN /\ mingled' \in BOOLEAN /\ reads' \in 0..MaxReads
      /\ UNCHANGED <<source, l1, l2, stale, redisFaults>>
      /\ stale \subseteq Items /\ redisFaults \in 0..MaxRedisFaults
      /\ mingled' = (mingled \/ Cache!Working)
  BY DEF CacheInv, CacheTypes, Cache!HoldItem, Cache!Come
<1>3. /\ reader'[c].step = "set" /\ reader'[c].item = i /\ reader'[c].copy = {source[i]}
      /\ \A d \in Readers : d # c => reader'[d] = reader[d]
  BY <1>1, <1>2
<1>4. source[i] \in Published
  BY <1>1, <1>2 DEF Published
<1>5. CacheTypes'
  <2>1. [step |-> "set", item |-> i, copy |-> {source[i]}] \in CacheCall
    BY <1>4 DEF CacheCall, CacheSteps
  <2>2. reader' \in [Readers -> CacheCall]
    BY <2>1, <1>1, <1>2
  <2> QED BY <2>2, <1>2, Zenon DEF CacheTypes
<1>6. CacheCopies'
  <2>1. \A d \in Readers :
          /\ ~Cache!Idle(d)' => reader'[d].item \in Items
          /\ reader'[d].copy # {} => ~Cache!Idle(d)'
          /\ Small(reader'[d].copy)
          /\ \A n \in reader'[d].copy : n <= source'[reader'[d].item]
    <3> TAKE d \in Readers
    <3>1. CASE d # c
      BY <3>1, <1>2, <1>3 DEF CacheInv, CacheCopies, Cache!Idle
    <3>2. CASE d = c
      BY <3>2, <1>2, <1>3, <1>4 DEF Cache!Idle, Small
    <3> QED BY <3>1, <3>2
  <2> QED BY <2>1, <1>2 DEF CacheInv, CacheCopies
<1>7. CacheAlone'
  <2> SUFFICES ASSUME ~mingled' PROVE CacheAlone'
    BY DEF CacheAlone
  <2>1. ~mingled /\ \A d \in Readers : reader[d].step = "idle" /\ reader[d].copy = {}
    BY <1>2 DEF Cache!Working, Cache!Idle, CacheInv, CacheCopies
  <2>2. \A j \in Items \ stale : l1[j] \cup l2[j] \subseteq {source[j]}
    BY <2>1 DEF CacheInv, CacheAlone
  <2>3. \A d \in Readers :
          /\ reader'[d].step # "idle" => d = c
          /\ reader'[d].step # "del" /\ \A n \in reader'[d].copy : n = source[reader'[d].item]
    BY <2>1, <1>3
  <2> QED BY <2>2, <2>3, <1>2 DEF CacheAlone, Cache!Idle
<1> QED BY <1>5, <1>6, <1>7 DEF CacheInv

(* Entries go: by invalidateAll, which finds nothing of an item in Redis,  *)
(* or because their time is over.                                          *)
LEMMA CacheForgets ==
    CacheInv /\ (Cache!InvalidateAll \/ Cache!EvictL1 \/ Cache!ExpireL2) => CacheInv'
<1> SUFFICES ASSUME CacheInv, Cache!InvalidateAll \/ Cache!EvictL1 \/ Cache!ExpireL2
             PROVE  CacheInv'
    OBVIOUS
<1> USE CacheNumbers
<1>0. /\ (mingled' = mingled /\ reads' = reads) \/ Cache!Come
      /\ UNCHANGED <<source, reader, stale, redisFaults>>
  BY DEF Cache!InvalidateAll, Cache!EvictL1, Cache!ExpireL2
<1>1. /\ source \in [Items -> 0..MaxPublished] /\ reader \in [Readers -> CacheCall]
      /\ l1 \in [Items -> SUBSET Published] /\ l2 \in [Items -> SUBSET Published]
      /\ mingled \in BOOLEAN /\ mingled' \in BOOLEAN /\ reads' \in 0..MaxReads
      /\ UNCHANGED <<source, reader, stale, redisFaults>>
      /\ stale \subseteq Items /\ redisFaults \in 0..MaxRedisFaults
      /\ mingled => mingled'
  <2>1. reads \in Nat /\ mingled \in BOOLEAN
    BY DEF CacheInv, CacheTypes
  <2>2. mingled' = mingled \/ mingled' = (mingled \/ Cache!Working)
    BY <1>0 DEF Cache!Come
  <2>3. mingled' \in BOOLEAN /\ (mingled => mingled')
    BY <2>1, <2>2, Zenon
  <2>4. reads' \in 0..MaxReads
    BY <2>1, <1>0 DEF CacheInv, CacheTypes, Cache!Come
  <2> QED BY <2>3, <2>4, <1>0 DEF CacheInv, CacheTypes
<1>2. /\ l1' \in [Items -> SUBSET Published] /\ l2' \in [Items -> SUBSET Published]
      /\ \A j \in Items : (l1'[j] = l1[j] \/ l1'[j] = {}) /\ (l2'[j] = l2[j] \/ l2'[j] = {})
  BY <1>1 DEF Cache!InvalidateAll, Cache!EvictL1, Cache!ExpireL2
<1>3. CacheTypes'
  BY <1>1, <1>2, Zenon DEF CacheTypes
<1>4. CacheCopies'
  <2>1. \A j \in Items : /\ Small(l1'[j]) /\ Small(l2'[j])
                         /\ \A n \in l1'[j] \cup l2'[j] : n <= source'[j]
    BY <1>1, <1>2 DEF CacheInv, CacheCopies, Small
  <2> QED BY <2>1, <1>1 DEF CacheInv, CacheCopies, Cache!Idle
<1>5. CacheAlone'
  <2> SUFFICES ASSUME ~mingled' PROVE CacheAlone'
    BY DEF CacheAlone
  <2>1. ~mingled
    BY <1>1
  <2>2. \A c \in Readers : reader[c].step = "del" => reader[c].item \in Items
    BY DEF CacheInv, CacheCopies, Cache!Idle
  <2>3. \A j \in Items \ stale' : l1'[j] \cup l2'[j] \subseteq {source'[j]}
    BY <2>1, <1>1, <1>2 DEF CacheInv, CacheAlone
  <2>4. \A c \in Readers : reader'[c].step = "del" => l1'[reader'[c].item] = {}
    BY <2>1, <2>2, <1>1, <1>2 DEF CacheInv, CacheAlone
  <2> QED BY <2>1, <2>3, <2>4, <1>1 DEF CacheInv, CacheAlone, Cache!Idle
<1> QED BY <1>3, <1>4, <1>5 DEF CacheInv

(* The other services leave the layered cache alone.                       *)
LEMMA CacheRests == CacheInv /\ UNCHANGED cacheVars => CacheInv'
BY DEF CacheInv, CacheTypes, CacheCopies, CacheAlone, Cache!Idle, cacheVars

(* The layered cache, whatever moves.                                      *)
LEMMA CacheNext == CacheInv /\ [Next]_vars => CacheInv'
<1> SUFFICES ASSUME CacheInv, [Next]_vars PROVE CacheInv'
    OBVIOUS
<1>1. CASE UNCHANGED cacheVars
  BY <1>1, CacheRests
<1>2. CASE ~UNCHANGED cacheVars
  <2>1. \/ Cache!PublishItem \/ Cache!WarmCache \/ Cache!InvalidateAll \/ Cache!EvictL1 \/ Cache!ExpireL2
        \/ \E c \in Readers :
            \/ Cache!GetFromL2(c) \/ Cache!GetFromL3(c) \/ Cache!SetCatalogItem(c)
            \/ Cache!SetInL2(c) \/ Cache!HoldItem(c) \/ Cache!InvalidateItem(c)
            \/ Cache!DeleteFromL2(c)
    BY <1>2 DEF Next, vars, OnItem, OnCache, OnCollection, OnBrand, OnIndex, OnRecommend,
                OnInteract, OnSearch
  <2> QED BY <2>1, CachePublish, CacheWarms, CacheForgets, CacheMoves, CacheInvalidates,
            CacheIsGiven
<1> QED BY <1>1, <1>2

(* The invariant of the layered cache.                                     *)
LEMMA CacheHolds == Spec => []CacheInv
<1>1. Init => CacheInv
  BY CacheInit DEF Init
<1> QED BY <1>1, CacheNext, PTL DEF Spec

(* What the rows have published so far, and what both layers hold of it.   *)
Rows == UNION {{i} \X (1..source[i]) : i \in Items}
Held(layer) == UNION {{i} \X layer[i] : i \in Items}

(* A held pair is a copy of some item.                                     *)
LEMMA InHeld == \A layer, z : z \in Held(layer) <=> \E i \in Items : \E n \in layer[i] : z = <<i, n>>
BY DEF Held
(* A published pair is a revision of some row.                             *)
LEMMA InRows == \A z : z \in Rows <=> \E i \in Items : \E n \in 1..source[i] : z = <<i, n>>
BY DEF Rows

(* What a layer holds after a step it held before, or a row has published: *)
(* copies come from the row, from the other layer or from a call.          *)
LEMMA CacheTakes ==
    CacheInv /\ CacheInv' /\ [Next]_vars =>
        /\ Rows \subseteq Rows'
        /\ Held(l1)' \subseteq Held(l1) \cup Rows
        /\ Held(l2)' \subseteq Held(l2) \cup Rows
<1> SUFFICES ASSUME CacheInv, CacheInv', [Next]_vars
             PROVE  /\ Rows \subseteq Rows'
                    /\ Held(l1)' \subseteq Held(l1) \cup Rows
                    /\ Held(l2)' \subseteq Held(l2) \cup Rows
    OBVIOUS
<1>1. \A i \in Items : /\ source[i] \in Nat /\ source'[i] \in Nat
                       /\ l1'[i] \subseteq Nat \ {0} /\ l2'[i] \subseteq Nat \ {0}
                       /\ l1[i] \subseteq Nat \ {0} /\ l2[i] \subseteq Nat \ {0}
                       /\ \A n \in l1'[i] \cup l2'[i] : n <= source'[i]
                       /\ \A n \in l1[i] \cup l2[i] : n <= source[i]
  BY CacheNumbers DEF CacheInv, CacheTypes, CacheCopies, Published
<1>2. \/ source' = source
      \/ Cache!PublishItem
  BY DEF Next, vars, cacheVars, OnItem, OnCache, OnCollection, OnBrand, OnIndex, OnRecommend,
         OnInteract, OnSearch, Cache!WarmCache, Cache!InvalidateAll, Cache!EvictL1,
         Cache!ExpireL2, Cache!GetFromL2, Cache!GetFromL3, Cache!SetCatalogItem, Cache!SetInL2,
         Cache!HoldItem, Cache!InvalidateItem, Cache!DeleteFromL2
<1>3. CASE source' = source
  <2>1. Rows' = Rows
    BY <1>3 DEF Rows
  <2>2. \A i \in Items : l1'[i] \cup l2'[i] \subseteq 1..source[i]
    BY <1>1, <1>3
  <2> QED BY <2>1, <2>2, InHeld, InRows DEF Held, Rows
<1>4. CASE Cache!PublishItem
  <2>1. \A i \in Items : source[i] <= source'[i]
    BY <1>4, CacheNumbers DEF Cache!PublishItem, CacheInv, CacheTypes
  <2>2. \A i \in Items : 1..source[i] \subseteq 1..source'[i]
    BY <2>1, <1>1
  <2>3. Held(l1)' = Held(l1) /\ Held(l2)' = Held(l2)
    BY <1>4 DEF Cache!PublishItem, Held
  <2> QED BY <2>2, <2>3 DEF Rows
<1> QED BY <1>2, <1>3, <1>4

(* Both layers are followers of the rows.                                  *)
LEMMA LayersFollowRows == Spec => Cache!LayersFollow
<1> DEFINE Both == [l1 |-> Held(l1), l2 |-> Held(l2)]
<1>1. Init => Cache!Layer!Init
  <2> SUFFICES ASSUME Init PROVE Cache!Layer!Init
      OBVIOUS
  <2>1. \A i \in Items : 1..source[i] = {} /\ l1[i] = {} /\ l2[i] = {}
    BY DEF Init, Cache!Init
  <2>2. Rows = {} /\ Held(l1) = {} /\ Held(l2) = {}
    BY <2>1 DEF Rows, Held
  <2>3. Both = [h \in {"l1", "l2"} |-> {}]
    BY <2>2
  <2> QED BY <2>2, <2>3 DEF Cache!Layer!Init, Rows, Held
<1>2. CacheInv /\ CacheInv' /\ [Next]_vars => [Cache!Layer!Step]_<<Rows, Both>>
  <2> SUFFICES ASSUME CacheInv, CacheInv', [Next]_vars PROVE Cache!Layer!Step
      OBVIOUS
  <2>1. /\ Rows \subseteq Rows'
        /\ Held(l1)' \subseteq Held(l1) \cup Rows
        /\ Held(l2)' \subseteq Held(l2) \cup Rows
    BY CacheTakes
  <2>2. DOMAIN Both' = {"l1", "l2"}
      OBVIOUS
  <2>3. \A h \in {"l1", "l2"} : Both'[h] \subseteq Both[h] \cup Rows
    BY <2>1
  <2> QED BY <2>1, <2>2, <2>3 DEF Cache!Layer!Step, Rows, Held
<1> QED BY <1>1, <1>2, CacheHolds, PTL DEF Spec, Cache!LayersFollow, Cache!Layer!Spec, Rows, Held

(* Without overlaps what was invalidated is fresh.                         *)
LEMMA InvalidatedFresh == CacheInv => Cache!InvalidatedIsFresh
BY DEF CacheInv, CacheAlone, Cache!InvalidatedIsFresh

(***************************************************************************)
(* Brand partners.                                                         *)
(***************************************************************************)
BrandSteps == {"idle", "name", "verify", "save", "clear", "find", "found"}
BrandPairs == Partners \X Brand!BrandPartner
BrandCall ==
    [op : {"none", "create", "update", "delete", "read"}, step : BrandSteps,
     id : Brand!CacheKeys \cup {"none"}, dto : SUBSET Brand!Dto, copy : SUBSET SUBSET BrandPairs]

BrandTypes ==
    /\ DOMAIN partner \subseteq Partners
    /\ partner \in [DOMAIN partner -> Brand!BrandPartner]
    /\ kept \in [Brand!CacheKeys -> SUBSET SUBSET BrandPairs]
    /\ pcall \in [PartnerCalls -> BrandCall]
    /\ mixed \in BOOLEAN /\ ptaken \in 0..MaxPartnerCalls

(* What a call is about, by its operation and step.                        *)
BrandPath(x) ==
    /\ Small(x.copy)
    /\ x.op \in {"update", "delete"} => x.id \in DOMAIN partner
    /\ x.op = "none" <=> x.step = "idle"
    /\ x.op = "read" <=> x.step \in {"find", "found"}
    /\ x.op = "read" => x.id \in Brand!CacheKeys

BrandPaths ==
    /\ \A k \in Brand!CacheKeys : Small(kept[k])
    /\ \A c \in PartnerCalls : BrandPath(pcall[c])

(* What a read finds for a key, and what cached entries are excused by.    *)
Answer(k) ==
    IF k \in Partners THEN {<<k, partner[k]>>}
    ELSE IF k \in Types THEN Brand!findByPartnershipType(k) ELSE Brand!findActive
BrandCarries(x) ==
    x.step = "found" =>
        x.copy = {Answer(x.id)} /\ (x.id \in Partners => x.id \in Brand!Standing)
Clearing == {c \in PartnerCalls : pcall[c].step = "clear"}

BrandAlone ==
    ~mixed =>
        /\ \A c, d \in PartnerCalls : c # d => pcall[c].step = "idle" \/ pcall[d].step = "idle"
        /\ \A c \in PartnerCalls : BrandCarries(pcall[c])
        /\ \A p \in Partners : kept[p] # {} =>
              \/ p \in Brand!Standing /\ kept[p] = {{<<p, partner[p]>>}}
              \/ \E c \in Clearing : pcall[c].id = p
        /\ kept["active"] \subseteq {Brand!findActive} \/ Clearing # {}

BrandInv == BrandTypes /\ BrandPaths /\ BrandAlone

(* Nothing is there at first.                                              *)
LEMMA BrandInit == Brand!Init => BrandInv
<1> SUFFICES ASSUME Brand!Init PROVE BrandInv
    OBVIOUS
<1>1. BrandTypes
  <2>1. Brand!Waiting \in BrandCall
    BY DEF Brand!Waiting, BrandCall, BrandSteps
  <2>2. pcall \in [PartnerCalls -> BrandCall]
    BY <2>1 DEF Brand!Init
  <2>3. kept \in [Brand!CacheKeys -> SUBSET SUBSET BrandPairs]
    BY DEF Brand!Init
  <2>4. DOMAIN partner = {} /\ partner \in [DOMAIN partner -> Brand!BrandPartner]
    BY DEF Brand!Init
  <2>5. ptaken \in 0..MaxPartnerCalls
    BY BoundsAssumption DEF Brand!Init
  <2> QED BY <2>2, <2>3, <2>4, <2>5, Zenon DEF BrandTypes, Brand!Init
<1>2. \A c \in PartnerCalls : pcall[c] = Brand!Waiting
  BY DEF Brand!Init
<1>3. \A k \in Brand!CacheKeys : kept[k] = {}
  BY DEF Brand!Init
<1>4. BrandPaths
  BY <1>2, <1>3 DEF BrandPaths, BrandPath, Brand!Waiting, Small
<1>5. BrandAlone
  BY <1>2, <1>3 DEF BrandAlone, BrandCarries, Brand!Waiting, Brand!CacheKeys
<1> QED BY <1>1, <1>4, <1>5 DEF BrandInv

(* A call that leaves is nowhere.                                          *)
LEMMA BrandWaiting ==
    /\ Brand!Waiting \in BrandCall /\ Brand!Waiting.step = "idle"
    /\ BrandPath(Brand!Waiting) /\ BrandCarries(Brand!Waiting)
BY DEF Brand!Waiting, BrandCall, BrandSteps, BrandPath, BrandCarries, Small

(* What a read finds are pairs of partners and their rows.                 *)
LEMMA BrandAnswers ==
    ASSUME BrandTypes, NEW k \in Brand!CacheKeys, k \in Partners => k \in Brand!Standing
    PROVE  Answer(k) \in SUBSET BrandPairs
<1>1. \A p \in DOMAIN partner : <<p, partner[p]>> \in BrandPairs
  BY DEF BrandTypes, BrandPairs
<1>2. Brand!Standing \subseteq DOMAIN partner
  BY DEF Brand!Standing
<1>3. Brand!findActive \subseteq BrandPairs
  BY <1>1, <1>2 DEF Brand!findActive
<1> QED BY <1>1, <1>2, <1>3 DEF Answer, Brand!findByPartnershipType

(* A step of one call that neither writes a row nor the cache.             *)
LEMMA BrandCallMoves ==
    ASSUME BrandInv, NEW c \in PartnerCalls, NEW x \in BrandCall,
           pcall' = [pcall EXCEPT ![c] = x], UNCHANGED <<partner, kept>>,
           mixed' \in BOOLEAN, mixed => mixed', ptaken' \in 0..MaxPartnerCalls,
           BrandPath(x),
           ~mixed' => /\ BrandCarries(x) /\ pcall[c].step # "clear"
                      /\ \A d \in PartnerCalls : d # c => pcall[d].step = "idle"
    PROVE  BrandInv'
<1>1. pcall \in [PartnerCalls -> BrandCall]
  BY DEF BrandInv, BrandTypes
<1>2. pcall'[c] = x /\ \A d \in PartnerCalls : d # c => pcall'[d] = pcall[d]
  BY <1>1
<1>3. BrandTypes'
  BY <1>1 DEF BrandInv, BrandTypes
<1>4. BrandPaths'
  BY <1>2 DEF BrandInv, BrandPaths, BrandPath
<1>5. BrandAlone'
  <2> SUFFICES ASSUME ~mixed' PROVE BrandAlone'
    BY DEF BrandAlone
  <2>1. ~mixed /\ Clearing = {}
    BY DEF Clearing
  <2>2. /\ \A p \in Partners : kept[p] # {} =>
              p \in Brand!Standing /\ kept[p] = {{<<p, partner[p]>>}}
        /\ kept["active"] \subseteq {Brand!findActive}
    BY <2>1 DEF BrandInv, BrandAlone
  <2>3. \A p \in Partners : kept'[p] # {} =>
              p \in Brand!Standing' /\ kept'[p] = {{<<p, partner'[p]>>}}
    BY <2>2 DEF Brand!Standing
  <2>4. kept'["active"] \subseteq {Brand!findActive'}
    BY <2>2 DEF Brand!findActive, Brand!Standing
  <2>5. \A d \in PartnerCalls : BrandCarries(pcall[d])
    BY <2>1 DEF BrandInv, BrandAlone
  <2>6. \A d \in PartnerCalls : BrandCarries(pcall[d])'
    <3> TAKE d \in PartnerCalls
    <3>1. CASE d = c
      BY <3>1, <1>2 DEF BrandCarries, Answer, Brand!findByPartnershipType, Brand!findActive,
                        Brand!Standing
    <3>2. CASE d # c
      BY <3>2, <1>2 DEF BrandCarries
    <3> QED BY <3>1, <3>2
  <2> QED BY <2>3, <2>4, <2>6, <1>2 DEF BrandAlone
<1> QED BY <1>3, <1>4, <1>5 DEF BrandInv

(* While nothing overlaps, a call in flight is the only one.               *)
LEMMA BrandOne ==
    ASSUME BrandInv, ~mixed, NEW c \in PartnerCalls, pcall[c].step # "idle"
    PROVE  /\ \A d \in PartnerCalls : d # c => pcall[d].step = "idle"
           /\ pcall[c].step # "clear" => Clearing = {}
           /\ BrandCarries(pcall[c])
BY DEF BrandInv, BrandAlone, Clearing

(* A call comes in.                                                        *)
LEMMA BrandTakes ==
    ASSUME BrandInv, NEW c \in PartnerCalls, Brand!Take(c) PROVE BrandInv'
<1>1. /\ pcall[c].step = "idle" /\ ptaken' = ptaken + 1 /\ ptaken < MaxPartnerCalls
      /\ mixed' = (mixed \/ \E d \in PartnerCalls : pcall[d].step # "idle")
      /\ UNCHANGED <<partner, kept>>
  BY DEF Brand!Take
<1>2. /\ mixed' \in BOOLEAN /\ (mixed => mixed') /\ ptaken' \in 0..MaxPartnerCalls
      /\ ~mixed' => \A d \in PartnerCalls : pcall[d].step = "idle"
  <2>1. ptaken' \in 0..MaxPartnerCalls
    BY <1>1, BoundsAssumption DEF BrandInv, BrandTypes
  <2>2. mixed \in BOOLEAN
    BY DEF BrandInv, BrandTypes
  <2> QED BY <1>1, <2>1, <2>2, Zenon
<1>3. DOMAIN partner \subseteq Brand!CacheKeys
  BY DEF BrandInv, BrandTypes, Brand!CacheKeys
<1>4. \E x \in BrandCall : pcall' = [pcall EXCEPT ![c] = x] /\ BrandPath(x) /\ x.step # "found"
  <2>1. CASE \E d \in Brand!Dto :
          pcall' = [pcall EXCEPT ![c] = [Brand!Waiting EXCEPT !.op = "create", !.step = "name", !.dto = {d}]]
    <3> PICK d \in Brand!Dto :
        pcall' = [pcall EXCEPT ![c] = [Brand!Waiting EXCEPT !.op = "create", !.step = "name", !.dto = {d}]]
      BY <2>1
    <3> DEFINE x == [Brand!Waiting EXCEPT !.op = "create", !.step = "name", !.dto = {d}]
    <3>1. x \in BrandCall /\ BrandPath(x) /\ x.step # "found"
      BY DEF Brand!Waiting, BrandCall, BrandSteps, BrandPath, Small
    <3> QED BY <3>1
  <2>2. CASE \E p \in DOMAIN partner, d \in Brand!Dto :
          pcall' = [pcall EXCEPT ![c] =
                      [Brand!Waiting EXCEPT !.op = "update", !.step = "verify", !.id = p, !.dto = {d}]]
    <3>1. PICK p \in DOMAIN partner : \E d \in Brand!Dto :
        pcall' = [pcall EXCEPT ![c] =
                    [Brand!Waiting EXCEPT !.op = "update", !.step = "verify", !.id = p, !.dto = {d}]]
      BY <2>2
    <3>2. PICK d \in Brand!Dto :
        pcall' = [pcall EXCEPT ![c] =
                    [Brand!Waiting EXCEPT !.op = "update", !.step = "verify", !.id = p, !.dto = {d}]]
      BY <3>1
    <3> DEFINE x == [Brand!Waiting EXCEPT !.op = "update", !.step = "verify", !.id = p, !.dto = {d}]
    <3>3. p \in Brand!CacheKeys
      BY <1>3
    <3>4. x \in BrandCall /\ BrandPath(x) /\ x.step # "found"
      BY <3>3 DEF Brand!Waiting, BrandCall, BrandSteps, BrandPath, Small
    <3> QED BY <3>2, <3>4
  <2>3. CASE \E p \in DOMAIN partner :
          pcall' = [pcall EXCEPT ![c] = [Brand!Waiting EXCEPT !.op = "delete", !.step = "verify", !.id = p]]
    <3>1. PICK p \in DOMAIN partner :
        pcall' = [pcall EXCEPT ![c] = [Brand!Waiting EXCEPT !.op = "delete", !.step = "verify", !.id = p]]
      BY <2>3
    <3> DEFINE x == [Brand!Waiting EXCEPT !.op = "delete", !.step = "verify", !.id = p]
    <3>2. p \in Brand!CacheKeys
      BY <1>3
    <3>3. x \in BrandCall /\ BrandPath(x) /\ x.step # "found"
      BY <3>2 DEF Brand!Waiting, BrandCall, BrandSteps, BrandPath, Small
    <3> QED BY <3>1, <3>3
  <2>4. CASE \E k \in Brand!CacheKeys :
          pcall' = IF kept[k] # {} THEN pcall
                   ELSE [pcall EXCEPT ![c] = [Brand!Waiting EXCEPT !.op = "read", !.step = "find", !.id = k]]
    <3>1. PICK k \in Brand!CacheKeys :
        pcall' = IF kept[k] # {} THEN pcall
                 ELSE [pcall EXCEPT ![c] = [Brand!Waiting EXCEPT !.op = "read", !.step = "find", !.id = k]]
      BY <2>4
    <3>2. CASE kept[k] = {}
      <4> DEFINE x == [Brand!Waiting EXCEPT !.op = "read", !.step = "find", !.id = k]
      <4>1. x \in BrandCall /\ BrandPath(x) /\ x.step # "found"
        BY DEF Brand!Waiting, BrandCall, BrandSteps, BrandPath, Small
      <4> QED BY <3>1, <3>2, <4>1
    <3>3. CASE kept[k] # {}
      <4>1. pcall' = [pcall EXCEPT ![c] = pcall[c]] /\ pcall[c] \in BrandCall /\ BrandPath(pcall[c])
        BY <3>1, <3>3 DEF BrandInv, BrandTypes, BrandPaths
      <4> QED BY <4>1, <1>1
    <3> QED BY <3>2, <3>3
  <2> QED BY <2>1, <2>2, <2>3, <2>4 DEF Brand!Take
<1>5. PICK x \in BrandCall : pcall' = [pcall EXCEPT ![c] = x] /\ BrandPath(x) /\ x.step # "found"
  BY <1>4
<1>6. BrandCarries(x)
  BY <1>5 DEF BrandCarries
<1> QED BY <1>1, <1>2, <1>5, <1>6, BrandCallMoves

(* Its checks, and what it finds.                                          *)
LEMMA BrandChecks ==
    ASSUME BrandInv, NEW c \in PartnerCalls,
           Brand!Find(c) \/ Brand!VerifyPartner(c) \/ Brand!CheckName(c)
    PROVE  BrandInv'
<1>1. /\ UNCHANGED <<partner, kept, mixed, ptaken>>
      /\ pcall[c].step \in {"find", "verify", "name"}
  BY DEF Brand!Find, Brand!VerifyPartner, Brand!CheckName, Brand!Steady
<1>2. /\ mixed \in BOOLEAN /\ ptaken \in 0..MaxPartnerCalls /\ pcall \in [PartnerCalls -> BrandCall]
      /\ pcall[c] \in BrandCall /\ BrandPath(pcall[c])
  BY DEF BrandInv, BrandTypes, BrandPaths
<1>3. ~mixed => \A d \in PartnerCalls : d # c => pcall[d].step = "idle"
  BY <1>1, BrandOne
<1>4. \E x \in BrandCall : pcall' = [pcall EXCEPT ![c] = x] /\ BrandPath(x) /\ BrandCarries(x)
  <2>1. CASE Brand!Leave(c)
    BY <2>1, BrandWaiting DEF Brand!Leave
  <2>2. CASE /\ pcall[c].step \in {"verify", "name"}
             /\ \E s \in {"name", "save"} : Brand!Goto(c, s)
    <3>1. PICK s \in {"name", "save"} : Brand!Goto(c, s)
      BY <2>2
    <3> DEFINE x == [pcall[c] EXCEPT !.step = s]
    <3>2. x \in BrandCall /\ x.step = s /\ x.op = pcall[c].op /\ x.id = pcall[c].id
            /\ x.copy = pcall[c].copy
      BY <1>2 DEF BrandCall, BrandSteps
    <3>3. pcall' = [pcall EXCEPT ![c] = x]
      BY <3>1, <1>2 DEF Brand!Goto
    <3> HIDE DEF x
    <3>4. BrandPath(x) /\ BrandCarries(x)
      BY <2>2, <3>2, <1>2 DEF BrandPath, BrandCarries
    <3> QED BY <3>2, <3>3, <3>4
  <2>3. CASE Brand!Find(c) /\ ~Brand!Leave(c)
    <3> DEFINE k == pcall[c].id
               x == [pcall[c] EXCEPT !.step = "found", !.copy = {Answer(k)}]
    <3>1. k \in Brand!CacheKeys /\ (k \in Partners => k \in Brand!Standing) /\ pcall[c].op = "read"
      BY <2>3, <1>2 DEF Brand!Find, BrandPath
    <3>2. Answer(k) \in SUBSET BrandPairs
      BY <3>1, BrandAnswers DEF BrandInv
    <3>3. x \in BrandCall /\ x.step = "found" /\ x.id = k /\ x.copy = {Answer(k)} /\ x.op = "read"
      BY <3>1, <3>2, <1>2 DEF BrandCall, BrandSteps
    <3>4. pcall' = [pcall EXCEPT ![c] = x]
      BY <2>3, <3>1, <1>2 DEF Brand!Find, Answer
    <3> HIDE DEF x
    <3>5. BrandPath(x) /\ BrandCarries(x)
      BY <3>1, <3>3 DEF BrandPath, BrandCarries, Small
    <3> QED BY <3>3, <3>4, <3>5
  <2> QED BY <2>1, <2>2, <2>3 DEF Brand!Find, Brand!VerifyPartner, Brand!CheckName
<1>5. PICK x \in BrandCall : pcall' = [pcall EXCEPT ![c] = x] /\ BrandPath(x) /\ BrandCarries(x)
  BY <1>4
<1> QED BY <1>1, <1>2, <1>3, <1>5, BrandCallMoves

(* A read's answer goes into the cache.                                    *)
LEMMA BrandPuts ==
    ASSUME BrandInv, NEW c \in PartnerCalls, Brand!PutInCache(c) PROVE BrandInv'
<1> DEFINE k == pcall[c].id
<1>1. /\ pcall[c].step = "found" /\ kept' = [kept EXCEPT ![k] = pcall[c].copy]
      /\ pcall' = [pcall EXCEPT ![c] = Brand!Waiting] /\ UNCHANGED <<partner, mixed, ptaken>>
  BY DEF Brand!PutInCache, Brand!Leave, Brand!Steady
<1>2. /\ pcall \in [PartnerCalls -> BrandCall] /\ kept \in [Brand!CacheKeys -> SUBSET SUBSET BrandPairs]
      /\ pcall[c] \in BrandCall /\ BrandPath(pcall[c])
  BY DEF BrandInv, BrandTypes, BrandPaths
<1>3. k \in Brand!CacheKeys /\ pcall[c].copy \in SUBSET SUBSET BrandPairs /\ Small(pcall[c].copy)
  BY <1>1, <1>2 DEF BrandPath, BrandCall
<1>4. pcall'[c] = Brand!Waiting /\ \A d \in PartnerCalls : d # c => pcall'[d] = pcall[d]
  BY <1>1, <1>2
<1>5. BrandTypes'
  <2>1. pcall' \in [PartnerCalls -> BrandCall]
    BY <1>1, <1>2, BrandWaiting
  <2>2. kept' \in [Brand!CacheKeys -> SUBSET SUBSET BrandPairs]
    BY <1>1, <1>2, <1>3
  <2> QED BY <2>1, <2>2, <1>1 DEF BrandInv, BrandTypes
<1>6. BrandPaths'
  <2>1. \A d \in PartnerCalls : BrandPath(pcall[d])'
    <3> TAKE d \in PartnerCalls
    <3>1. CASE d = c
      BY <3>1, <1>1, <1>4, BrandWaiting DEF BrandPath
    <3>2. CASE d # c
      BY <3>2, <1>1, <1>4 DEF BrandInv, BrandPaths, BrandPath
    <3> QED BY <3>1, <3>2
  <2>2. \A j \in Brand!CacheKeys : Small(kept'[j])
    <3> TAKE j \in Brand!CacheKeys
    <3>1. kept'[j] = kept[j] \/ kept'[j] = pcall[c].copy
      BY <1>1, <1>2
    <3> QED BY <3>1, <1>3 DEF BrandInv, BrandPaths
  <2> QED BY <2>1, <2>2 DEF BrandPaths, BrandPath
<1>7. BrandAlone'
  <2> SUFFICES ASSUME ~mixed' PROVE BrandAlone'
    BY DEF BrandAlone
  <2>1. /\ ~mixed /\ \A d \in PartnerCalls : d # c => pcall[d].step = "idle"
        /\ Clearing = {} /\ BrandCarries(pcall[c])
    BY <1>1, BrandOne
  <2>2. \A d \in PartnerCalls : pcall'[d].step = "idle"
    BY <2>1, <1>4, BrandWaiting
  <2>3. pcall[c].copy = {Answer(k)} /\ (k \in Partners => k \in Brand!Standing)
    BY <2>1, <1>1 DEF BrandCarries
  <2>4. \A p \in Partners : kept'[p] # {} =>
            p \in Brand!Standing /\ kept'[p] = {{<<p, partner[p]>>}}
    <3> SUFFICES ASSUME NEW p \in Partners, kept'[p] # {}
                 PROVE  p \in Brand!Standing /\ kept'[p] = {{<<p, partner[p]>>}}
        OBVIOUS
    <3>1. p \in Brand!CacheKeys
      BY DEF Brand!CacheKeys
    <3>2. CASE p = k
      BY <3>1, <3>2, <2>3, <1>1, <1>2 DEF Answer
    <3>3. CASE p # k
      <4>1. kept'[p] = kept[p]
        BY <3>1, <3>3, <1>1, <1>2
      <4> QED BY <4>1, <2>1 DEF BrandInv, BrandAlone
    <3> QED BY <3>2, <3>3
  <2>5. kept'["active"] \subseteq {Brand!findActive}
    <3>1. "active" \in Brand!CacheKeys
      BY DEF Brand!CacheKeys
    <3>2. CASE k = "active"
      BY <3>1, <3>2, <2>3, <1>1, <1>2, KeysAssumption DEF Answer
    <3>3. CASE k # "active"
      <4>1. kept'["active"] = kept["active"]
        BY <3>1, <3>3, <1>1, <1>2
      <4> QED BY <4>1, <2>1 DEF BrandInv, BrandAlone
    <3> QED BY <3>2, <3>3
  <2>6. Brand!Standing' = Brand!Standing /\ Brand!findActive' = Brand!findActive
    BY <1>1 DEF Brand!Standing, Brand!findActive
  <2> HIDE DEF k
  <2> QED BY <2>2, <2>4, <2>5, <2>6, <1>1 DEF BrandAlone, BrandCarries
<1> QED BY <1>5, <1>6, <1>7 DEF BrandInv

(* A row is written or marked as deleted, and its entry waits to be        *)
(* cleared.                                                                *)
LEMMA BrandWrites ==
    ASSUME BrandInv, NEW c \in PartnerCalls, Brand!SavePartner(c) \/ Brand!DeletePartner(c)
    PROVE  BrandInv'
<1>1. /\ UNCHANGED <<kept, mixed, ptaken>> /\ pcall[c].step = "save"
      /\ pcall[c].op \in {"create", "update", "delete"}
  BY DEF Brand!SavePartner, Brand!DeletePartner, Brand!Steady
<1>2. /\ mixed \in BOOLEAN /\ ptaken \in 0..MaxPartnerCalls /\ pcall \in [PartnerCalls -> BrandCall]
      /\ pcall[c] \in BrandCall /\ BrandPath(pcall[c])
      /\ DOMAIN partner \subseteq Partners /\ partner \in [DOMAIN partner -> Brand!BrandPartner]
  BY DEF BrandInv, BrandTypes, BrandPaths
<1>3. ~mixed => /\ \A d \in PartnerCalls : d # c => pcall[d].step = "idle"
                /\ Clearing = {} /\ BrandCarries(pcall[c])
  BY <1>1, BrandOne
<1>4. CASE Brand!Leave(c) /\ UNCHANGED partner
  BY <1>1, <1>2, <1>3, <1>4, BrandWaiting, BrandCallMoves DEF Brand!Leave
<1>5. CASE \E p \in Partners :
             /\ Brand!Goto(c, "clear")
             /\ DOMAIN partner' = DOMAIN partner \cup {p}
             /\ partner' \in [DOMAIN partner' -> Brand!BrandPartner]
             /\ \A q \in DOMAIN partner : q # p => partner'[q] = partner[q]
             /\ p = pcall[c].id \/ p \notin DOMAIN partner
  <2>1. PICK p \in Partners :
           /\ Brand!Goto(c, "clear")
           /\ DOMAIN partner' = DOMAIN partner \cup {p}
           /\ partner' \in [DOMAIN partner' -> Brand!BrandPartner]
           /\ \A q \in DOMAIN partner : q # p => partner'[q] = partner[q]
           /\ p = pcall[c].id \/ p \notin DOMAIN partner
    BY <1>5
  <2> DEFINE x == [pcall[c] EXCEPT !.step = "clear"]
  <2>2. x \in BrandCall /\ x.step = "clear" /\ x.op = pcall[c].op /\ x.id = pcall[c].id
          /\ x.copy = pcall[c].copy
    BY <1>2 DEF BrandCall, BrandSteps
  <2>3. pcall' = [pcall EXCEPT ![c] = x]
    BY <2>1, <1>2 DEF Brand!Goto
  <2> HIDE DEF x
  <2>4. pcall'[c] = x /\ \A d \in PartnerCalls : d # c => pcall'[d] = pcall[d]
    BY <2>3, <1>2
  <2>5. BrandTypes'
    <3>1. pcall' \in [PartnerCalls -> BrandCall]
      BY <2>2, <2>3, <1>2
    <3> QED BY <3>1, <2>1, <1>1, <1>2 DEF BrandInv, BrandTypes
  <2>6. BrandPaths'
    <3>1. \A d \in PartnerCalls : BrandPath(pcall[d])'
      <4> TAKE d \in PartnerCalls
      <4>1. CASE d = c
        BY <4>1, <2>1, <2>2, <2>4, <1>1, <1>2 DEF BrandPath
      <4>2. CASE d # c
        BY <4>2, <2>1, <2>4 DEF BrandInv, BrandPaths, BrandPath
      <4> QED BY <4>1, <4>2
    <3> QED BY <3>1, <1>1 DEF BrandInv, BrandPaths, BrandPath
  <2>7. BrandAlone'
    <3> SUFFICES ASSUME ~mixed' PROVE BrandAlone'
      BY DEF BrandAlone
    <3>1. ~mixed
      BY <1>1
    <3>2. Clearing' = {c}
      BY <3>1, <2>2, <2>4, <1>3 DEF Clearing
    <3>3. \A d \in PartnerCalls : pcall'[d].step \in {"idle", "clear"}
      BY <3>1, <2>2, <2>4, <1>3
    <3>4. \A q \in Partners : kept[q] # {} => q \in Brand!Standing /\ kept[q] = {{<<q, partner[q]>>}}
      BY <3>1, <1>3 DEF BrandInv, BrandAlone
    <3>5. \A q \in Partners : kept'[q] # {} =>
            \/ q \in Brand!Standing' /\ kept'[q] = {{<<q, partner'[q]>>}}
            \/ pcall'[c].id = q
      <4> SUFFICES ASSUME NEW q \in Partners, kept'[q] # {}, pcall'[c].id # q
                   PROVE  q \in Brand!Standing' /\ kept'[q] = {{<<q, partner'[q]>>}}
          OBVIOUS
      <4>1. q \in Brand!Standing /\ kept[q] = {{<<q, partner[q]>>}}
        BY <3>4, <1>1
      <4>2. q \in DOMAIN partner /\ q # p
        BY <4>1, <2>1, <2>2, <2>4 DEF Brand!Standing
      <4> QED BY <4>1, <4>2, <2>1, <1>1 DEF Brand!Standing
    <3> QED BY <3>1, <3>2, <3>3, <3>5, <2>4, <1>3 DEF BrandAlone, BrandCarries
  <2> QED BY <2>5, <2>6, <2>7 DEF BrandInv
<1>6. CASE Brand!DeletePartner(c)
  <2>1. pcall[c].id \in DOMAIN partner
    BY <1>6, <1>2 DEF Brand!DeletePartner, BrandPath
  <2>2. [partner[pcall[c].id] EXCEPT !.deleted = TRUE] \in Brand!BrandPartner
    BY <2>1, <1>2 DEF Brand!BrandPartner
  <2>3. /\ DOMAIN partner' = DOMAIN partner \cup {pcall[c].id}
        /\ partner' \in [DOMAIN partner' -> Brand!BrandPartner]
        /\ \A q \in DOMAIN partner : q # pcall[c].id => partner'[q] = partner[q]
    BY <2>1, <2>2, <1>2, <1>6 DEF Brand!DeletePartner
  <2> QED BY <2>1, <2>3, <1>2, <1>5, <1>6 DEF Brand!DeletePartner
<1>7. CASE Brand!SavePartner(c) /\ ~(Brand!Leave(c) /\ UNCHANGED partner)
  <2>1. PICK d \in pcall[c].dto :
           /\ Brand!Goto(c, "clear")
           /\ \E p \in IF pcall[c].op = "create" THEN Partners \ DOMAIN partner ELSE {pcall[c].id} :
                partner' = [q \in DOMAIN partner \cup {p} |-> IF q = p THEN d ELSE partner[q]]
    BY <1>7 DEF Brand!SavePartner
  <2>2. PICK p \in IF pcall[c].op = "create" THEN Partners \ DOMAIN partner ELSE {pcall[c].id} :
           partner' = [q \in DOMAIN partner \cup {p} |-> IF q = p THEN d ELSE partner[q]]
    BY <2>1
  <2>3. d \in Brand!BrandPartner
    BY <1>2 DEF BrandCall, Brand!Dto
  <2>4. p \in Partners /\ (p = pcall[c].id \/ p \notin DOMAIN partner)
    BY <2>2, <1>2, <1>7 DEF Brand!SavePartner, BrandPath
  <2>5. /\ DOMAIN partner' = DOMAIN partner \cup {p}
        /\ partner' \in [DOMAIN partner' -> Brand!BrandPartner]
        /\ \A q \in DOMAIN partner : q # p => partner'[q] = partner[q]
    BY <2>2, <2>3, <1>2
  <2> QED BY <2>1, <2>4, <2>5, <1>5
<1> QED BY <1>4, <1>6, <1>7

(* What the write has made stale is dropped, or an entry's time is over.   *)
LEMMA BrandClears ==
    ASSUME BrandInv, (\E c \in PartnerCalls : Brand!ClearCaches(c)) \/ Brand!ExpireKept
    PROVE  BrandInv'
<1>1. /\ pcall \in [PartnerCalls -> BrandCall] /\ kept \in [Brand!CacheKeys -> SUBSET SUBSET BrandPairs]
      /\ UNCHANGED <<partner, mixed, ptaken>>
  BY DEF BrandInv, BrandTypes, Brand!ClearCaches, Brand!ExpireKept, Brand!Steady
<1>2. /\ kept' \in [Brand!CacheKeys -> SUBSET SUBSET BrandPairs]
      /\ \A k \in Brand!CacheKeys : kept'[k] \in {kept[k], {}}
  BY <1>1 DEF Brand!ClearCaches, Brand!ExpireKept
<1>3. \A k \in Brand!CacheKeys : Small(kept'[k])
  BY <1>2 DEF BrandInv, BrandPaths, Small
<1>4. Brand!Standing' = Brand!Standing /\ Brand!findActive' = Brand!findActive
  BY <1>1 DEF Brand!Standing, Brand!findActive
<1>5. Partners \subseteq Brand!CacheKeys /\ "active" \in Brand!CacheKeys
  BY DEF Brand!CacheKeys
<1>6. CASE Brand!ExpireKept
  <2>1. UNCHANGED pcall
    BY <1>6 DEF Brand!ExpireKept
  <2>2. BrandTypes'
    BY <2>1, <1>1, <1>2 DEF BrandInv, BrandTypes
  <2>3. BrandPaths'
    BY <2>1, <1>1, <1>3 DEF BrandInv, BrandPaths, BrandPath
  <2>4. BrandAlone'
    <3>1. \A c \in PartnerCalls : BrandCarries(pcall[c])' <=> BrandCarries(pcall[c])
      BY <2>1, <1>1, <1>4 DEF BrandCarries, Answer, Brand!findByPartnershipType
    <3>2. Clearing' = Clearing
      BY <2>1 DEF Clearing
    <3> QED BY <3>1, <3>2, <2>1, <1>1, <1>2, <1>4, <1>5 DEF BrandInv, BrandAlone
  <2> QED BY <2>2, <2>3, <2>4 DEF BrandInv
<1>7. ASSUME NEW c \in PartnerCalls, Brand!ClearCaches(c) PROVE BrandInv'
  <2>1. pcall[c].step = "clear" /\ pcall' = [pcall EXCEPT ![c] = Brand!Waiting]
    BY <1>7 DEF Brand!ClearCaches, Brand!Leave
  <2>2. pcall'[c] = Brand!Waiting /\ \A d \in PartnerCalls : d # c => pcall'[d] = pcall[d]
    BY <2>1, <1>1
  <2>3. BrandTypes'
    <3>1. pcall' \in [PartnerCalls -> BrandCall]
      BY <2>1, <1>1, BrandWaiting
    <3> QED BY <3>1, <1>1, <1>2 DEF BrandInv, BrandTypes
  <2>4. BrandPaths'
    <3>1. \A d \in PartnerCalls : BrandPath(pcall[d])'
      <4> TAKE d \in PartnerCalls
      <4>1. CASE d = c
        BY <4>1, <1>1, <2>2, BrandWaiting DEF BrandPath
      <4>2. CASE d # c
        BY <4>2, <1>1, <2>2 DEF BrandInv, BrandPaths, BrandPath
      <4> QED BY <4>1, <4>2
    <3> QED BY <3>1, <1>3 DEF BrandPaths, BrandPath
  <2>5. BrandAlone'
    <3> SUFFICES ASSUME ~mixed' PROVE BrandAlone'
      BY DEF BrandAlone
    <3>1. ~mixed /\ \A d \in PartnerCalls : d # c => pcall[d].step = "idle"
      BY <1>1, <2>1, BrandOne
    <3>2. \A d \in PartnerCalls : pcall'[d].step = "idle"
      BY <3>1, <2>2, BrandWaiting
    <3>3. \A k \in Brand!CacheKeys : kept'[k] = IF k \in {pcall[c].id, "active"} THEN {} ELSE kept[k]
      BY <1>7 DEF Brand!ClearCaches
    <3>4. Clearing = {c}
      BY <3>1, <2>1 DEF Clearing
    <3>5. \A p \in Partners : kept'[p] # {} =>
            p \in Brand!Standing /\ kept'[p] = {{<<p, partner[p]>>}}
      BY <3>1, <3>3, <3>4, <1>5 DEF BrandInv, BrandAlone
    <3> QED BY <3>2, <3>3, <3>5, <1>1, <1>4, <1>5 DEF BrandAlone, BrandCarries
  <2> QED BY <2>3, <2>4, <2>5 DEF BrandInv
<1> QED BY <1>6, <1>7

(* The other services leave the partners alone.                            *)
LEMMA BrandRests == BrandInv /\ UNCHANGED partnerVars => BrandInv'
BY DEF BrandInv, BrandTypes, BrandPaths, BrandPath, BrandAlone, BrandCarries, Clearing, Answer,
       Brand!findByPartnershipType, Brand!findActive, Brand!Standing, partnerVars

(* Brand partners, whatever moves.                                         *)
LEMMA BrandNext == BrandInv /\ [Next]_vars => BrandInv'
<1> SUFFICES ASSUME BrandInv, [Next]_vars PROVE BrandInv'
    OBVIOUS
<1>1. CASE UNCHANGED partnerVars
  BY <1>1, BrandRests
<1>2. CASE ~UNCHANGED partnerVars
  <2>1. \/ Brand!ExpireKept
        \/ \E c \in PartnerCalls :
            \/ Brand!Take(c) \/ Brand!Find(c) \/ Brand!PutInCache(c) \/ Brand!VerifyPartner(c)
            \/ Brand!CheckName(c) \/ Brand!SavePartner(c) \/ Brand!DeletePartner(c)
            \/ Brand!ClearCaches(c)
    BY <1>2 DEF Next, vars, OnItem, OnCache, OnCollection, OnBrand, OnIndex, OnRecommend,
                OnInteract, OnSearch
  <2> QED BY <2>1, BrandTakes, BrandChecks, BrandPuts, BrandWrites, BrandClears
<1> QED BY <1>1, <1>2

(* The invariant of the brand partners.                                    *)
LEMMA BrandHolds == Spec => []BrandInv
<1>1. Init => BrandInv
  BY BrandInit DEF Init
<1> QED BY <1>1, BrandNext, PTL DEF Spec

(* Without overlaps, cached partners are those of the database.            *)
LEMMA BrandFresh == BrandInv => Brand!KeptFreshAlone
BY DEF BrandInv, BrandAlone, Brand!KeptFreshAlone, Clearing

(***************************************************************************)
(* Collections.                                                            *)
(***************************************************************************)
CollSteps == {"idle", "name", "verify", "save", "exists", "order", "insert", "clear", "find", "found"}
CollWrites == {"create", "update", "delete"}
CollChanges == {"update", "delete", "add", "remove", "reorder"}
CollDto == {d \in Collection!Collection : ~d.deleted}
CollMember == [coll : Colls, item : Items, order : Nat]
CollValues ==
    [row : Collection!Collection, items : SUBSET CollMember, nested : SUBSET (Items \X Nat)]
        \cup SUBSET (Colls \X Collection!Collection)
CollCall ==
    [op : CollWrites \cup CollChanges \cup {"none", "read"}, step : CollSteps,
     coll : Collection!Keys \cup {"none"}, row : SUBSET Collection!Collection,
     dto : SUBSET (CollDto \cup CollValues), item : SUBSET Items, order : SUBSET Nat]

(* Places are numbers below some bound: there is always a greatest.        *)
CollTypes ==
    /\ DOMAIN coll \subseteq Colls
    /\ coll \in [DOMAIN coll -> Collection!Collection]
    /\ member \subseteq CollMember /\ \E b \in Nat : \A m \in member : m.order \in 0..b
    /\ stock \in [Items -> Nat] /\ \A i \in Items : stock[i] <= ctaken
    /\ shelf \in [Collection!Keys -> SUBSET CollValues]
    /\ ccall \in [CollCalls -> CollCall]
    /\ together \in BOOLEAN /\ placed \in BOOLEAN /\ ctaken \in 0..MaxCollTaken

(* What a call is about, by its operation and step.                        *)
CollPath(x) ==
    /\ x.op = "none" <=> x.step = "idle"
    /\ x.op = "read" <=> x.step \in {"find", "found"}
    /\ x.op = "read" => x.coll \in Collection!Keys
    /\ x.op \in CollChanges => x.coll \in DOMAIN coll
    /\ x.op \in {"create", "update"} => x.dto \subseteq CollDto
    /\ x.step = "name" => x.op \in {"create", "update"}
    /\ x.step = "verify" => x.op \in CollChanges
    /\ x.step \in {"exists", "order"} => x.op = "add"
    /\ x.step = "insert" => x.op \in {"add", "reorder"}
    /\ x.step = "found" => x.dto \subseteq CollValues /\ Small(x.dto)
    /\ Small(x.item) /\ Small(x.order)

(* What a read may find for a key, now or before items were written.       *)
FeaturedLists == UNION {Collection!findFeatured(n) : n \in Limits}
Versions(k) == {Collection!AsOf(k, s) : s \in Collection!Earlier}
ShelfValues(k) ==
    CASE k = "featured" -> FeaturedLists [] k = "list" -> {Collection!findPublic}
      [] OTHER -> Versions(k)

(* The clearing that a stale entry waits for.                              *)
Drops(x, k) == x.step = "clear" /\ x.op # "create" /\ x.coll = k
DropsFeatured(x) == x.step = "clear" /\ x.op \in CollWrites /\ \E r \in x.row : r.featured

CollCarries(x) ==
    /\ x.step = "found" =>
         x.dto \subseteq ShelfValues(x.coll) /\ (x.coll \in Colls => x.coll \in Collection!Open)
    /\ (x.op = "update" /\ x.step \in {"name", "save"}) \/ (x.op = "delete" /\ x.step = "save") =>
         x.coll \in Collection!Open /\ x.row = {coll[x.coll]}

CollAlone ==
    ~together =>
        /\ \A c, d \in CollCalls : c # d => ccall[c].step = "idle" \/ ccall[d].step = "idle"
        /\ \A c \in CollCalls : CollCarries(ccall[c])
        /\ \A k \in Colls : shelf[k] # {} =>
              \/ k \in Collection!Open /\ shelf[k] \subseteq Versions(k)
              \/ \E c \in CollCalls : Drops(ccall[c], k)
        /\ \/ shelf["featured"] \subseteq FeaturedLists
           \/ \E c \in CollCalls : DropsFeatured(ccall[c])

(* A name is taken after nobody was seen to have it; a place is beyond all *)
(* others, unless users place.                                             *)
Unnamed(x) ==
    /\ x.op = "create" /\ x.step = "save" =>
         \A k \in Collection!Open, d \in x.dto : coll[k].name # d.name
    /\ x.op = "update" /\ x.step = "save" =>
         \A k \in Collection!Open, d \in x.dto : coll[k].name = d.name => k = x.coll
Places(x) ==
    /\ x.op # "reorder"
    /\ x.op = "add" /\ x.step \in {"verify", "exists", "order"} => x.order = {}
    /\ x.step = "insert" => \A m \in Collection!In(x.coll), o \in x.order : m.order < o

NamesApart == \A j, k \in Collection!Open : coll[j].name = coll[k].name => j = k
PlacesApart == \A m, n \in member : m.coll = n.coll /\ m.order = n.order => m = n
CollTidy ==
    ~together =>
        /\ \A c \in CollCalls : Unnamed(ccall[c])
        /\ NamesApart
        /\ ~placed => (\A c \in CollCalls : Places(ccall[c])) /\ PlacesApart

CollPaths ==
    (\A k \in Collection!Keys : Small(shelf[k])) /\ \A c \in CollCalls : CollPath(ccall[c])
CollInv == CollTypes /\ CollPaths /\ CollAlone /\ CollTidy

(* Numbers below a bound have a greatest, which induction over the finite  *)
(* sets of them shows.                                                     *)
LEMMA Greatest ==
    ASSUME NEW b \in Nat, NEW S \in SUBSET (0..b), S # {}
    PROVE  \E x \in S : \A y \in S : x >= y
<1> DEFINE R == 0..b
           Topped(U) == \E x \in U : \A y \in U : x >= y
           T == {U \in SUBSET R : U # {} /\ ~Topped(U)}
<1>1. SUFFICES ASSUME T # {} PROVE FALSE
    OBVIOUS
<1>2. IsFiniteSet(R)
  BY FS_Interval
<1>3. IsWellFoundedOn(StrictSubsetOrdering(R), SUBSET R)
  BY <1>2, FS_StrictSubsetOrderingWellFounded, FS_FiniteSubsetsOfFinite
<1>4. PICK U \in T : \A V \in T : <<V, U>> \notin StrictSubsetOrdering(R)
  <2>1. T \subseteq SUBSET R
      OBVIOUS
  <2> HIDE DEF T
  <2> QED BY <1>1, <1>3, <2>1, WFMin
<1>5. PICK x \in U : TRUE
    OBVIOUS
<1> DEFINE V == U \ {x}
<1>6. V \subseteq U /\ V # U /\ V \in SUBSET R
  BY <1>5
<1>7. V \notin T
  <2>1. <<V, U>> \in StrictSubsetOrdering(R)
    BY <1>6 DEF StrictSubsetOrdering
  <2> QED BY <1>4, <2>1
<1>8. \A y \in U : y \in Int
    OBVIOUS
<1>9. CASE V = {}
  <2>1. U = {x} /\ x \in Int
    BY <1>5, <1>8, <1>9
  <2> QED BY <2>1
<1>10. CASE V # {}
  <2>1. PICK m \in V : \A y \in V : m >= y
    BY <1>6, <1>7, <1>10
  <2>2. CASE m >= x
    BY <1>6, <2>1, <2>2
  <2>3. CASE ~(m >= x)
    BY <1>5, <1>8, <2>1, <2>3
  <2> QED BY <2>2, <2>3
<1> QED BY <1>9, <1>10

(* A call that leaves is nowhere.                                          *)
LEMMA CollIdle ==
    /\ Collection!Idle \in CollCall /\ Collection!Idle.step = "idle"
    /\ CollPath(Collection!Idle) /\ CollCarries(Collection!Idle)
    /\ Unnamed(Collection!Idle) /\ Places(Collection!Idle)
<1>1. Collection!Idle \in CollCall /\ Collection!Idle.step = "idle"
  BY DEF Collection!Idle, CollCall, CollSteps
<1> QED BY <1>1 DEF Collection!Idle, CollPath, CollCarries, Unnamed, Places, Small, CollChanges

(* One collection is there at first, with items placed one by one.         *)
LEMMA CollInit == Collection!Init => CollInv
<1> SUFFICES ASSUME Collection!Init PROVE CollInv
    OBVIOUS
<1>1. PICK k \in Colls : \E place \in [Items -> 1..Cardinality(Items)] :
        /\ coll \in [{k} -> {r \in Collection!Collection : ~r.deleted}]
        /\ \A i, j \in Items : place[i] = place[j] => i = j
        /\ member = {[coll |-> k, item |-> i, order |-> place[i]] : i \in Items}
  <2>1. \A S : Collection!Cardinality(S) = Cardinality(S)
    BY DEF Collection!Cardinality, Cardinality
  <2> QED BY <2>1 DEF Collection!Init
<1>2. PICK place \in [Items -> 1..Cardinality(Items)] :
        /\ \A i, j \in Items : place[i] = place[j] => i = j
        /\ member = {[coll |-> k, item |-> i, order |-> place[i]] : i \in Items}
  BY <1>1
<1>3. Cardinality(Items) \in Nat
  BY IdsAssumption, FS_CardinalityType
<1>4. \A m \in member : m \in CollMember /\ m.order \in 0..Cardinality(Items)
  BY <1>2, <1>3 DEF CollMember
<1>5. DOMAIN coll = {k} /\ coll[k] \in Collection!Collection
  BY <1>1
<1>6. \A c \in CollCalls : ccall[c] = Collection!Idle
  BY DEF Collection!Init
<1>7. \A q \in Collection!Keys : shelf[q] = {}
  BY DEF Collection!Init
<1>8. CollTypes
  <2>1. ccall \in [CollCalls -> CollCall] /\ shelf \in [Collection!Keys -> SUBSET CollValues]
    BY CollIdle DEF Collection!Init
  <2>2. DOMAIN coll \subseteq Colls /\ coll \in [DOMAIN coll -> Collection!Collection]
    BY <1>1, <1>5
  <2>3. member \subseteq CollMember /\ \E b \in Nat : \A m \in member : m.order \in 0..b
    BY <1>3, <1>4
  <2>4. ctaken \in 0..MaxCollTaken
    BY BoundsAssumption DEF Collection!Init
  <2>5. stock \in [Items -> Nat] /\ \A i \in Items : stock[i] <= ctaken
    BY DEF Collection!Init
  <2> QED BY <2>1, <2>2, <2>3, <2>4, <2>5, Zenon DEF CollTypes, Collection!Init
<1>9. CollAlone
  BY <1>6, <1>7, CollIdle DEF CollAlone, Collection!Keys
<1>10. CollTidy
  <2>1. NamesApart
    BY <1>5 DEF NamesApart, Collection!Open
  <2>2. PlacesApart
    BY <1>2 DEF PlacesApart
  <2> QED BY <2>1, <2>2, <1>6, CollIdle DEF CollTidy
<1> QED BY <1>6, <1>7, <1>8, <1>9, <1>10, CollIdle DEF CollInv, CollPaths, Small

(* While nothing overlaps, a call in flight is the only one.               *)
LEMMA CollOne ==
    ASSUME CollInv, ~together, NEW c \in CollCalls, ccall[c].step # "idle"
    PROVE  /\ \A d \in CollCalls : d # c => ccall[d].step = "idle"
           /\ CollCarries(ccall[c]) /\ Unnamed(ccall[c]) /\ NamesApart
           /\ ~placed => Places(ccall[c]) /\ PlacesApart
BY DEF CollInv, CollAlone, CollTidy

(* A step of one call that writes neither rows nor the cache.              *)
LEMMA CollCallMoves ==
    ASSUME CollInv, NEW c \in CollCalls, NEW x \in CollCall,
           ccall' = [ccall EXCEPT ![c] = x], UNCHANGED <<coll, member, stock, shelf>>,
           together' \in BOOLEAN, together => together',
           ctaken' \in 0..MaxCollTaken, ctaken' >= ctaken,
           placed' \in BOOLEAN, placed => placed', CollPath(x),
           ~together' => /\ CollCarries(x) /\ Unnamed(x) /\ ccall[c].step # "clear"
                         /\ \A d \in CollCalls : d # c => ccall[d].step = "idle"
                         /\ ~placed' => Places(x)
    PROVE  CollInv'
<1>1. ccall \in [CollCalls -> CollCall]
  BY DEF CollInv, CollTypes
<1>2. ccall'[c] = x /\ \A d \in CollCalls : d # c => ccall'[d] = ccall[d]
  BY <1>1
<1>3. CollTypes'
  <2>1. ccall' \in [CollCalls -> CollCall]
    BY <1>1
  <2>2. \A i \in Items : stock'[i] <= ctaken'
    BY DEF CollInv, CollTypes
  <2> QED BY <2>1, <2>2 DEF CollInv, CollTypes
<1>4. /\ Collection!Open' = Collection!Open /\ FeaturedLists' = FeaturedLists
      /\ Collection!findPublic' = Collection!findPublic
      /\ \A k : Versions(k)' = Versions(k)
      /\ \A k : Collection!In(k)' = Collection!In(k)
  BY DEF Collection!Open, FeaturedLists, Collection!AllFeatured, Collection!findFeatured, Collection!findPublic,
         Versions, Collection!AsOf, Collection!Earlier, Collection!In
<1>5. \A d \in CollCalls : d # c =>
        /\ CollPath(ccall[d])' = CollPath(ccall[d]) /\ CollCarries(ccall[d])' = CollCarries(ccall[d])
        /\ Unnamed(ccall[d])' = Unnamed(ccall[d]) /\ Places(ccall[d])' = Places(ccall[d])
  BY <1>2, <1>4 DEF CollPath, CollCarries, Unnamed, Places, ShelfValues
<1>6. /\ CollPath(ccall[c])' = CollPath(x) /\ CollCarries(ccall[c])' = CollCarries(x)
      /\ Unnamed(ccall[c])' = Unnamed(x) /\ Places(ccall[c])' = Places(x)
  BY <1>2, <1>4 DEF CollPath, CollCarries, Unnamed, Places, ShelfValues
<1>7. CollPaths'
  BY <1>5, <1>6 DEF CollPaths, CollInv
<1>8. CollAlone'
  <2> SUFFICES ASSUME ~together' PROVE CollAlone'
    BY DEF CollAlone
  <2>1. ~together /\ \A d \in CollCalls : ccall[d].step # "clear"
      OBVIOUS
  <2>2. /\ \A k \in Colls : shelf[k] # {} =>
              k \in Collection!Open /\ shelf[k] \subseteq Versions(k)
        /\ shelf["featured"] \subseteq FeaturedLists
        /\ \A d \in CollCalls : CollCarries(ccall[d])
    BY <2>1 DEF CollInv, CollAlone, Drops, DropsFeatured
  <2>3. \A d \in CollCalls : CollCarries(ccall[d])'
    BY <2>2, <1>5, <1>6
  <2> QED BY <2>2, <2>3, <1>2, <1>4 DEF CollAlone
<1>9. CollTidy'
  <2> SUFFICES ASSUME ~together' PROVE CollTidy'
    BY DEF CollTidy
  <2>1. /\ ~together /\ NamesApart /\ \A d \in CollCalls : Unnamed(ccall[d])
        /\ ~placed' => ~placed /\ PlacesApart /\ \A d \in CollCalls : Places(ccall[d])
    BY DEF CollInv, CollTidy
  <2>2. NamesApart' = NamesApart /\ PlacesApart' = PlacesApart
    BY <1>4 DEF NamesApart, PlacesApart
  <2> QED BY <2>1, <2>2, <1>5, <1>6 DEF CollTidy
<1> QED BY <1>3, <1>7, <1>8, <1>9 DEF CollInv

(* A call comes in.                                                        *)
LEMMA CollTakes ==
    ASSUME CollInv, NEW c \in CollCalls, Collection!Take(c) PROVE CollInv'
<1>1. /\ ccall[c].step = "idle" /\ ctaken' = ctaken + 1 /\ ctaken < MaxCollTaken
      /\ together' = (together \/ \E d \in CollCalls : ccall[d].step # "idle")
      /\ UNCHANGED <<coll, member, stock, shelf>>
  BY DEF Collection!Take
<1>2. /\ together' \in BOOLEAN /\ (together => together') /\ ctaken' \in 0..MaxCollTaken
      /\ ctaken' >= ctaken
      /\ ~together' => \A d \in CollCalls : ccall[d].step = "idle"
  <2>1. ctaken' \in 0..MaxCollTaken /\ ctaken' >= ctaken
    BY <1>1, BoundsAssumption DEF CollInv, CollTypes
  <2>2. together \in BOOLEAN
    BY DEF CollInv, CollTypes
  <2> QED BY <1>1, <2>1, <2>2, Zenon
<1>3. DOMAIN coll \subseteq Collection!Keys /\ placed \in BOOLEAN
  BY DEF CollInv, CollTypes, Collection!Keys
<1> DEFINE Good(x) ==
            /\ ccall' = [ccall EXCEPT ![c] = x] /\ CollPath(x)
            /\ placed' \in BOOLEAN /\ (placed => placed')
            /\ CollCarries(x) /\ Unnamed(x) /\ (~placed' => Places(x))
<1>4. \E x \in CollCall : Good(x)
  <2>1. CASE \E dto \in [name : Names, featured : BOOLEAN, deleted : {FALSE}] :
          /\ ccall' = [ccall EXCEPT ![c] = [Collection!Idle EXCEPT !.op = "create", !.step = "name", !.dto = {dto}]]
          /\ UNCHANGED placed
    <3>1. PICK dto \in [name : Names, featured : BOOLEAN, deleted : {FALSE}] :
        /\ ccall' = [ccall EXCEPT ![c] = [Collection!Idle EXCEPT !.op = "create", !.step = "name", !.dto = {dto}]]
        /\ UNCHANGED placed
      BY <2>1
    <3> DEFINE x == [Collection!Idle EXCEPT !.op = "create", !.step = "name", !.dto = {dto}]
    <3>2. dto \in CollDto
      BY DEF CollDto, Collection!Collection
    <3>3. /\ x \in CollCall /\ x.op = "create" /\ x.step = "name" /\ x.dto = {dto}
          /\ x.item = {} /\ x.order = {}
      BY <3>2 DEF Collection!Idle, CollCall, CollSteps, CollWrites
    <3> HIDE DEF x
    <3>4. CollPath(x) /\ CollCarries(x) /\ Unnamed(x) /\ Places(x)
      BY <3>2, <3>3 DEF CollPath, CollCarries, Unnamed, Places, Small, CollChanges
    <3>5. ccall' = [ccall EXCEPT ![c] = x]
      BY <3>1 DEF x
    <3> QED BY <3>1, <3>3, <3>4, <3>5, <1>3
  <2>2. CASE \E k \in DOMAIN coll : \E op \in {"update", "delete", "add", "remove", "reorder"} :
        \E dto \in IF op = "update" THEN {{d} : d \in [name : Names, featured : BOOLEAN, deleted : {FALSE}]} ELSE {{}} :
        \E i \in IF op \in {"add", "remove", "reorder"} THEN {{z} : z \in Items} ELSE {{}} :
        \E o \in CASE op = "add" -> {{}, {1}} [] op = "reorder" -> {{0}, {1}} [] OTHER -> {{}} :
          /\ ccall' = [ccall EXCEPT ![c] =
                [Collection!Idle EXCEPT !.op = op, !.step = "verify", !.coll = k, !.dto = dto, !.item = i, !.order = o]]
          /\ placed' = (placed \/ o # {})
    <3>1. PICK k \in DOMAIN coll, op \in {"update", "delete", "add", "remove", "reorder"} :
      \E dto \in IF op = "update" THEN {{d} : d \in [name : Names, featured : BOOLEAN, deleted : {FALSE}]} ELSE {{}} :
      \E i \in IF op \in {"add", "remove", "reorder"} THEN {{z} : z \in Items} ELSE {{}} :
      \E o \in CASE op = "add" -> {{}, {1}} [] op = "reorder" -> {{0}, {1}} [] OTHER -> {{}} :
        /\ ccall' = [ccall EXCEPT ![c] =
              [Collection!Idle EXCEPT !.op = op, !.step = "verify", !.coll = k, !.dto = dto, !.item = i, !.order = o]]
        /\ placed' = (placed \/ o # {})
      BY <2>2
    <3>2. PICK dto \in IF op = "update" THEN {{d} : d \in [name : Names, featured : BOOLEAN, deleted : {FALSE}]} ELSE {{}} :
      \E i \in IF op \in {"add", "remove", "reorder"} THEN {{z} : z \in Items} ELSE {{}} :
      \E o \in CASE op = "add" -> {{}, {1}} [] op = "reorder" -> {{0}, {1}} [] OTHER -> {{}} :
        /\ ccall' = [ccall EXCEPT ![c] =
              [Collection!Idle EXCEPT !.op = op, !.step = "verify", !.coll = k, !.dto = dto, !.item = i, !.order = o]]
        /\ placed' = (placed \/ o # {})
      BY <3>1
    <3>3. PICK i \in IF op \in {"add", "remove", "reorder"} THEN {{z} : z \in Items} ELSE {{}} :
      \E o \in CASE op = "add" -> {{}, {1}} [] op = "reorder" -> {{0}, {1}} [] OTHER -> {{}} :
        /\ ccall' = [ccall EXCEPT ![c] =
              [Collection!Idle EXCEPT !.op = op, !.step = "verify", !.coll = k, !.dto = dto, !.item = i, !.order = o]]
        /\ placed' = (placed \/ o # {})
      BY <3>2
    <3>4. PICK o \in CASE op = "add" -> {{}, {1}} [] op = "reorder" -> {{0}, {1}} [] OTHER -> {{}} :
        /\ ccall' = [ccall EXCEPT ![c] =
              [Collection!Idle EXCEPT !.op = op, !.step = "verify", !.coll = k, !.dto = dto, !.item = i, !.order = o]]
        /\ placed' = (placed \/ o # {})
      BY <3>3
    <3>5. dto \subseteq CollDto
      BY DEF CollDto, Collection!Collection
    <3>6. i \subseteq Items /\ Small(i)
      BY DEF Small
    <3>7. o \subseteq Nat /\ Small(o) /\ (op = "reorder" => o # {})
      BY DEF Small
    <3> DEFINE x == [Collection!Idle EXCEPT !.op = op, !.step = "verify", !.coll = k, !.dto = dto, !.item = i, !.order = o]
    <3>8. /\ x \in CollCall /\ x.op = op /\ x.step = "verify" /\ x.dto = dto
          /\ x.item = i /\ x.order = o /\ x.coll = k
      BY <3>5, <3>6, <3>7, <1>3 DEF Collection!Idle, CollCall, CollSteps, CollWrites, CollChanges
    <3>9. ccall' = [ccall EXCEPT ![c] = x]
      BY <3>4
    <3> HIDE DEF x
    <3>10. CollPath(x) /\ CollCarries(x) /\ Unnamed(x)
      BY <3>5, <3>6, <3>7, <3>8 DEF CollPath, CollCarries, Unnamed, CollChanges
    <3>11. o = {} => Places(x)
      BY <3>7, <3>8 DEF Places
    <3>12. placed' \in BOOLEAN /\ (placed => placed') /\ (~placed' => o = {})
      BY <3>4, <1>3, Zenon
    <3> QED BY <3>8, <3>9, <3>10, <3>11, <3>12
  <2>3. CASE \E k \in Collection!Keys :
          /\ ccall' = IF shelf[k] # {} THEN ccall
                      ELSE [ccall EXCEPT ![c] = [Collection!Idle EXCEPT !.op = "read", !.step = "find", !.coll = k]]
          /\ UNCHANGED placed
    <3>1. PICK k \in Collection!Keys :
        /\ ccall' = IF shelf[k] # {} THEN ccall
                    ELSE [ccall EXCEPT ![c] = [Collection!Idle EXCEPT !.op = "read", !.step = "find", !.coll = k]]
        /\ UNCHANGED placed
      BY <2>3
    <3>2. CASE shelf[k] = {}
      <4> DEFINE x == [Collection!Idle EXCEPT !.op = "read", !.step = "find", !.coll = k]
      <4>1. /\ x \in CollCall /\ x.op = "read" /\ x.step = "find" /\ x.coll = k
            /\ x.item = {} /\ x.order = {}
        BY DEF Collection!Idle, CollCall, CollSteps
      <4>2. ccall' = [ccall EXCEPT ![c] = x]
        BY <3>1, <3>2
      <4> HIDE DEF x
      <4>3. CollPath(x) /\ CollCarries(x) /\ Unnamed(x) /\ Places(x)
        BY <4>1 DEF CollPath, CollCarries, Unnamed, Places, Small, CollChanges
      <4> QED BY <4>1, <4>2, <4>3, <3>1, <1>3
    <3>3. CASE shelf[k] # {}
      <4>1. ccall[c] \in CollCall /\ CollPath(ccall[c])
        BY DEF CollInv, CollTypes, CollPaths
      <4>2. ccall' = [ccall EXCEPT ![c] = ccall[c]]
        BY <3>1, <3>3 DEF CollInv, CollTypes
      <4>3. CollCarries(ccall[c]) /\ Unnamed(ccall[c]) /\ Places(ccall[c])
        BY <4>1, <1>1 DEF CollPath, CollCarries, Unnamed, Places
      <4> QED BY <4>1, <4>2, <4>3, <3>1, <1>3
    <3> QED BY <3>2, <3>3
  <2> QED BY <2>1, <2>2, <2>3 DEF Collection!Take
<1>5. PICK x \in CollCall : Good(x)
  BY <1>4
<1> QED BY <1>1, <1>2, <1>5, CollCallMoves

(* What a read finds has the form of a cached value.                       *)
LEMMA CollAnswers ==
    ASSUME CollTypes, NEW k \in Collection!Keys, k \in {"featured", "list"} \cup Collection!Open
    PROVE  ShelfValues(k) \subseteq CollValues
<1>1. \A q \in Collection!Open : q \in Colls /\ coll[q] \in Collection!Collection
  BY DEF Collection!Open, CollTypes
<1>2. FeaturedLists \subseteq SUBSET (Colls \X Collection!Collection)
  <2>1. Collection!AllFeatured \subseteq Colls \X Collection!Collection
    BY <1>1 DEF Collection!AllFeatured
  <2>2. \A f \in FeaturedLists : f \in SUBSET Collection!AllFeatured
    BY ONLY TRUE DEF FeaturedLists, Collection!findFeatured
  <2> QED BY ONLY <2>1, <2>2
<1>3. Collection!findPublic \in SUBSET (Colls \X Collection!Collection)
  BY <1>1 DEF Collection!findPublic
<1>4. CASE k \in {"featured", "list"}
  BY <1>2, <1>3, <1>4 DEF ShelfValues, CollValues
<1>5. CASE k \notin {"featured", "list"}
  <2>1. Collection!In(k) \in SUBSET CollMember
    BY DEF Collection!In, CollTypes
  <2>2. ASSUME NEW s \in [Items -> Nat] PROVE Collection!AsOf(k, s) \in CollValues
    <3>1. {<<m.item, s[m.item]>> : m \in Collection!In(k)} \in SUBSET (Items \X Nat)
      BY <2>1 DEF CollMember
    <3> QED BY <1>1, <1>5, <2>1, <3>1 DEF Collection!AsOf, CollValues
  <2>3. Collection!Earlier \subseteq [Items -> Nat]
    BY BoundsAssumption DEF Collection!Earlier
  <2> QED BY <2>2, <2>3, <1>5 DEF ShelfValues, Versions
<1> QED BY <1>4, <1>5

(* The items as they are now are among what they may have been.            *)
LEMMA CollNow ==
    ASSUME CollTypes
    PROVE  stock \in Collection!Earlier
<1>1. \A i \in Items : stock[i] \in 0..MaxCollTaken /\ stock[i] <= stock[i]
  BY BoundsAssumption DEF CollTypes
<1> QED BY <1>1 DEF Collection!Earlier, CollTypes

(* The place after the greatest is beyond all others.                      *)
LEMMA NextPlace ==
    ASSUME CollTypes, NEW k
    PROVE  LET o == Collection!Max({0} \cup {m.order : m \in Collection!In(k)}) + 1 IN
           o \in Nat /\ \A m \in Collection!In(k) : m.order < o
<1> DEFINE S == {0} \cup {m.order : m \in Collection!In(k)}
<1>1. PICK b \in Nat : \A m \in member : m.order \in 0..b
  BY DEF CollTypes
<1>2. S \in SUBSET (0..b) /\ S # {}
  BY <1>1 DEF Collection!In
<1> HIDE DEF S
<1>3. \E x \in S : \A y \in S : x >= y
  BY <1>2, Greatest
<1>4. Collection!Max(S) \in S /\ \A y \in S : Collection!Max(S) >= y
  BY <1>3 DEF Collection!Max
<1>5. PICK g \in S : g = Collection!Max(S) /\ \A y \in S : g >= y
  BY <1>4
<1>6. g \in Nat /\ S \subseteq Nat
  BY <1>2
<1>7. \A m \in Collection!In(k) : m.order \in S
  BY DEF S
<1>8. \A m \in Collection!In(k) : m.order < g + 1
  <2> TAKE m \in Collection!In(k)
  <2>1. PICK y \in S : y = m.order
    BY <1>7
  <2>2. y < g + 1
    BY <1>5, <1>6
  <2> QED BY <2>1, <2>2
<1>9. g + 1 \in Nat
  BY <1>6
<1> QED BY <1>5, <1>8, <1>9 DEF S

(* Its checks, and what it finds.                                          *)
LEMMA CollChecks ==
    ASSUME CollInv, NEW c \in CollCalls,
           \/ Collection!Find(c) \/ Collection!VerifyCollection(c) \/ Collection!CheckName(c)
           \/ Collection!CheckItem(c) \/ Collection!GetMaxOrder(c) \/ Collection!FindMember(c)
           \/ Collection!FindMembers(c)
    PROVE  CollInv'
<1> DEFINE x0 == ccall[c]
           k == x0.coll
<1>1. /\ UNCHANGED <<coll, member, stock, shelf, together, placed, ctaken>>
      /\ x0.step \notin {"idle", "clear"}
  BY DEF Collection!Find, Collection!VerifyCollection, Collection!CheckName, Collection!CheckItem,
         Collection!GetMaxOrder, Collection!FindMember, Collection!FindMembers, Collection!Quiet,
         Collection!At
<1>2. /\ together \in BOOLEAN /\ placed \in BOOLEAN /\ ctaken \in 0..MaxCollTaken
      /\ ccall \in [CollCalls -> CollCall] /\ x0 \in CollCall /\ CollPath(x0) /\ k = x0.coll
  BY DEF CollInv, CollTypes, CollPaths
<1>3. ~together =>
        /\ \A d \in CollCalls : d # c => ccall[d].step = "idle"
        /\ CollCarries(x0) /\ Unnamed(x0) /\ NamesApart /\ (~placed => Places(x0))
  BY <1>1, CollOne
<1> DEFINE Good(x) ==
            /\ ccall' = [ccall EXCEPT ![c] = x] /\ CollPath(x)
            /\ ~together => CollCarries(x) /\ Unnamed(x) /\ (~placed => Places(x))
<1>4. Collection!Leave(c) => \E x \in CollCall : Good(x)
  BY CollIdle DEF Collection!Leave
<1>5. ASSUME NEW s \in CollSteps, Collection!Goto(c, s) PROVE
        \E x \in CollCall :
            /\ ccall' = [ccall EXCEPT ![c] = x]
            /\ x.step = s /\ x.op = x0.op /\ x.coll = k /\ x.row = x0.row /\ x.dto = x0.dto
            /\ x.item = x0.item /\ x.order = x0.order
  <2> DEFINE x == [x0 EXCEPT !.step = s]
  <2>1. /\ x \in CollCall /\ x.step = s /\ x.op = x0.op /\ x.coll = k /\ x.row = x0.row
        /\ x.dto = x0.dto /\ x.item = x0.item /\ x.order = x0.order
    BY <1>2 DEF CollCall
  <2>2. ccall' = [ccall EXCEPT ![c] = x]
    BY <1>5, <1>2 DEF Collection!Goto
  <2> QED BY <2>1, <2>2
<1> HIDE DEF x0, k
<1>6. ASSUME Collection!Find(c) PROVE \E x \in CollCall : Good(x)
  <2>1. x0.op = "read" /\ x0.step = "find" /\ k \in Collection!Keys
    BY <1>6, <1>2 DEF Collection!Find, Collection!At, CollPath, x0, k
  <2>2. CASE k \notin {"featured", "list"} \cup Collection!Open
    BY <2>2, <1>4, <1>6 DEF Collection!Find, k, x0
  <2>3. CASE k \in {"featured", "list"} \cup Collection!Open
    <3>8. PICK v \in ShelfValues(k) : ccall' = [ccall EXCEPT ![c].step = "found", ![c].dto = {v}]
      <4>1. PICK limit \in Limits :
              \E v \in CASE k = "featured" -> Collection!findFeatured(limit)
                         [] k = "list" -> {Collection!findPublic}
                         [] OTHER -> {Collection!findByIdWithItems(k)} :
                  ccall' = [ccall EXCEPT ![c].step = "found", ![c].dto = {v}]
        BY <2>3, <1>6 DEF Collection!Find, k, x0
      <4>2. stock \in Collection!Earlier
        BY CollNow DEF CollInv
      <4>3. Collection!findByIdWithItems(k) \in Versions(k)
        BY <4>2 DEF Versions, Collection!findByIdWithItems
      <4>4. Collection!findFeatured(limit) \subseteq FeaturedLists
        BY DEF FeaturedLists
      <4> QED BY <4>1, <4>3, <4>4 DEF ShelfValues
    <3> DEFINE x == [ccall[c] EXCEPT !.step = "found", !.dto = {v}]
    <3>1. v \in CollValues
      BY <2>1, <2>3, <3>8, CollAnswers DEF CollInv
    <3>2. /\ x \in CollCall /\ x.step = "found" /\ x.op = "read" /\ x.coll = k
          /\ x.dto = {v} /\ x.item = x0.item /\ x.order = x0.order
      BY <2>1, <3>1, <1>2 DEF CollCall, CollSteps, x0, k
    <3>3. ccall' = [ccall EXCEPT ![c] = x]
      BY <3>8, <1>2
    <3> HIDE DEF x
    <3>4. k \in Colls => k \in Collection!Open
      BY <2>3, KeysAssumption
    <3>5. CollPath(x)
      BY <2>1, <3>1, <3>2, <1>2 DEF CollPath, CollChanges, Small
    <3>6. CollCarries(x) /\ Unnamed(x)
      BY <3>2, <3>4, <3>8 DEF CollCarries, Unnamed
    <3>7. Places(x)
      BY <3>2 DEF Places
    <3> QED BY <3>2, <3>3, <3>5, <3>6, <3>7
  <2> QED BY <2>2, <2>3
<1>7. ASSUME Collection!VerifyCollection(c) PROVE \E x \in CollCall : Good(x)
  <2>1. x0.step = "verify" /\ x0.op \in {"update", "delete", "add", "reorder"} /\ k \in DOMAIN coll
    BY <1>7, <1>2 DEF Collection!VerifyCollection, CollPath, CollChanges, x0, k
  <2>2. CASE k \notin Collection!Open
    BY <2>2, <1>4, <1>7 DEF Collection!VerifyCollection, k, x0
  <2>3. CASE k \in Collection!Open
    <3>1. PICK s \in {"name", "save", "exists"} :
            /\ ccall' = [ccall EXCEPT ![c].step = s, ![c].row = {coll[ccall[c].coll]}]
            /\ x0.op = "add" => s = "exists"
            /\ x0.op # "add" => s # "exists"
            /\ s = "name" => x0.op = "update"
            /\ x0.op = "update" /\ s = "save" => \A d \in x0.dto : d.name = coll[k].name
      BY <2>1, <2>3, <1>7 DEF Collection!VerifyCollection, k, x0
    <3> DEFINE x == [ccall[c] EXCEPT !.step = s, !.row = {coll[ccall[c].coll]}]
    <3>2. coll[k] \in Collection!Collection
      BY <2>1 DEF CollInv, CollTypes
    <3>3. /\ x \in CollCall /\ x.step = s /\ x.op = x0.op /\ x.coll = k /\ x.row = {coll[k]}
          /\ x.dto = x0.dto /\ x.item = x0.item /\ x.order = x0.order
      BY <3>2, <1>2 DEF CollCall, CollSteps, x0, k
    <3>4. ccall' = [ccall EXCEPT ![c] = x]
      BY <3>1, <1>2
    <3> HIDE DEF x
    <3>5. CollPath(x)
      BY <2>1, <3>1, <3>3, <1>2 DEF CollPath, CollChanges
    <3>6. CollCarries(x)
      BY <2>1, <2>3, <3>1, <3>3 DEF CollCarries
    <3>7. ~together => Unnamed(x)
      BY <2>1, <2>3, <3>1, <3>3, <1>3 DEF Unnamed, NamesApart
    <3>8. ~together /\ ~placed => Places(x)
      BY <2>1, <3>1, <3>3, <1>3 DEF Places
    <3> QED BY <3>3, <3>4, <3>5, <3>6, <3>7, <3>8
  <2> QED BY <2>2, <2>3
<1>8. ASSUME Collection!CheckName(c) PROVE \E x \in CollCall : Good(x)
  <2>1. x0.step = "name" /\ x0.op \in {"create", "update"}
    BY <1>8, <1>2 DEF Collection!CheckName, CollPath, x0
  <2>2. CASE \E q \in Collection!Open, d \in x0.dto : coll[q].name = d.name
    BY <2>2, <1>4, <1>8 DEF Collection!CheckName, x0
  <2>3. CASE ~\E q \in Collection!Open, d \in x0.dto : coll[q].name = d.name
    <3>1. PICK x \in CollCall :
        /\ ccall' = [ccall EXCEPT ![c] = x]
        /\ x.step = "save" /\ x.op = x0.op /\ x.coll = k /\ x.row = x0.row /\ x.dto = x0.dto
        /\ x.item = x0.item /\ x.order = x0.order
      BY <2>3, <1>5, <1>8 DEF Collection!CheckName, x0, CollSteps
    <3>2. CollPath(x)
      BY <2>1, <3>1, <1>2 DEF CollPath, CollChanges
    <3>3. ~together => CollCarries(x)
      BY <2>1, <3>1, <1>2, <1>3 DEF CollCarries
    <3>4. Unnamed(x) /\ Places(x)
      BY <2>1, <2>3, <3>1 DEF Unnamed, Places
    <3> QED BY <3>1, <3>2, <3>3, <3>4
  <2> QED BY <2>2, <2>3
<1>9. ASSUME Collection!CheckItem(c) PROVE \E x \in CollCall : Good(x)
  <2>1. x0.step = "exists" /\ x0.op = "add"
    BY <1>9 DEF Collection!CheckItem, Collection!At, x0
  <2>2. CASE Collection!Leave(c)
    BY <2>2, <1>4
  <2>3. CASE ~Collection!Leave(c)
    <3>1. PICK s \in {"order", "insert"} : Collection!Goto(c, s) /\ (s = "insert" <=> x0.order # {})
      BY <2>3, <1>9 DEF Collection!CheckItem, x0
    <3>2. PICK x \in CollCall :
        /\ ccall' = [ccall EXCEPT ![c] = x]
        /\ x.step = s /\ x.op = x0.op /\ x.coll = k /\ x.row = x0.row /\ x.dto = x0.dto
        /\ x.item = x0.item /\ x.order = x0.order
      BY <3>1, <1>5 DEF CollSteps
    <3>3. CollPath(x)
      BY <2>1, <3>1, <3>2, <1>2 DEF CollPath, CollChanges
    <3>4. CollCarries(x) /\ Unnamed(x)
      BY <2>1, <3>1, <3>2 DEF CollCarries, Unnamed
    <3>5. ~together /\ ~placed => Places(x)
      BY <2>1, <3>1, <3>2, <1>3 DEF Places
    <3> QED BY <3>2, <3>3, <3>4, <3>5
  <2> QED BY <2>2, <2>3
<1>10. ASSUME Collection!GetMaxOrder(c) PROVE \E x \in CollCall : Good(x)
  <2>1. x0.step = "order" /\ x0.op = "add"
    BY <1>10 DEF Collection!GetMaxOrder, Collection!At, x0
  <2>2. PICK o \in Nat :
          /\ o = Collection!Max({0} \cup {m.order : m \in Collection!In(k)}) + 1
          /\ \A m \in Collection!In(k) : m.order < o
    BY NextPlace DEF CollInv
  <2> DEFINE x == [ccall[c] EXCEPT !.step = "insert", !.order = {o}]
  <2>3. ccall' = [ccall EXCEPT ![c] = x]
    BY <2>2, <1>2, <1>10 DEF Collection!GetMaxOrder, x0, k
  <2>4. /\ x \in CollCall /\ x.step = "insert" /\ x.op = x0.op /\ x.coll = k /\ x.row = x0.row
        /\ x.dto = x0.dto /\ x.item = x0.item /\ x.order = {o}
    BY <1>2 DEF CollCall, CollSteps, x0, k
  <2> HIDE DEF x
  <2>5. CollPath(x)
    BY <2>1, <2>4, <1>2 DEF CollPath, CollChanges, Small
  <2>6. CollCarries(x) /\ Unnamed(x)
    BY <2>1, <2>4 DEF CollCarries, Unnamed
  <2>7. Places(x)
    BY <2>1, <2>2, <2>4 DEF Places
  <2> QED BY <2>3, <2>4, <2>5, <2>6, <2>7
<1>11. ASSUME Collection!FindMember(c) \/ Collection!FindMembers(c) PROVE \E x \in CollCall : Good(x)
  <2>1. \/ x0.step = "verify" /\ x0.op = "remove"
        \/ x0.step = "save" /\ x0.op = "reorder"
    BY <1>11 DEF Collection!FindMember, Collection!FindMembers, Collection!At, x0
  <2>2. CASE Collection!Leave(c)
    BY <2>2, <1>4
  <2>3. CASE ~Collection!Leave(c)
    <3>1. PICK s \in {"save", "insert"} : Collection!Goto(c, s) /\ (s = "insert" <=> x0.op = "reorder")
      BY <2>1, <2>3, <1>11 DEF Collection!FindMember, Collection!FindMembers, Collection!At, x0
    <3>2. PICK x \in CollCall :
        /\ ccall' = [ccall EXCEPT ![c] = x]
        /\ x.step = s /\ x.op = x0.op /\ x.coll = k /\ x.row = x0.row /\ x.dto = x0.dto
        /\ x.item = x0.item /\ x.order = x0.order
      BY <3>1, <1>5 DEF CollSteps
    <3>3. CollPath(x)
      BY <2>1, <3>1, <3>2, <1>2 DEF CollPath, CollChanges
    <3>4. CollCarries(x) /\ Unnamed(x)
      BY <2>1, <3>1, <3>2 DEF CollCarries, Unnamed
    <3>5. ~together /\ ~placed => Places(x)
      BY <2>1, <3>1, <3>2, <1>3 DEF Places
    <3> QED BY <3>2, <3>3, <3>4, <3>5
  <2> QED BY <2>2, <2>3
<1>12. \E x \in CollCall : Good(x)
  BY <1>6, <1>7, <1>8, <1>9, <1>10, <1>11
<1>13. PICK x \in CollCall : Good(x)
  BY <1>12
<1>14. /\ ccall' = [ccall EXCEPT ![c] = x] /\ CollPath(x) /\ UNCHANGED <<coll, member, stock, shelf>>
       /\ together' \in BOOLEAN /\ (together => together') /\ placed' \in BOOLEAN /\ (placed => placed')
       /\ ctaken' \in 0..MaxCollTaken /\ ctaken' >= ctaken
  BY <1>1, <1>2, <1>13
<1>15. ~together' => /\ CollCarries(x) /\ Unnamed(x) /\ ccall[c].step # "clear"
                     /\ \A d \in CollCalls : d # c => ccall[d].step = "idle"
                     /\ ~placed' => Places(x)
  <2>1. together' = together /\ placed' = placed /\ ccall[c].step # "clear"
    BY <1>1 DEF x0
  <2>2. ~together => CollCarries(x) /\ Unnamed(x) /\ (~placed => Places(x))
    BY <1>13
  <2>3. ~together => \A d \in CollCalls : d # c => ccall[d].step = "idle"
    BY <1>3
  <2> QED BY ONLY <2>1, <2>2, <2>3
<1> QED BY ONLY CollInv, c \in CollCalls, x \in CollCall, <1>14, <1>15, CollCallMoves

(* A read's answer goes into the cache.                                    *)
LEMMA CollPuts ==
    ASSUME CollInv, NEW c \in CollCalls, Collection!PutInCache(c) PROVE CollInv'
<1> DEFINE k == ccall[c].coll
<1>1. /\ ccall[c].op = "read" /\ ccall[c].step = "found"
      /\ shelf' = [shelf EXCEPT ![k] = ccall[c].dto]
      /\ ccall' = [ccall EXCEPT ![c] = Collection!Idle]
      /\ UNCHANGED <<coll, member, stock, together, placed, ctaken>>
  BY DEF Collection!PutInCache, Collection!Leave, Collection!Quiet, Collection!At
<1>2. /\ ccall \in [CollCalls -> CollCall] /\ shelf \in [Collection!Keys -> SUBSET CollValues]
      /\ ccall[c] \in CollCall /\ CollPath(ccall[c]) /\ k \in Collection!Keys
      /\ ccall[c].dto \subseteq CollValues /\ Small(ccall[c].dto)
  BY <1>1 DEF CollInv, CollTypes, CollPaths, CollPath
<1>3. ccall'[c] = Collection!Idle /\ \A d \in CollCalls : d # c => ccall'[d] = ccall[d]
  BY <1>1, <1>2
<1>4. /\ Collection!Open' = Collection!Open /\ FeaturedLists' = FeaturedLists
      /\ \A q : Versions(q)' = Versions(q)
      /\ \A q : Collection!In(q)' = Collection!In(q)
  BY <1>1 DEF Collection!Open, FeaturedLists, Collection!AllFeatured, Collection!findFeatured, Versions, Collection!AsOf, Collection!Earlier, Collection!In
<1>5. \A q \in Collection!Keys : shelf'[q] = IF q = k THEN ccall[c].dto ELSE shelf[q]
  BY <1>1, <1>2
<1>6. ~together =>
        /\ \A d \in CollCalls : d # c => ccall[d].step = "idle"
        /\ CollCarries(ccall[c]) /\ NamesApart /\ (~placed => PlacesApart)
  BY <1>1, CollOne
<1>7. ~together => \A d \in CollCalls : ccall'[d].step = "idle" /\ ccall[d].step # "clear"
  BY <1>1, <1>3, <1>6, CollIdle
<1>8. CollTypes'
  <2>1. ccall' \in [CollCalls -> CollCall]
    BY <1>1, <1>2, CollIdle
  <2>2. shelf' \in [Collection!Keys -> SUBSET CollValues]
    BY <1>1, <1>2
  <2> QED BY <2>1, <2>2, <1>1 DEF CollInv, CollTypes
<1>9. CollPaths'
  <2>1. \A d \in CollCalls : CollPath(ccall[d])'
    <3> TAKE d \in CollCalls
    <3>1. CASE d = c
      BY <3>1, <1>1, <1>3, CollIdle DEF CollPath
    <3>2. CASE d # c
      BY <3>2, <1>1, <1>3 DEF CollInv, CollPaths, CollPath
    <3> QED BY <3>1, <3>2
  <2>2. \A q \in Collection!Keys : Small(shelf'[q])
    BY <1>2, <1>5 DEF CollInv, CollPaths
  <2> QED BY <2>1, <2>2 DEF CollPaths
<1>10. CollAlone'
  <2> SUFFICES ASSUME ~together' PROVE CollAlone'
    BY DEF CollAlone
  <2>1. ~together
    BY <1>1
  <2>2. ccall[c].dto \subseteq ShelfValues(k) /\ (k \in Colls => k \in Collection!Open)
    BY <2>1, <1>1, <1>6 DEF CollCarries
  <2>3. /\ \A q \in Colls : shelf[q] # {} =>
              q \in Collection!Open /\ shelf[q] \subseteq Versions(q)
        /\ shelf["featured"] \subseteq FeaturedLists
    BY <2>1, <1>7 DEF CollInv, CollAlone, Drops, DropsFeatured
  <2>4. \A q \in Colls : shelf'[q] # {} =>
            q \in Collection!Open /\ shelf'[q] \subseteq Versions(q)
    <3> SUFFICES ASSUME NEW q \in Colls, shelf'[q] # {}
                 PROVE  q \in Collection!Open /\ shelf'[q] \subseteq Versions(q)
        OBVIOUS
    <3>1. q \in Collection!Keys /\ q \notin {"featured", "list"}
      BY KeysAssumption DEF Collection!Keys
    <3>2. ShelfValues(q) = Versions(q)
      BY <3>1 DEF ShelfValues
    <3> QED BY <3>1, <3>2, <2>2, <2>3, <1>5
  <2>5. shelf'["featured"] \subseteq FeaturedLists
    <3>1. "featured" \in Collection!Keys /\ ShelfValues("featured") = FeaturedLists
      BY DEF Collection!Keys, ShelfValues
    <3> QED BY <3>1, <2>2, <2>3, <1>5
  <2>6. \A d \in CollCalls : CollCarries(ccall[d])'
    <3> TAKE d \in CollCalls
    <3>1. ccall'[d] = Collection!Idle \/ (ccall'[d] = ccall[d] /\ ccall'[d].step = "idle")
      BY <2>1, <1>3, <1>7
    <3> QED BY <3>1, <1>1, CollIdle DEF CollCarries
  <2> HIDE DEF k
  <2> QED BY <2>1, <2>4, <2>5, <2>6, <1>4, <1>7 DEF CollAlone
<1>11. CollTidy'
  <2> SUFFICES ASSUME ~together' PROVE CollTidy'
    BY DEF CollTidy
  <2>1. ~together /\ \A d \in CollCalls : ccall'[d].step = "idle"
    BY <1>1, <1>7
  <2>2. NamesApart' /\ (~placed' => PlacesApart')
    BY <2>1, <1>1, <1>4, <1>6 DEF NamesApart, PlacesApart
  <2>3. \A d \in CollCalls : ccall'[d].op = "none"
    BY <2>1, <1>9 DEF CollPaths, CollPath
  <2>4. \A d \in CollCalls : Unnamed(ccall[d])' /\ Places(ccall[d])'
    BY <2>1, <2>3 DEF Unnamed, Places
  <2> QED BY <2>2, <2>4 DEF CollTidy
<1> QED BY <1>8, <1>9, <1>10, <1>11 DEF CollInv

(* A row is written; its entries wait to be cleared.                       *)
LEMMA CollRowMoves ==
    ASSUME CollInv, NEW c \in CollCalls, NEW x \in CollCall, NEW k \in Colls,
           ccall' = [ccall EXCEPT ![c] = x], UNCHANGED <<member, stock, shelf, together, placed, ctaken>>,
           ccall[c].step = "save", ccall[c].op \in CollWrites,
           DOMAIN coll' = DOMAIN coll \cup {k}, coll' \in [DOMAIN coll' -> Collection!Collection],
           \A q \in DOMAIN coll : q # k => coll'[q] = coll[q],
           CollPath(x)', x.step = "clear", x.op = ccall[c].op,
           IF x.op = "create" THEN k \notin DOMAIN coll ELSE k = x.coll,
           ~together =>
               /\ k \in Collection!Open => coll[k] \in x.row
               /\ ~coll'[k].deleted => /\ coll'[k] \in x.row
                                       /\ \A q \in Collection!Open : coll[q].name = coll'[k].name => q = k
    PROVE  CollInv'
<1>1. ccall \in [CollCalls -> CollCall]
  BY DEF CollInv, CollTypes
<1>2. ccall'[c] = x /\ \A d \in CollCalls : d # c => ccall'[d] = ccall[d]
  BY <1>1
<1>3. CollTypes'
  <2>1. ccall' \in [CollCalls -> CollCall]
    BY <1>1
  <2> QED BY <2>1 DEF CollInv, CollTypes
<1>4. CollPaths'
  <2>1. \A d \in CollCalls : d # c => CollPath(ccall[d])'
    BY <1>2 DEF CollInv, CollPaths, CollPath
  <2>2. CollPath(ccall[c])'
    BY <1>2 DEF CollPath
  <2> QED BY <2>1, <2>2 DEF CollInv, CollPaths
<1>5. ~together =>
        /\ \A d \in CollCalls : d # c => ccall[d].step = "idle"
        /\ NamesApart /\ (~placed => PlacesApart /\ Places(ccall[c]))
  BY CollOne
<1>6. ~together => \A d \in CollCalls : d # c => ccall'[d].op = "none" /\ ccall'[d].step = "idle"
  BY <1>2, <1>4, <1>5 DEF CollPaths, CollPath
<1>7. /\ \A q \in Collection!Open' : q = k \/ (q \in Collection!Open /\ coll'[q] = coll[q])
      /\ \A q \in Collection!Open : q = k \/ (q \in Collection!Open' /\ coll'[q] = coll[q])
      /\ k \in Collection!Open' <=> ~coll'[k].deleted
  BY DEF Collection!Open
<1>8. CollAlone'
  <2> SUFFICES ASSUME ~together' PROVE CollAlone'
    BY DEF CollAlone
  <2>1. ~together /\ \A d \in CollCalls : ccall[d].step # "clear"
    BY <1>5
  <2>2. /\ \A q \in Colls : shelf[q] # {} =>
              q \in Collection!Open /\ shelf[q] \subseteq Versions(q)
        /\ shelf["featured"] \subseteq FeaturedLists
    BY <2>1 DEF CollInv, CollAlone, Drops, DropsFeatured
  <2>3. \A q \in Colls : shelf'[q] # {} =>
          \/ q \in Collection!Open' /\ shelf'[q] \subseteq Versions(q)'
          \/ Drops(ccall'[c], q)
    <3> SUFFICES ASSUME NEW q \in Colls, shelf'[q] # {}
                 PROVE  \/ q \in Collection!Open' /\ shelf'[q] \subseteq Versions(q)'
                        \/ Drops(ccall'[c], q)
        OBVIOUS
    <3>1. q \in Collection!Open /\ shelf'[q] \subseteq Versions(q) /\ q \in DOMAIN coll
      BY <2>2 DEF Collection!Open
    <3>2. CASE q = k
      BY <3>1, <3>2, <1>2 DEF Drops
    <3>3. CASE q # k
      <4>1. Versions(q)' = Versions(q)
        BY <3>1, <3>3 DEF Versions, Collection!AsOf, Collection!Earlier, Collection!In
      <4> QED BY <3>1, <3>3, <4>1, <1>7
    <3> QED BY <3>2, <3>3
  <2>4. shelf'["featured"] \subseteq FeaturedLists' \/ DropsFeatured(ccall'[c])
    <3> SUFFICES ASSUME \A r \in x.row : ~r.featured
                 PROVE  FeaturedLists' = FeaturedLists
      BY <2>2, <1>2 DEF DropsFeatured
    <3>1. k \in Collection!Open => ~coll[k].featured
      BY <2>1
    <3>2. k \in Collection!Open' => ~coll'[k].featured
      BY <2>1, <1>7
    <3> DEFINE F == {q \in Collection!Open : coll[q].featured}
    <3>3. {q \in Collection!Open' : coll'[q].featured} = F
      BY <3>1, <3>2, <1>7
    <3>4. \A q \in F : coll'[q] = coll[q]
      BY <3>1, <1>7
    <3>5. Collection!AllFeatured' = {<<q, coll'[q]>> : q \in {q \in Collection!Open' : coll'[q].featured}}
      BY DEF Collection!AllFeatured
    <3>6. Collection!AllFeatured = {<<q, coll[q]>> : q \in F}
      BY DEF Collection!AllFeatured
    <3> HIDE DEF F
    <3>7. Collection!AllFeatured' = Collection!AllFeatured
      BY <3>3, <3>4, <3>5, <3>6
    <3> QED BY <3>7 DEF FeaturedLists, Collection!findFeatured
  <2>5. \A d \in CollCalls : CollCarries(ccall[d])'
    BY <2>1, <1>2, <1>6 DEF CollCarries
  <2> QED BY <2>1, <2>3, <2>4, <2>5, <1>2, <1>6 DEF CollAlone
<1>9. CollTidy'
  <2> SUFFICES ASSUME ~together' PROVE CollTidy'
    BY DEF CollTidy
  <2>1. ~together
      OBVIOUS
  <2>2. NamesApart'
    <3> SUFFICES ASSUME NEW i \in Collection!Open', NEW j \in Collection!Open',
                        coll'[i].name = coll'[j].name
                 PROVE  i = j
      BY DEF NamesApart
    <3> QED BY <2>1, <1>5, <1>7 DEF NamesApart
  <2>3. ~placed' => PlacesApart'
    BY <2>1, <1>5 DEF PlacesApart
  <2>4. \A d \in CollCalls : Unnamed(ccall[d])'
    BY <2>1, <1>2, <1>6 DEF Unnamed
  <2>5. \A d \in CollCalls : Places(ccall[d])'
    BY <2>1, <1>2, <1>6 DEF Places, CollWrites
  <2> QED BY <2>2, <2>3, <2>4, <2>5 DEF CollTidy
<1> QED BY <1>3, <1>4, <1>8, <1>9 DEF CollInv

(* Creating, updating and deleting a collection.                           *)
LEMMA CollWritesRows ==
    ASSUME CollInv, NEW c \in CollCalls,
           Collection!CreateCollection(c) \/ Collection!UpdateCollection(c) \/ Collection!DeleteCollection(c)
    PROVE  CollInv'
<1> DEFINE x0 == ccall[c]
<1>1. /\ x0.step = "save" /\ x0.op \in CollWrites
      /\ UNCHANGED <<member, stock, shelf, together, placed, ctaken>>
  BY DEF Collection!CreateCollection, Collection!UpdateCollection, Collection!DeleteCollection,
         Collection!At, Collection!Quiet, CollWrites
<1>2. x0 \in CollCall /\ CollPath(x0) /\ DOMAIN coll \subseteq Colls
      /\ coll \in [DOMAIN coll -> Collection!Collection]
  BY DEF CollInv, CollTypes, CollPaths
<1>3. ~together => CollCarries(x0) /\ Unnamed(x0)
  BY <1>1, CollOne
<1> DEFINE Good(x, k) ==
        /\ ccall' = [ccall EXCEPT ![c] = x]
        /\ DOMAIN coll' = DOMAIN coll \cup {k} /\ coll' \in [DOMAIN coll' -> Collection!Collection]
        /\ \A q \in DOMAIN coll : q # k => coll'[q] = coll[q]
        /\ CollPath(x)' /\ x.step = "clear" /\ x.op = x0.op
        /\ IF x.op = "create" THEN k \notin DOMAIN coll ELSE k = x.coll
        /\ ~together =>
               /\ k \in Collection!Open => coll[k] \in x.row
               /\ ~coll'[k].deleted => /\ coll'[k] \in x.row
                                       /\ \A q \in Collection!Open : coll[q].name = coll'[k].name => q = k
<1>4. ASSUME Collection!CreateCollection(c) PROVE \E x \in CollCall, k \in Colls : Good(x, k)
  <2>1. PICK k \in Colls \ DOMAIN coll, d \in x0.dto :
          /\ coll' = [q \in DOMAIN coll \cup {k} |-> IF q = k THEN d ELSE coll[q]]
          /\ ccall' = [ccall EXCEPT ![c].step = "clear", ![c].row = {d}]
    BY <1>4 DEF Collection!CreateCollection
  <2>2. x0.op = "create"
    BY <1>4 DEF Collection!CreateCollection, Collection!At
  <2>3. d \in CollDto /\ d \in Collection!Collection
    BY <2>1, <2>2, <1>2 DEF CollPath, CollDto
  <2>4. PICK x \in CollCall : x = [x0 EXCEPT !.step = "clear", !.row = {d}]
    BY <1>2, <2>2, <2>3 DEF CollCall, CollSteps
  <2>12. ccall' = [ccall EXCEPT ![c] = x]
    BY <2>1, <2>4
  <2>5. /\ x.op = "create" /\ x.step = "clear" /\ x.coll = x0.coll /\ x.row = {d}
        /\ x.dto = x0.dto /\ x.item = x0.item /\ x.order = x0.order
    BY <1>2, <2>2, <2>4 DEF CollCall
  <2> HIDE DEF x0
  <2>6. CollPath(x)'
    BY <2>2, <2>5, <1>2 DEF CollPath, CollChanges
  <2>7. DOMAIN coll' = DOMAIN coll \cup {k} /\ \A q \in DOMAIN coll' : coll'[q] \in Collection!Collection
    BY <2>1, <2>3, <1>2
  <2>8. coll' \in [DOMAIN coll' -> Collection!Collection]
    BY <2>1, <2>7
  <2>9. coll'[k] = d /\ \A q \in DOMAIN coll : q # k => coll'[q] = coll[q]
    BY <2>1
  <2>10. ~together => \A q \in Collection!Open : coll[q].name # coll'[k].name
    BY <1>1, <1>3, <2>1, <2>2, <2>9 DEF Unnamed
  <2>11. k \notin Collection!Open
    BY DEF Collection!Open
  <2> QED BY <2>2, <2>5, <2>6, <2>7, <2>8, <2>9, <2>10, <2>11, <2>12
<1>5. ASSUME Collection!UpdateCollection(c) PROVE \E x \in CollCall, k \in Colls : Good(x, k)
  <2>1. PICK d \in x0.dto :
          /\ coll' = [coll EXCEPT ![x0.coll] = d]
          /\ ccall' = [ccall EXCEPT ![c].step = "clear", ![c].row = @ \cup {d}]
    BY <1>5 DEF Collection!UpdateCollection
  <2>2. x0.op = "update" /\ x0.coll \in DOMAIN coll
    BY <1>2, <1>5 DEF Collection!UpdateCollection, Collection!At, CollPath, CollChanges
  <2>3. d \in CollDto /\ d \in Collection!Collection
    BY <2>1, <2>2, <1>2 DEF CollPath, CollDto
  <2> DEFINE k == x0.coll
  <2>4. PICK x \in CollCall : x = [x0 EXCEPT !.step = "clear", !.row = @ \cup {d}]
    BY <1>2, <2>2, <2>3 DEF CollCall, CollSteps
  <2>12. ccall' = [ccall EXCEPT ![c] = x]
    BY <2>1, <2>4
  <2>5. /\ x.op = "update" /\ x.step = "clear" /\ x.coll = k /\ x.row = x0.row \cup {d}
        /\ x.dto = x0.dto /\ x.item = x0.item /\ x.order = x0.order
    BY <1>2, <2>2, <2>4 DEF CollCall
  <2>6. /\ k \in DOMAIN coll /\ DOMAIN coll' = DOMAIN coll /\ coll'[k] = d
        /\ coll' \in [DOMAIN coll -> Collection!Collection]
        /\ \A q \in DOMAIN coll : q # k => coll'[q] = coll[q]
    BY <2>1, <2>2, <2>3, <1>2
  <2>7. ~together => coll[k] \in x.row
    BY <1>1, <1>3, <2>2, <2>5 DEF CollCarries
  <2>8. ~together => \A q \in Collection!Open : coll[q].name = coll'[k].name => q = k
    BY <1>1, <1>3, <2>1, <2>2, <2>6 DEF Unnamed
  <2>9. x.coll = k
    BY <2>5
  <2> HIDE DEF x0, k
  <2>10. CollPath(x)'
    BY <2>2, <2>5, <2>6, <1>2 DEF CollPath, CollChanges
  <2>11. k \in Colls /\ DOMAIN coll' = DOMAIN coll \cup {k}
    BY <2>6, <1>2
  <2> QED BY <2>2, <2>3, <2>5, <2>6, <2>7, <2>8, <2>9, <2>10, <2>11, <2>12
<1>6. ASSUME Collection!DeleteCollection(c) PROVE \E x \in CollCall, k \in Colls : Good(x, k)
  <2>1. /\ coll' = [coll EXCEPT ![x0.coll].deleted = TRUE]
        /\ ccall' = [ccall EXCEPT ![c].step = "clear"]
    BY <1>6 DEF Collection!DeleteCollection, Collection!Goto
  <2>2. x0.op = "delete" /\ x0.coll \in DOMAIN coll
    BY <1>2, <1>6 DEF Collection!DeleteCollection, Collection!At, CollPath, CollChanges
  <2> DEFINE k == x0.coll
  <2>3. coll[k] \in Collection!Collection
    BY <1>2, <2>2
  <2> DEFINE d == [coll[k] EXCEPT !.deleted = TRUE]
  <2>4. d \in Collection!Collection /\ d.deleted
    BY <2>3 DEF Collection!Collection
  <2>5. PICK x \in CollCall : x = [x0 EXCEPT !.step = "clear"]
    BY <1>2, <2>2 DEF CollCall, CollSteps
  <2>12. ccall' = [ccall EXCEPT ![c] = x]
    BY <2>1, <2>5
  <2>6. /\ x.op = "delete" /\ x.step = "clear" /\ x.coll = k /\ x.row = x0.row
        /\ x.dto = x0.dto /\ x.item = x0.item /\ x.order = x0.order
    BY <1>2, <2>2, <2>5 DEF CollCall
  <2>7. coll' = [coll EXCEPT ![k] = d]
    BY <2>1
  <2> HIDE DEF d
  <2>8. /\ k \in DOMAIN coll /\ DOMAIN coll' = DOMAIN coll /\ coll'[k] = d
        /\ coll' \in [DOMAIN coll -> Collection!Collection]
        /\ \A q \in DOMAIN coll : q # k => coll'[q] = coll[q]
    BY <2>2, <2>4, <2>7, <1>2
  <2>9. ~together => coll[k] \in x.row
    BY <1>1, <1>3, <2>2, <2>6 DEF CollCarries
  <2> HIDE DEF x0, k
  <2>10. CollPath(x)'
    BY <2>2, <2>6, <2>8, <1>2 DEF CollPath, CollChanges
  <2>11. k \in Colls /\ DOMAIN coll' = DOMAIN coll \cup {k}
    BY <2>8, <1>2
  <2> QED BY <2>2, <2>4, <2>6, <2>8, <2>9, <2>10, <2>11, <2>12
<1>7. PICK x \in CollCall, k \in Colls : Good(x, k)
  BY <1>4, <1>5, <1>6
<1> QED BY <1>1, <1>7, CollRowMoves
(* Items of one collection change; its entry waits to be cleared.          *)
LEMMA CollMembersMove ==
    ASSUME CollInv, NEW c \in CollCalls, NEW x \in CollCall,
           ccall' = [ccall EXCEPT ![c] = x], UNCHANGED <<coll, stock, shelf, together, placed, ctaken>>,
           member' \subseteq CollMember, \E b \in Nat : \A m \in member' : m.order \in 0..b,
           \A m : m.coll # x.coll => (m \in member' <=> m \in member),
           ccall[c].step \in {"insert", "save"}, x.step = "clear", x.op \in {"add", "remove", "reorder"},
           CollPath(x), ~together /\ ~placed => PlacesApart' /\ x.op # "reorder"
    PROVE  CollInv'
<1>1. ccall \in [CollCalls -> CollCall]
  BY DEF CollInv, CollTypes
<1>2. ccall'[c] = x /\ \A d \in CollCalls : d # c => ccall'[d] = ccall[d]
  BY <1>1
<1>3. CollTypes'
  <2>1. ccall' \in [CollCalls -> CollCall]
    BY <1>1
  <2> QED BY <2>1 DEF CollInv, CollTypes
<1>4. CollPaths'
  <2>1. \A d \in CollCalls : d # c => CollPath(ccall[d])'
    BY <1>2 DEF CollInv, CollPaths, CollPath
  <2>2. CollPath(ccall[c])'
    BY <1>2 DEF CollPath
  <2> QED BY <2>1, <2>2 DEF CollInv, CollPaths
<1>5. ~together => NamesApart /\ \A d \in CollCalls : d # c => ccall[d].step = "idle"
  BY CollOne
<1>6. ~together => \A d \in CollCalls : d # c => ccall'[d].op = "none" /\ ccall'[d].step = "idle"
  BY <1>2, <1>4, <1>5 DEF CollPaths, CollPath
<1>7. /\ Collection!Open' = Collection!Open /\ FeaturedLists' = FeaturedLists
      /\ \A q : q # x.coll => Versions(q)' = Versions(q)
  <2>1. \A q : q # x.coll => Collection!In(q)' = Collection!In(q)
    BY DEF Collection!In
  <2> QED BY <2>1 DEF Collection!Open, FeaturedLists, Collection!AllFeatured, Collection!findFeatured, Versions, Collection!AsOf, Collection!Earlier
<1>8. CollAlone'
  <2> SUFFICES ASSUME ~together' PROVE CollAlone'
    BY DEF CollAlone
  <2>1. ~together /\ \A d \in CollCalls : ccall[d].step # "clear"
    BY <1>5
  <2>2. /\ \A q \in Colls : shelf[q] # {} =>
              q \in Collection!Open /\ shelf[q] \subseteq Versions(q)
        /\ shelf["featured"] \subseteq FeaturedLists
    BY <2>1 DEF CollInv, CollAlone, Drops, DropsFeatured
  <2>3. \A q \in Colls : shelf'[q] # {} =>
          \/ q \in Collection!Open' /\ shelf'[q] \subseteq Versions(q)'
          \/ Drops(ccall'[c], q)
    BY <2>2, <1>2, <1>7 DEF Drops
  <2>4. \A d \in CollCalls : CollCarries(ccall[d])'
    BY <2>1, <1>2, <1>6 DEF CollCarries
  <2> QED BY <2>1, <2>2, <2>3, <2>4, <1>2, <1>6, <1>7 DEF CollAlone
<1>9. CollTidy'
  <2> SUFFICES ASSUME ~together' PROVE CollTidy'
    BY DEF CollTidy
  <2>1. NamesApart'
    BY <1>5, <1>7 DEF NamesApart
  <2>2. \A d \in CollCalls : Unnamed(ccall[d])'
    BY <1>2, <1>6 DEF Unnamed
  <2>3. ~placed' => \A d \in CollCalls : Places(ccall[d])'
    BY <1>2, <1>6 DEF Places
  <2> QED BY <2>1, <2>2, <2>3 DEF CollTidy
<1> QED BY <1>3, <1>4, <1>8, <1>9 DEF CollInv

(* Adding, removing and reordering items.                                  *)
LEMMA CollWritesMembers ==
    ASSUME CollInv, NEW c \in CollCalls,
           Collection!AddItem(c) \/ Collection!RemoveItem(c) \/ Collection!ReorderItems(c)
    PROVE  CollInv'
<1> DEFINE x0 == ccall[c]
           k == x0.coll
<1>1. /\ x0.step \in {"insert", "save"} /\ x0.op \in {"add", "remove", "reorder"}
      /\ UNCHANGED <<coll, stock, shelf, together, placed, ctaken>>
  BY DEF Collection!AddItem, Collection!RemoveItem, Collection!ReorderItems,
         Collection!At, Collection!Quiet
<1>2. x0 \in CollCall /\ CollPath(x0) /\ member \subseteq CollMember /\ k \in Colls
  BY <1>1 DEF CollInv, CollTypes, CollPaths, CollPath, CollChanges
<1>3. ~together /\ ~placed => Places(x0) /\ PlacesApart
  BY <1>1, CollOne
<1>4. PICK b \in Nat : \A m \in member : m.order \in 0..b
  BY DEF CollInv, CollTypes
<1> DEFINE Moved ==
        /\ member' \subseteq CollMember /\ \E h \in Nat : \A m \in member' : m.order \in 0..h
        /\ \A m : m.coll # k => (m \in member' <=> m \in member)
        /\ ~together /\ ~placed => PlacesApart' /\ x0.op # "reorder"
<1>5. CASE Collection!Leave(c) /\ UNCHANGED member
  <2>1. ccall' = [ccall EXCEPT ![c] = Collection!Idle]
    BY <1>5 DEF Collection!Leave
  <2>2. ~together => \A d \in CollCalls : d # c => ccall[d].step = "idle"
    BY <1>1, CollOne
  <2>3. together \in BOOLEAN /\ placed \in BOOLEAN /\ ctaken \in 0..MaxCollTaken
    BY DEF CollInv, CollTypes
  <2>4. /\ UNCHANGED <<coll, member, stock, shelf>>
        /\ together' \in BOOLEAN /\ (together => together') /\ placed' \in BOOLEAN /\ (placed => placed')
        /\ ctaken' \in 0..MaxCollTaken /\ ctaken' >= ctaken
    BY <2>3, <1>1, <1>5
  <2>5. ~together' => /\ ccall[c].step # "clear"
                      /\ \A d \in CollCalls : d # c => ccall[d].step = "idle"
    BY <2>2, <1>1
  <2> QED BY ONLY CollInv, c \in CollCalls, <2>1, <2>4, <2>5, CollIdle, CollCallMoves
<1>6. ASSUME Collection!AddItem(c), ~(Collection!Leave(c) /\ UNCHANGED member)
      PROVE  Moved /\ Collection!Goto(c, "clear")
  <2>1. /\ member' = member \cup [coll : {k}, item : x0.item, order : x0.order]
        /\ Collection!Goto(c, "clear") /\ x0.op = "add" /\ x0.step = "insert"
    BY <1>6 DEF Collection!AddItem, Collection!At
  <2> DEFINE New == [coll : {k}, item : x0.item, order : x0.order]
  <2>2. \A m \in New : m \in CollMember /\ m.coll = k /\ m.order \in x0.order /\ m.order \in Nat
    BY <1>2 DEF CollMember, CollCall
  <2>3. \A m, n \in New : m = n
    BY <1>2 DEF CollPath, Small
  <2>4. \E h \in Nat : \A m \in member' : m.order \in 0..h
    <3>1. PICK h \in Nat : h >= b /\ \A o \in x0.order : h >= o
      <4>1. CASE x0.order = {}
        BY <4>1
      <4>2. CASE x0.order # {}
        <5>1. PICK o \in x0.order : x0.order = {o} /\ o \in Nat
          BY <4>2, <1>2 DEF CollPath, Small, CollCall
        <5>2. b + o \in Nat /\ b + o >= b /\ b + o >= o
          BY <5>1
        <5> QED BY <5>1, <5>2
      <4> QED BY <4>1, <4>2
    <3>2. ASSUME NEW m \in member PROVE m.order \in 0..h
      <4>1. m.order \in 0..b
        BY <1>4
      <4> QED BY <4>1, <3>1
    <3>3. ASSUME NEW m \in New PROVE m.order \in 0..h
      <4>1. m.order \in x0.order /\ m.order \in Nat
        BY <2>2
      <4> HIDE DEF x0
      <4> QED BY <4>1, <3>1
    <3> QED BY <3>2, <3>3, <2>1
  <2>5. ~together /\ ~placed => PlacesApart'
    <3> SUFFICES ASSUME ~together, ~placed, NEW m \in member', NEW n \in member',
                        m.coll = n.coll, m.order = n.order
                 PROVE  m = n
      BY DEF PlacesApart
    <3>1. \A i \in Collection!In(k), o \in x0.order : i.order < o
      BY <1>3, <2>1 DEF Places
    <3> DEFINE NewOnes == New
    <3>2. \A i \in member, j \in New : ~(i.coll = j.coll /\ i.order = j.order)
      <4> SUFFICES ASSUME NEW i \in member, NEW j \in New, i.coll = j.coll, i.order = j.order
                   PROVE  FALSE
          OBVIOUS
      <4>1. i \in Collection!In(k) /\ j.order \in x0.order /\ j.order \in Nat
        BY <2>2 DEF Collection!In
      <4>2. i.order < j.order
        BY <3>1, <4>1
      <4> QED BY <4>1, <4>2
    <3>3. member' = member \cup New
      BY <2>1
    <3> HIDE DEF New
    <3> QED BY <3>2, <3>3, <2>3, <1>3 DEF PlacesApart
  <2>6. member' \subseteq CollMember /\ \A m : m.coll # k => (m \in member' <=> m \in member)
    BY <2>1, <2>2, <1>2
  <2> QED BY <2>1, <2>4, <2>5, <2>6
<1>7. ASSUME Collection!RemoveItem(c) PROVE Moved /\ Collection!Goto(c, "clear")
  <2>1. /\ member' = {m \in member : m.coll # k \/ m.item \notin x0.item}
        /\ Collection!Goto(c, "clear") /\ x0.op = "remove"
    BY <1>7 DEF Collection!RemoveItem, Collection!At
  <2>2. member' \subseteq member /\ \A m : m.coll # k => (m \in member' <=> m \in member)
    BY <2>1
  <2>3. ~together /\ ~placed => PlacesApart'
    BY <2>2, <1>3 DEF PlacesApart
  <2> QED BY <2>1, <2>2, <2>3, <1>2, <1>4
<1>8. ASSUME Collection!ReorderItems(c) PROVE Moved /\ Collection!Goto(c, "clear")
  <2>1. PICK o \in x0.order :
          member' = {IF m.coll = k /\ m.item \in x0.item THEN [m EXCEPT !.order = o] ELSE m : m \in member}
    BY <1>8 DEF Collection!ReorderItems
  <2>2. Collection!Goto(c, "clear") /\ x0.op = "reorder" /\ o \in Nat
    BY <1>2, <1>8 DEF Collection!ReorderItems, Collection!At, CollCall
  <2>3. \A m \in member' : \E n \in member :
          m = IF n.coll = k /\ n.item \in x0.item THEN [n EXCEPT !.order = o] ELSE n
    BY <2>1
  <2>4. ASSUME NEW n \in member, n.coll = k
        PROVE  [n EXCEPT !.order = o] \in CollMember /\ [n EXCEPT !.order = o].order = o
               /\ [n EXCEPT !.order = o].coll = k
    <3>1. n \in CollMember /\ o \in Nat
      BY <1>2, <2>2
    <3> HIDE DEF x0, k
    <3> QED BY <2>4, <3>1 DEF CollMember
  <2>5. \A m \in member' : \/ m \in CollMember /\ m.order = o /\ m.coll = k
                           \/ m \in member
    <3> TAKE m \in member'
    <3>1. PICK n \in member : m = IF n.coll = k /\ n.item \in x0.item THEN [n EXCEPT !.order = o] ELSE n
      BY <2>3
    <3>2. CASE n.coll = k /\ n.item \in x0.item
      BY <3>1, <3>2, <2>4
    <3>3. CASE ~(n.coll = k /\ n.item \in x0.item)
      BY <3>1, <3>3
    <3> QED BY <3>2, <3>3
  <2>6. \A m \in member : m.coll # k => m \in member'
    BY <2>1
  <2>7. b + o \in Nat /\ \A m \in member' : m.order \in 0..b + o
    <3> SUFFICES ASSUME NEW m \in member' PROVE m.order \in 0..b + o
      BY <2>2
    <3>1. CASE m.order = o
      BY <2>2, <3>1
    <3>2. CASE m \in member
      <4>1. m.order \in 0..b
        BY <3>2, <1>4
      <4> QED BY <2>2, <4>1
    <3> QED BY <2>5, <3>1, <3>2
  <2>8. ~(~together /\ ~placed)
    BY <1>3, <2>2 DEF Places
  <2> HIDE DEF k, x0
  <2> QED BY <2>2, <2>5, <2>6, <2>7, <2>8, <1>2
<1>9. ASSUME Moved, Collection!Goto(c, "clear") PROVE CollInv'
  <2>1. PICK x \in CollCall : x = [x0 EXCEPT !.step = "clear"]
    BY <1>2 DEF CollCall, CollSteps
  <2>2. ccall' = [ccall EXCEPT ![c] = x]
    BY <1>9, <2>1 DEF Collection!Goto
  <2>3. /\ x.op = x0.op /\ x.step = "clear" /\ x.coll = k /\ x.row = x0.row
        /\ x.dto = x0.dto /\ x.item = x0.item /\ x.order = x0.order
    BY <1>2, <2>1 DEF CollCall
  <2>4. CollPath(x)
    BY <1>1, <1>2, <2>3 DEF CollPath, CollChanges
  <2>5. \A m : m.coll # x.coll => (m \in member' <=> m \in member)
    BY <1>9, <2>3
  <2>6. /\ member' \subseteq CollMember /\ \E h \in Nat : \A m \in member' : m.order \in 0..h
        /\ ~together /\ ~placed => PlacesApart' /\ x.op # "reorder"
    BY <1>9, <2>3
  <2> QED BY <1>1, <2>2, <2>3, <2>4, <2>5, <2>6, CollMembersMove
<1> QED BY <1>5, <1>6, <1>7, <1>8, <1>9
(* A key is cleared after a write, or expires.                             *)
LEMMA CollClears ==
    ASSUME CollInv, Collection!ExpireShelf \/ \E c \in CollCalls : Collection!ClearCaches(c)
    PROVE  CollInv'
<1>1. UNCHANGED <<coll, member, stock, together, placed, ctaken>>
  BY DEF Collection!ExpireShelf, Collection!ClearCaches, Collection!Quiet
<1>2. /\ ccall \in [CollCalls -> CollCall] /\ shelf \in [Collection!Keys -> SUBSET CollValues]
      /\ Colls \subseteq Collection!Keys /\ "featured" \in Collection!Keys
  BY DEF CollInv, CollTypes, Collection!Keys
<1>3. PICK gone : shelf' = [q \in Collection!Keys |-> IF q \in gone THEN {} ELSE shelf[q]]
  <2>1. CASE Collection!ExpireShelf
    BY <2>1 DEF Collection!ExpireShelf, Collection!Drop
  <2>2. CASE \E c \in CollCalls : Collection!ClearCaches(c)
    <3>1. PICK c \in CollCalls : Collection!ClearCaches(c)
      BY <2>2
    <3> DEFINE gone ==
            (IF ccall[c].op = "create" THEN {} ELSE {ccall[c].coll}) \cup
            (IF ccall[c].op \in {"create", "update", "delete"}
             THEN Collection!Featured(ccall[c].row) ELSE {})
    <3>2. shelf' = [q \in Collection!Keys |-> IF q \in gone THEN {} ELSE shelf[q]]
      BY <3>1 DEF Collection!ClearCaches, Collection!Drop
    <3> HIDE DEF gone
    <3> QED BY <3>2
  <2> QED BY <2>1, <2>2
<1>4. \A q \in Collection!Keys : shelf'[q] = {} \/ shelf'[q] = shelf[q]
  BY <1>3
<1>5. \A d \in CollCalls : ccall'[d] = ccall[d] \/ ccall'[d] = Collection!Idle
  BY <1>2 DEF Collection!ExpireShelf, Collection!ClearCaches, Collection!Leave
<1>6. /\ Collection!Open' = Collection!Open /\ FeaturedLists' = FeaturedLists
      /\ Collection!findPublic' = Collection!findPublic
      /\ \A q : Versions(q)' = Versions(q)
      /\ \A q : Collection!In(q)' = Collection!In(q)
  BY <1>1 DEF Collection!Open, FeaturedLists, Collection!AllFeatured, Collection!findFeatured, Collection!findPublic,
         Versions, Collection!AsOf, Collection!Earlier, Collection!In
<1>7. \A y : /\ CollPath(y)' = CollPath(y) /\ CollCarries(y)' = CollCarries(y)
             /\ Unnamed(y)' = Unnamed(y) /\ Places(y)' = Places(y)
  BY <1>1, <1>6 DEF CollPath, CollCarries, Unnamed, Places, ShelfValues
<1>8. \A d \in CollCalls :
        /\ CollPath(ccall[d])' = CollPath(ccall'[d]) /\ CollCarries(ccall[d])' = CollCarries(ccall'[d])
        /\ Unnamed(ccall[d])' = Unnamed(ccall'[d]) /\ Places(ccall[d])' = Places(ccall'[d])
  BY <1>1, <1>6 DEF CollPath, CollCarries, Unnamed, Places, ShelfValues
<1>9. CollTypes'
  <2>1. ccall' \in [CollCalls -> CollCall]
    BY <1>2, CollIdle DEF Collection!ExpireShelf, Collection!ClearCaches, Collection!Leave
  <2>2. shelf' \in [Collection!Keys -> SUBSET CollValues]
    BY <1>2, <1>3
  <2> QED BY <2>1, <2>2, <1>1 DEF CollInv, CollTypes
<1>10. CollPaths'
  <2>1. \A d \in CollCalls : CollPath(ccall[d])'
    BY <1>5, <1>8, CollIdle DEF CollInv, CollPaths
  <2>2. \A q \in Collection!Keys : Small(shelf'[q])
    BY <1>4 DEF CollInv, CollPaths, Small
  <2> QED BY <2>1, <2>2 DEF CollPaths
<1>11. CollAlone'
  <2> SUFFICES ASSUME ~together' PROVE CollAlone'
    BY DEF CollAlone
  <2>1. /\ ~together
        /\ \A c, d \in CollCalls : c # d => ccall[c].step = "idle" \/ ccall[d].step = "idle"
        /\ \A c \in CollCalls : CollCarries(ccall[c])
    BY <1>1 DEF CollInv, CollAlone
  <2>2. \A c, d \in CollCalls : c # d => ccall'[c].step = "idle" \/ ccall'[d].step = "idle"
    BY <2>1, <1>5, CollIdle
  <2>3. \A d \in CollCalls : CollCarries(ccall[d])'
    BY <2>1, <1>5, <1>8, CollIdle
  <2>4. \A q \in Colls : shelf'[q] # {} =>
          \/ q \in Collection!Open /\ shelf'[q] \subseteq Versions(q)
          \/ \E d \in CollCalls : Drops(ccall'[d], q)
    <3> SUFFICES ASSUME NEW q \in Colls, shelf'[q] # {},
                        NEW d \in CollCalls, Drops(ccall[d], q)
                 PROVE  Drops(ccall'[d], q)
      BY <2>1, <1>2, <1>4 DEF CollInv, CollAlone
    <3>1. CASE ccall'[d] = ccall[d]
      BY <3>1
    <3>2. CASE ccall'[d] # ccall[d]
      <4>1. PICK c \in CollCalls : Collection!ClearCaches(c)
        BY <3>2 DEF Collection!ExpireShelf
      <4>2. c = d
        BY <3>2, <4>1, <1>2 DEF Collection!ClearCaches, Collection!Leave
      <4>3. shelf'[q] = {}
        BY <4>1, <4>2, <1>2 DEF Collection!ClearCaches, Collection!Drop, Drops
      <4> QED BY <4>3
    <3> QED BY <3>1, <3>2
  <2>5. \/ shelf'["featured"] \subseteq FeaturedLists
        \/ \E d \in CollCalls : DropsFeatured(ccall'[d])
    <3> SUFFICES ASSUME NEW d \in CollCalls, DropsFeatured(ccall[d]), shelf'["featured"] # {}
                 PROVE  DropsFeatured(ccall'[d])
      BY <2>1, <1>2, <1>4 DEF CollInv, CollAlone
    <3>1. CASE ccall'[d] = ccall[d]
      BY <3>1
    <3>2. CASE ccall'[d] # ccall[d]
      <4>1. PICK c \in CollCalls : Collection!ClearCaches(c)
        BY <3>2 DEF Collection!ExpireShelf
      <4>2. c = d
        BY <3>2, <4>1, <1>2 DEF Collection!ClearCaches, Collection!Leave
      <4>3. shelf'["featured"] = {}
        BY <4>1, <4>2, <1>2
           DEF Collection!ClearCaches, Collection!Drop, Collection!Featured, DropsFeatured, CollWrites
      <4> QED BY <4>3
    <3> QED BY <3>1, <3>2
  <2> QED BY <2>2, <2>3, <2>4, <2>5, <1>6 DEF CollAlone
<1>12. CollTidy'
  <2> SUFFICES ASSUME ~together' PROVE CollTidy'
    BY DEF CollTidy
  <2>1. NamesApart' /\ (~placed' => PlacesApart')
    BY <1>1, <1>6 DEF CollInv, CollTidy, NamesApart, PlacesApart
  <2>2. /\ \A d \in CollCalls : Unnamed(ccall[d])'
        /\ ~placed' => \A d \in CollCalls : Places(ccall[d])'
    BY <1>1, <1>5, <1>8, CollIdle DEF CollInv, CollTidy
  <2> QED BY <2>1, <2>2 DEF CollTidy
<1> QED BY <1>9, <1>10, <1>11, <1>12 DEF CollInv

(* An item is written, and what the cache holds of it gets older.          *)
LEMMA CollItems ==
    ASSUME CollInv, Collection!ItemChanges PROVE CollInv'
<1>1. PICK i \in Items : stock' = [stock EXCEPT ![i] = @ + 1]
  BY DEF Collection!ItemChanges
<1>2. /\ UNCHANGED <<coll, member, shelf, ccall, together, placed>>
      /\ ctaken' = ctaken + 1 /\ ctaken' \in 0..MaxCollTaken
  BY BoundsAssumption DEF Collection!ItemChanges, CollInv, CollTypes
<1>3. /\ stock' \in [Items -> Nat] /\ \A j \in Items : stock[j] <= stock'[j] /\ stock'[j] <= ctaken'
  BY <1>1, <1>2 DEF CollInv, CollTypes
<1>4. Collection!Earlier \subseteq Collection!Earlier'
  <2> SUFFICES ASSUME NEW t \in [Items -> 0..MaxCollTaken], NEW j \in Items, t[j] <= stock[j]
               PROVE  t[j] <= stock'[j]
    BY DEF Collection!Earlier
  <2>1. t[j] \in Nat /\ stock[j] \in Nat /\ stock'[j] \in Nat /\ stock[j] <= stock'[j]
    BY <1>3, BoundsAssumption DEF CollInv, CollTypes
  <2> QED BY <2>1
<1>5. \A k, t : Collection!AsOf(k, t)' = Collection!AsOf(k, t)
  BY <1>2 DEF Collection!AsOf, Collection!In
<1>6. \A k : Versions(k) \subseteq Versions(k)'
  BY <1>2, <1>4 DEF Versions, Collection!AsOf, Collection!In
<1>7. /\ Collection!Open' = Collection!Open /\ FeaturedLists' = FeaturedLists
      /\ Collection!findPublic' = Collection!findPublic
      /\ \A k : Collection!In(k)' = Collection!In(k)
  BY <1>2 DEF Collection!Open, FeaturedLists, Collection!AllFeatured, Collection!findFeatured,
         Collection!findPublic, Collection!In
<1>8. \A k : ShelfValues(k) \subseteq ShelfValues(k)'
  BY <1>6, <1>7 DEF ShelfValues
<1>9. CollTypes'
  BY <1>2, <1>3 DEF CollInv, CollTypes
<1>10. CollPaths'
  BY <1>2 DEF CollInv, CollPaths, CollPath
<1>11. CollAlone'
  <2> SUFFICES ASSUME ~together' PROVE CollAlone'
    BY DEF CollAlone
  <2>1. ~together
    BY <1>2
  <2>2. \A d \in CollCalls : CollCarries(ccall[d])'
    <3> TAKE d \in CollCalls
    <3>1. CollCarries(ccall[d])
      BY <2>1 DEF CollInv, CollAlone
    <3> QED BY <3>1, <1>2, <1>7, <1>8 DEF CollCarries
  <2>3. \A k \in Colls : shelf[k] # {} =>
            \/ k \in Collection!Open /\ shelf[k] \subseteq Versions(k)
            \/ \E c \in CollCalls : Drops(ccall[c], k)
    BY <2>1 DEF CollInv, CollAlone
  <2>4. \/ shelf["featured"] \subseteq FeaturedLists
        \/ \E c \in CollCalls : DropsFeatured(ccall[c])
    BY <2>1 DEF CollInv, CollAlone
  <2>5. \A c, d \in CollCalls : c # d => ccall[c].step = "idle" \/ ccall[d].step = "idle"
    BY <2>1 DEF CollInv, CollAlone
  <2>6. \A k \in Colls : shelf'[k] # {} =>
            \/ k \in Collection!Open' /\ shelf'[k] \subseteq Versions(k)'
            \/ \E c \in CollCalls : Drops(ccall'[c], k)
    BY <2>3, <1>2, <1>6, <1>7
  <2> QED BY <2>2, <2>4, <2>5, <2>6, <1>2, <1>7 DEF CollAlone
<1>12. CollTidy'
  <2>1. \A y : Unnamed(y)' = Unnamed(y) /\ Places(y)' = Places(y)
    BY <1>2, <1>7 DEF Unnamed, Places
  <2>2. NamesApart' = NamesApart /\ PlacesApart' = PlacesApart
    BY <1>2, <1>7 DEF NamesApart, PlacesApart
  <2> QED BY <2>2, <1>2, <1>7 DEF CollInv, CollTidy, Unnamed, Places
<1> QED BY <1>9, <1>10, <1>11, <1>12 DEF CollInv

(* Nothing of the collections moves.                                       *)
LEMMA CollRests == CollInv /\ UNCHANGED collVars => CollInv'
<1> SUFFICES ASSUME CollInv, UNCHANGED collVars PROVE CollInv'
    OBVIOUS
<1>1. UNCHANGED <<coll, member, stock, shelf, ccall, together, placed, ctaken>>
  BY DEF collVars
<1>2. /\ FeaturedLists' = FeaturedLists /\ Collection!findPublic' = Collection!findPublic
      /\ \A k : Versions(k)' = Versions(k)
      /\ Collection!Open' = Collection!Open
  BY <1>1 DEF Collection!Open, FeaturedLists, Collection!AllFeatured, Collection!findFeatured, Versions,
     Collection!AsOf, Collection!Earlier, Collection!In, Collection!findPublic
<1>3. \A k : ShelfValues(k)' = ShelfValues(k)
  BY <1>2 DEF ShelfValues
<1>4. CollTypes' /\ CollPaths'
  BY <1>1 DEF CollInv, CollTypes, CollPaths, CollPath
<1>5. \A c \in CollCalls : /\ CollCarries(ccall[c])' <=> CollCarries(ccall[c])
                           /\ Unnamed(ccall[c])' <=> Unnamed(ccall[c])
                           /\ Places(ccall[c])' <=> Places(ccall[c])
                           /\ DropsFeatured(ccall[c])' <=> DropsFeatured(ccall[c])
                           /\ \A k \in Colls : Drops(ccall[c], k)' <=> Drops(ccall[c], k)
  <2> TAKE c \in CollCalls
  <2>0. /\ ccall'[c] = ccall[c] /\ coll' = coll /\ member' = member
        /\ Collection!Open' = Collection!Open
    BY <1>1, <1>2
  <2>1. CollCarries(ccall[c])' <=> CollCarries(ccall[c])
    BY <1>1, <1>2, <1>3 DEF CollCarries
  <2>2. Unnamed(ccall[c])' <=> Unnamed(ccall[c])
    BY ONLY <2>0 DEF Unnamed
  <2>3. Places(ccall[c])' <=> Places(ccall[c])
    BY ONLY <2>0 DEF Places, Collection!In
  <2>4. DropsFeatured(ccall[c])' <=> DropsFeatured(ccall[c])
    BY ONLY <2>0 DEF DropsFeatured
  <2>5. \A k \in Colls : Drops(ccall[c], k)' <=> Drops(ccall[c], k)
    BY ONLY <2>0 DEF Drops
  <2> QED BY <2>1, <2>2, <2>3, <2>4, <2>5
<1>6. CollAlone'
  BY <1>1, <1>2, <1>5 DEF CollInv, CollAlone
<1>7. CollTidy'
  BY <1>1, <1>2, <1>5 DEF CollInv, CollTidy, NamesApart, PlacesApart
<1> QED BY <1>4, <1>6, <1>7 DEF CollInv

(* Every step keeps the invariant.                                         *)
LEMMA CollNext == CollInv /\ [Next]_vars => CollInv'
<1> SUFFICES ASSUME CollInv, [Next]_vars PROVE CollInv'
    OBVIOUS
<1>1. \/ UNCHANGED collVars
      \/ \E c \in CollCalls :
            \/ Collection!Take(c) \/ Collection!Find(c) \/ Collection!PutInCache(c)
            \/ Collection!VerifyCollection(c) \/ Collection!CheckName(c)
            \/ Collection!CreateCollection(c) \/ Collection!UpdateCollection(c)
            \/ Collection!DeleteCollection(c) \/ Collection!CheckItem(c) \/ Collection!GetMaxOrder(c)
            \/ Collection!AddItem(c) \/ Collection!FindMember(c) \/ Collection!RemoveItem(c)
            \/ Collection!FindMembers(c) \/ Collection!ReorderItems(c) \/ Collection!ClearCaches(c)
      \/ Collection!ExpireShelf
      \/ Collection!ItemChanges
  BY Zenon DEF Next, vars, OnItem, OnCache, OnCollection, OnBrand, OnIndex, OnRecommend, OnInteract, OnSearch
<1> QED BY <1>1, CollRests, CollTakes, CollPuts, CollChecks, CollWritesRows, CollWritesMembers,
           CollClears, CollItems

(* The invariant of the collections; a behaviour of another service has    *)
(* none.                                                                   *)
LEMMA CollHolds == Spec => []CollInv
<1>1. Init => CollInv
  <2> SUFFICES ASSUME Init PROVE CollInv
      OBVIOUS
  <2>1. CASE part = "coll"
    BY <2>1, CollInit DEF Init
  <2>2. CASE part # "coll"
    <3>1. /\ DOMAIN coll = {} /\ member = {} /\ shelf = [q \in Collection!Keys |-> {}]
          /\ stock = [i \in Items |-> 0] /\ ccall = [c \in CollCalls |-> Collection!Idle]
          /\ together = FALSE /\ placed = FALSE /\ ctaken = 0 /\ coll = [q \in {} |-> 0]
      BY <2>2 DEF Init
    <3>2. Collection!Open = {}
      BY <3>1 DEF Collection!Open
    <3>3. CollTypes
      <4>1. ccall \in [CollCalls -> CollCall] /\ shelf \in [Collection!Keys -> SUBSET CollValues]
        BY <3>1, CollIdle
      <4>2. DOMAIN coll \subseteq Colls /\ coll \in [DOMAIN coll -> Collection!Collection]
        BY <3>1
      <4>3. member \subseteq CollMember /\ \A m \in member : m.order \in 0..0
        BY <3>1
      <4>4. ctaken \in 0..MaxCollTaken
        BY <3>1, BoundsAssumption
      <4>5. stock \in [Items -> Nat] /\ \A i \in Items : stock[i] <= ctaken
        BY <3>1
      <4> QED BY <4>1, <4>2, <4>3, <4>4, <4>5, <3>1 DEF CollTypes
    <3>4. CollPaths
      BY <3>1, CollIdle DEF CollPaths, Small
    <3>5. CollAlone
      BY <3>1, CollIdle DEF CollAlone, Collection!Keys
    <3>6. CollTidy
      BY <3>1, <3>2, CollIdle DEF CollTidy, NamesApart, PlacesApart
    <3> QED BY <3>3, <3>4, <3>5, <3>6 DEF CollInv
  <2> QED BY <2>1, <2>2
<1> QED BY <1>1, CollNext, PTL DEF Spec

(* Between calls that never overlapped, no call is about to clear.         *)
LEMMA CollFresh == CollInv => Collection!ShelfFreshAlone
<1> SUFFICES ASSUME CollInv, ~together, \A c \in CollCalls : ccall[c].step = "idle"
             PROVE  /\ \A k \in Colls : shelf[k] # {} =>
                         /\ k \in Collection!Open
                         /\ \E s \in Collection!Earlier : shelf[k] = {Collection!AsOf(k, s)}
                    /\ \A rows \in shelf["featured"] :
                         \E limit \in Limits : rows \in Collection!findFeatured(limit)
  BY Zenon DEF Collection!ShelfFreshAlone, Collection!AllIdle
<1>1. /\ \A k \in Colls : shelf[k] # {} => k \in Collection!Open /\ shelf[k] \subseteq Versions(k)
      /\ shelf["featured"] \subseteq FeaturedLists
      /\ \A k \in Colls : Small(shelf[k])
  BY DEF CollInv, CollAlone, CollPaths, Drops, DropsFeatured, Collection!Keys
<1>2. ASSUME NEW k \in Colls, shelf[k] # {}
      PROVE  \E s \in Collection!Earlier : shelf[k] = {Collection!AsOf(k, s)}
  <2>1. PICK v \in shelf[k] : shelf[k] = {v} /\ v \in Versions(k)
    BY <1>1, <1>2 DEF Small
  <2> QED BY <2>1 DEF Versions
<1> QED BY <1>1, <1>2 DEF FeaturedLists

(* While nothing overlapped, every cache that a service invalidates agrees *)
(* with the database between calls: collections and featured ones in       *)
(* collection.service.ts, brand partners in brand-partner.service.ts, and  *)
(* what catalog-cache.service.ts answers for an item just invalidated.     *)
THEOREM CachesFresh == Spec => []CachesFreshAlone
<1>1. CollInv /\ BrandInv /\ CacheInv => CachesFreshAlone
  BY CollFresh, BrandFresh, InvalidatedFresh DEF CachesFreshAlone
<1> QED BY <1>1, CollHolds, BrandHolds, CacheHolds, PTL

(* While calls never overlapped, names of open collections differ, and     *)
(* items nobody placed by hand have each a place of their own: the greatest *)
(* place plus one is free, whatever was removed before it.                 *)
THEOREM CollectionsTidy == Spec => []TidyAlone
<1>1. CollInv => TidyAlone
  BY DEF CollInv, CollTidy, NamesApart, PlacesApart, TidyAlone, Collection!TidyAlone
<1> QED BY <1>1, CollHolds, PTL
(***************************************************************************)
(* Items.                                                                  *)
(***************************************************************************)
ItemRevs == 0..MaxRevs
ItemOps == {"none", "create", "get", "update", "delete", "list"}
ItemSteps ==
    {"idle", "names", "brand", "save", "flex", "commit", "find", "found", "softDelete", "deleted"}
ItemColumns == {"deleted", "views", "scored"}
ItemPairs == Items \X ItemRevs
ItemCall ==
    [op : ItemOps, step : ItemSteps, item : Items \cup {"none"}, copy : SUBSET Item!Copies,
     writes : SUBSET (ItemColumns \cup ItemPairs), rev : ItemRevs]
ItemPost == [kind : {"index", "unindex", "view", "score"}, item : Items, rev : ItemRevs]

ItemTypes ==
    /\ DOMAIN row \subseteq Items /\ row \in [DOMAIN row -> Item!Copies]
    /\ flex \in [Items -> SUBSET (1..MaxRevs)] /\ index \in [Items -> SUBSET (1..MaxRevs)]
    /\ memo \in [Items -> SUBSET Item!Copies] /\ listed \subseteq SUBSET ItemPairs
    /\ call \in [Calls -> ItemCall] /\ posts \subseteq ItemPost
    /\ committed \subseteq ItemPairs
    /\ revs \in 0..MaxRevs /\ taken \in 0..MaxTaken /\ faults \in 0..MaxFaults
    /\ brand \in BOOLEAN /\ crossed \in BOOLEAN

(* Where a call is, and what it carries there.                             *)
ItemPath(x) ==
    /\ Small(x.copy) /\ \A r \in x.copy : ~r.deleted
    /\ x.step = "idle" => x.item = "none"
    /\ x.step \in {"softDelete", "deleted"} => x.op = "delete"
    /\ x.step \in {"names", "brand", "save", "flex", "commit"} => x.op \in {"create", "update"}
    /\ x.step = "names" => x.op = "create"
    /\ x.step \in {"find", "found"} => x.op \in {"get", "update", "delete", "list"}
    /\ x.op \in {"get", "update", "delete"} => x.item \in Items
    /\ x.op \in {"get", "update", "delete"} /\ x.step # "find" => x.item \in DOMAIN row /\ x.copy # {}
    /\ x.step \in {"flex", "commit"} => x.item \in Items /\ x.copy # {} /\ x.rev >= 1
    /\ x.op = "create" => x.writes = {}
    /\ x.op = "update" => x.writes \subseteq ItemColumns
    /\ x.op = "list" => x.writes \subseteq committed /\ x.copy = {}
    /\ x.step = "found" => \A r \in x.copy : <<x.item, r.rev>> \in committed

ItemCopies ==
    /\ \A i \in DOMAIN row : row[i].rev >= 1 /\ <<i, row[i].rev>> \in committed
    /\ \A i \in Items : \A r \in memo[i] : i \in DOMAIN row /\ ~r.deleted /\ <<i, r.rev>> \in committed
    /\ \A i \in Items : Small(memo[i])
    /\ \A l \in listed : l \subseteq committed
    /\ \A i \in Items : \A n \in index[i] : <<i, n>> \in committed
    /\ \A p \in posts : p.kind = "index" => p.rev >= 1 /\ <<p.item, p.rev>> \in committed
    /\ \A c \in Calls : ItemPath(call[c])

(* While calls do not overlap: the index has what the row says, or the one *)
(* indexing under way will bring it, or the deletion has still to post it. *)
Deleting(i) == \E c \in Calls : call[c].step = "deleted" /\ call[c].item = i
Desired(i) == IF i \in Item!Live THEN {row[i].rev} ELSE {}

ItemWrites(x) ==
    x.step \in {"flex", "commit"} =>
        /\ x.op = "create" => x.item \notin DOMAIN row
        /\ x.op = "update" /\ "deleted" \notin x.writes => x.item \in Item!Live
IsIndexing(p) == p.kind \in {"index", "unindex"}

ItemAlone ==
    ~crossed /\ faults = 0 =>
        /\ \A c, d \in Calls : c # d => call[c].step = "idle" \/ call[d].step = "idle"
        /\ \A c \in Calls : ItemWrites(call[c])
        /\ \A c \in Calls : call[c].step = "deleted" => call[c].item \notin Item!Live
        /\ \A p, q \in posts : IsIndexing(p) /\ IsIndexing(q) /\ p.item = q.item => p = q
        /\ \A p \in posts : IsIndexing(p) /\ ~Deleting(p.item) =>
              Desired(p.item) = IF p.kind = "index" THEN {p.rev} ELSE {}
        /\ \A i \in Items :
              Deleting(i) \/ index[i] = Desired(i) \/ \E p \in posts : IsIndexing(p) /\ p.item = i

ItemInv == ItemTypes /\ ItemCopies /\ ItemAlone

(* A call that leaves is nowhere.                                          *)
LEMMA ItemIdle ==
    /\ Item!Free \in ItemCall /\ Item!Free.step = "idle"
    /\ ItemPath(Item!Free) /\ ItemWrites(Item!Free)
<1>1. 0 \in ItemRevs
  BY BoundsAssumption DEF ItemRevs
<1>2. Item!Free \in ItemCall /\ Item!Free.step = "idle"
  BY <1>1 DEF Item!Free, Item!Nowhere, ItemCall, ItemOps, ItemSteps
<1> QED BY <1>2 DEF Item!Free, Item!Nowhere, ItemPath, ItemWrites, Small

(* There is nothing at first.                                              *)
LEMMA ItemInit == Item!Init => ItemInv
<1> SUFFICES ASSUME Item!Init PROVE ItemInv
    OBVIOUS
<1>1. \A c \in Calls : call[c] = Item!Free
  BY DEF Item!Init
<1>2. \A i \in Items : flex[i] = {} /\ memo[i] = {} /\ index[i] = {}
  BY DEF Item!Init
<1>3. DOMAIN row = {} /\ listed = {} /\ posts = {} /\ committed = {}
  BY DEF Item!Init
<1>4. ItemTypes
  <2>1. call \in [Calls -> ItemCall]
    BY ItemIdle DEF Item!Init
  <2>2. /\ flex \in [Items -> SUBSET (1..MaxRevs)] /\ index \in [Items -> SUBSET (1..MaxRevs)]
        /\ memo \in [Items -> SUBSET Item!Copies]
    BY DEF Item!Init
  <2>3. revs \in 0..MaxRevs /\ taken \in 0..MaxTaken /\ faults \in 0..MaxFaults
    BY BoundsAssumption DEF Item!Init
  <2>4. row \in [DOMAIN row -> Item!Copies] /\ DOMAIN row \subseteq Items
    BY DEF Item!Init
  <2>5. brand \in BOOLEAN /\ crossed \in BOOLEAN
    BY DEF Item!Init
  <2> QED BY <1>3, <2>1, <2>2, <2>3, <2>4, <2>5 DEF ItemTypes
<1>5. ItemCopies
  BY <1>1, <1>2, <1>3, ItemIdle DEF ItemCopies, Small
<1>6. ItemAlone
  <2>1. Item!Live = {}
    BY <1>3 DEF Item!Live, Item!Stored
  <2> QED BY <1>1, <1>2, <1>3, <2>1, ItemIdle DEF ItemAlone, Deleting, Desired
<1> QED BY <1>4, <1>5, <1>6 DEF ItemInv

(* A step that writes no item but counters of it, and tells the index      *)
(* nothing: of at most one call, which was not and is not deleting.        *)
LEMMA ItemSteady ==
    ASSUME ItemInv, NEW C \in SUBSET Calls, NEW x \in ItemCall,
           call' = [d \in Calls |-> IF d \in C THEN x ELSE call[d]],
           ItemPath(x), x.step # "deleted", \A d \in C : call[d].step # "deleted",
           DOMAIN row' = DOMAIN row, row' \in [DOMAIN row -> Item!Copies],
           \A i \in DOMAIN row : row'[i].rev = row[i].rev /\ row'[i].deleted = row[i].deleted,
           UNCHANGED <<index, committed>>,
           flex' \in [Items -> SUBSET (1..MaxRevs)], memo' \in [Items -> SUBSET Item!Copies],
           \A i \in Items : memo'[i] = memo[i] \/
               /\ Small(memo'[i])
               /\ \A r \in memo'[i] : i \in DOMAIN row /\ ~r.deleted /\ <<i, r.rev>> \in committed,
           \A l \in listed' : l \in listed \/ l \subseteq committed,
           posts' \subseteq ItemPost,
           \A p \in ItemPost : IsIndexing(p) => (p \in posts' <=> p \in posts),
           revs' \in 0..MaxRevs, taken' \in 0..MaxTaken, faults' \in 0..MaxFaults,
           brand' \in BOOLEAN, crossed' \in BOOLEAN,
           ~crossed' /\ faults' = 0 =>
               /\ ~crossed /\ faults = 0 /\ ItemWrites(x)
               /\ \A d \in C, e \in Calls : d # e => e \notin C /\ call[e].step = "idle"
    PROVE  ItemInv'
<1>1. \A d \in Calls : IF d \in C THEN call'[d] = x ELSE call'[d] = call[d]
    OBVIOUS
<1>2. call \in [Calls -> ItemCall] /\ posts \subseteq ItemPost /\ listed \subseteq SUBSET ItemPairs
      /\ committed \subseteq ItemPairs
  BY DEF ItemInv, ItemTypes
<1>3. Item!Live' = Item!Live
  BY DEF Item!Live, Item!Stored
<1>4. ItemTypes'
  <2>1. call' \in [Calls -> ItemCall]
    BY <1>2
  <2>2. listed' \subseteq SUBSET ItemPairs
    BY <1>2
  <2> QED BY <2>1, <2>2 DEF ItemInv, ItemTypes
<1>5. \A d \in Calls : ItemPath(call[d])'
  BY <1>1 DEF ItemInv, ItemCopies, ItemPath
<1>6. ItemCopies'
  <2>1. \A i \in DOMAIN row' : row'[i].rev >= 1 /\ <<i, row'[i].rev>> \in committed'
    BY DEF ItemInv, ItemCopies
  <2>2. \A i \in Items : Small(memo'[i]) /\
          \A r \in memo'[i] : i \in DOMAIN row' /\ ~r.deleted /\ <<i, r.rev>> \in committed'
    BY DEF ItemInv, ItemCopies
  <2>3. \A l \in listed' : l \subseteq committed'
    BY DEF ItemInv, ItemCopies
  <2>4. \A p \in posts' : p.kind = "index" => p.rev >= 1 /\ <<p.item, p.rev>> \in committed'
    BY DEF ItemInv, ItemCopies, IsIndexing
  <2>5. \A i \in Items : \A n \in index'[i] : <<i, n>> \in committed'
    BY DEF ItemInv, ItemCopies
  <2> QED BY <2>1, <2>2, <2>3, <2>4, <2>5, <1>5 DEF ItemCopies
<1>7. ItemAlone'
  <2> SUFFICES ASSUME ~crossed', faults' = 0 PROVE ItemAlone'
    BY DEF ItemAlone
  <2>1. \A i \in Items : Desired(i)' = Desired(i)
    BY <1>3 DEF Desired, Item!Live, Item!Stored
  <2>2. \A i \in Items : Deleting(i)' <=> Deleting(i)
    BY <1>1 DEF Deleting
  <2>3. \A c, d \in Calls : c # d => call'[c].step = "idle" \/ call'[d].step = "idle"
    BY <1>1 DEF ItemInv, ItemAlone
  <2>4. \A d \in Calls : ItemWrites(call[d])'
    BY <1>1, <1>3 DEF ItemInv, ItemAlone, ItemWrites
  <2>5. \A d \in Calls : call'[d].step = "deleted" => call'[d].item \notin Item!Live'
    BY <1>1, <1>3 DEF ItemInv, ItemAlone
  <2>6. \A p, q \in posts' : IsIndexing(p) /\ IsIndexing(q) /\ p.item = q.item => p = q
    BY DEF ItemInv, ItemAlone
  <2>7. \A p \in posts' : IsIndexing(p) /\ ~Deleting(p.item)' =>
          Desired(p.item)' = IF p.kind = "index" THEN {p.rev} ELSE {}
    <3> SUFFICES ASSUME NEW p \in posts', IsIndexing(p), ~Deleting(p.item)'
                 PROVE  Desired(p.item)' = IF p.kind = "index" THEN {p.rev} ELSE {}
        OBVIOUS
    <3>1. p \in posts /\ p.item \in Items
      BY DEF ItemPost
    <3> QED BY <3>1, <2>1, <2>2 DEF ItemInv, ItemAlone
  <2>8. \A i \in Items :
          Deleting(i)' \/ index'[i] = Desired(i)' \/ \E p \in posts' : IsIndexing(p) /\ p.item = i
    BY <2>1, <2>2, <1>2 DEF ItemInv, ItemAlone
  <2> QED BY <2>3, <2>4, <2>5, <2>6, <2>7, <2>8 DEF ItemAlone, IsIndexing
<1> QED BY <1>4, <1>6, <1>7 DEF ItemInv

(* A call in flight while nothing overlapped and nothing failed.           *)
LEMMA ItemOnly ==
    ASSUME ItemInv, ~crossed, faults = 0, NEW c \in Calls, call[c].step # "idle"
    PROVE  ItemWrites(call[c]) /\ \A d \in Calls : d # c => call[d].step = "idle"
BY DEF ItemInv, ItemAlone

(* A step of one call that writes no item and tells the index nothing.     *)
LEMMA ItemCallMoves ==
    ASSUME ItemInv, NEW c \in Calls, NEW x \in ItemCall, call' = [call EXCEPT ![c] = x],
           ItemPath(x), x.step # "deleted", call[c].step # "deleted", UNCHANGED <<row, index, committed>>,
           flex' \in [Items -> SUBSET (1..MaxRevs)], memo' \in [Items -> SUBSET Item!Copies],
           \A i \in Items : memo'[i] = memo[i] \/
               /\ Small(memo'[i])
               /\ \A r \in memo'[i] : i \in DOMAIN row /\ ~r.deleted /\ <<i, r.rev>> \in committed,
           \A l \in listed' : l \in listed \/ l \subseteq committed,
           posts' \subseteq ItemPost,
           \A p \in ItemPost : IsIndexing(p) => (p \in posts' <=> p \in posts),
           revs' \in 0..MaxRevs, taken' \in 0..MaxTaken, faults' \in 0..MaxFaults,
           brand' \in BOOLEAN, crossed' \in BOOLEAN,
           ~crossed' /\ faults' = 0 =>
               ~crossed /\ faults = 0 /\ ItemWrites(x) /\ \A e \in Calls : e # c => call[e].step = "idle"
    PROVE  ItemInv'
<1> DEFINE C == {c}
<1>1. call' = [d \in Calls |-> IF d \in C THEN x ELSE call[d]]
  BY DEF ItemInv, ItemTypes
<1>2. C \in SUBSET Calls /\ \A d \in C : d = c
    OBVIOUS
<1>3. row' \in [DOMAIN row -> Item!Copies]
  BY DEF ItemInv, ItemTypes
<1> HIDE DEF C
<1> QED BY <1>1, <1>2, <1>3, ItemSteady

(* A step of one call that changes the call alone.                         *)
LEMMA ItemCallGoes ==
    ASSUME ItemInv, NEW c \in Calls, NEW x \in ItemCall, call' = [call EXCEPT ![c] = x],
           ItemPath(x), x.step # "deleted", call[c].step # "deleted",
           UNCHANGED <<row, index, committed, memo, listed, flex, posts, brand>>,
           revs' \in 0..MaxRevs, taken' \in 0..MaxTaken, faults' \in 0..MaxFaults, crossed' \in BOOLEAN,
           ~crossed' /\ faults' = 0 =>
               ~crossed /\ faults = 0 /\ ItemWrites(x) /\ \A e \in Calls : e # c => call[e].step = "idle"
    PROVE  ItemInv'
<1>1. /\ flex \in [Items -> SUBSET (1..MaxRevs)] /\ memo \in [Items -> SUBSET Item!Copies]
      /\ posts \subseteq ItemPost /\ brand \in BOOLEAN
  BY DEF ItemInv, ItemTypes
<1> QED BY <1>1, ItemCallMoves

(* A step that leaves the calls, the rows but for their counters, and the  *)
(* index.                                                                  *)
LEMMA ItemCountersMove ==
    ASSUME ItemInv, UNCHANGED <<call, index, committed, flex, revs, taken, crossed>>,
           DOMAIN row' = DOMAIN row, row' \in [DOMAIN row -> Item!Copies],
           \A i \in DOMAIN row : row'[i].rev = row[i].rev /\ row'[i].deleted = row[i].deleted,
           memo' \in [Items -> SUBSET Item!Copies], \A i \in Items : memo'[i] = memo[i] \/ memo'[i] = {},
           listed' \subseteq listed, posts' \subseteq ItemPost,
           faults' \in 0..MaxFaults, brand' \in BOOLEAN,
           faults' = 0 => faults = 0,
           \A p \in ItemPost : IsIndexing(p) => (p \in posts' <=> p \in posts)
    PROVE  ItemInv'
<1> DEFINE C == {}
           x == Item!Free
<1>1. call' = [d \in Calls |-> IF d \in C THEN x ELSE call[d]]
  BY DEF ItemInv, ItemTypes
<1>2. C \in SUBSET Calls /\ \A d \in C : FALSE
    OBVIOUS
<1>3. /\ flex \in [Items -> SUBSET (1..MaxRevs)] /\ revs \in 0..MaxRevs /\ taken \in 0..MaxTaken
      /\ crossed \in BOOLEAN
  BY DEF ItemInv, ItemTypes
<1>4. x \in ItemCall /\ ItemPath(x) /\ x.step # "deleted" /\ ItemWrites(x)
  BY ItemIdle
<1>5. \A i \in Items : memo'[i] = memo[i] \/
               /\ Small(memo'[i])
               /\ \A r \in memo'[i] : i \in DOMAIN row /\ ~r.deleted /\ <<i, r.rev>> \in committed
  BY DEF Small
<1> HIDE DEF C, x
<1> QED BY <1>1, <1>2, <1>3, <1>4, <1>5, ItemSteady

(* A call comes in.                                                        *)
LEMMA ItemTakes ==
    ASSUME ItemInv, NEW c \in Calls, Item!Take(c) PROVE ItemInv'
<1>1. /\ call[c].step = "idle" /\ taken < MaxTaken /\ taken' = taken + 1
      /\ crossed' = (crossed \/ Item!Busy)
      /\ UNCHANGED <<row, flex, memo, listed, index, posts, revs, committed, brand, faults>>
  BY DEF Item!Take, Item!Step
<1>2. taken' \in 0..MaxTaken /\ revs' \in 0..MaxRevs /\ faults' \in 0..MaxFaults
  BY SMTT(30), <1>1, BoundsAssumption DEF ItemInv, ItemTypes
<1>3. crossed \in BOOLEAN
  BY DEF ItemInv, ItemTypes
<1>4. crossed' \in BOOLEAN /\ (~crossed' => ~crossed /\ \A e \in Calls : call[e].step = "idle")
  BY <1>1, <1>3, Zenon DEF Item!Busy, Item!Step
<1> DEFINE Good(x) == call' = [call EXCEPT ![c] = x] /\ ItemPath(x) /\ ItemWrites(x) /\ x.step # "deleted"
<1>5. 0 \in ItemRevs
  BY BoundsAssumption DEF ItemRevs
<1>6. call' = call \/ \E x \in ItemCall : Good(x)
  <2>1. CASE call' = [call EXCEPT ![c] = [Item!Free EXCEPT !.op = "create", !.step = "names"]]
    <3> DEFINE x == [Item!Free EXCEPT !.op = "create", !.step = "names"]
    <3>1. /\ x \in ItemCall /\ x.op = "create" /\ x.step = "names" /\ x.item = "none"
          /\ x.copy = {} /\ x.writes = {}
      BY <1>5 DEF Item!Free, Item!Nowhere, ItemCall, ItemOps, ItemSteps
    <3> HIDE DEF x
    <3>2. ItemPath(x) /\ ItemWrites(x)
      BY <3>1 DEF ItemPath, ItemWrites, Small
    <3>3. call' = [call EXCEPT ![c] = x]
      BY <2>1 DEF x
    <3> QED BY <3>1, <3>2, <3>3
  <2>2. ASSUME NEW op \in {"get", "update", "delete"}, NEW i \in Items,
               LET came == [Item!Free EXCEPT !.op = op, !.item = i] IN
               IF memo[i] = {} THEN call' = [call EXCEPT ![c] = [came EXCEPT !.step = "find"]]
               ELSE IF op = "get" THEN call' = call
               ELSE call' = [call EXCEPT ![c] = [came EXCEPT !.step = Item!NextOf(op), !.copy = memo[i]]]
        PROVE  call' = call \/ \E x \in ItemCall : Good(x)
    <3> DEFINE came == [Item!Free EXCEPT !.op = op, !.item = i]
    <3>1. /\ came \in ItemCall /\ came.op = op /\ came.item = i /\ came.copy = {} /\ came.writes = {}
          /\ came.step = "idle"
      BY <1>5 DEF Item!Free, Item!Nowhere, ItemCall, ItemOps, ItemSteps
    <3>2. CASE memo[i] = {}
      <4>1. call' = [call EXCEPT ![c] = [came EXCEPT !.step = "find"]]
        BY <2>2, <3>2
      <4> HIDE DEF came
      <4> DEFINE x == [came EXCEPT !.step = "find"]
      <4>2. /\ x \in ItemCall /\ x.op = op /\ x.step = "find" /\ x.item = i
            /\ x.copy = {} /\ x.writes = {}
        BY <3>1 DEF ItemCall, ItemSteps
      <4> HIDE DEF x
      <4>3. ItemPath(x) /\ ItemWrites(x)
        BY <4>2 DEF ItemPath, ItemWrites, Small
      <4>4. call' = [call EXCEPT ![c] = x]
        BY <4>1 DEF x
      <4> QED BY <4>2, <4>3, <4>4
    <3>3. CASE memo[i] # {} /\ op # "get"
      <4>1. call' = [call EXCEPT ![c] = [came EXCEPT !.step = Item!NextOf(op), !.copy = memo[i]]]
        BY <2>2, <3>3
      <4>2. PICK s \in ItemSteps : s = Item!NextOf(op) /\ s = (IF op = "update" THEN "brand" ELSE "softDelete")
        BY <3>3 DEF Item!NextOf, ItemSteps
      <4>3. /\ memo[i] \subseteq Item!Copies /\ Small(memo[i])
            /\ \A r \in memo[i] : i \in DOMAIN row /\ ~r.deleted /\ <<i, r.rev>> \in committed
        BY DEF ItemInv, ItemTypes, ItemCopies
      <4> HIDE DEF came
      <4> DEFINE x == [came EXCEPT !.step = s, !.copy = memo[i]]
      <4>4. /\ x \in ItemCall /\ x.op = op /\ x.step = s /\ x.item = i
            /\ x.copy = memo[i] /\ x.writes = {}
        BY <3>1, <4>3 DEF ItemCall
      <4>5. call' = [call EXCEPT ![c] = x]
        BY <4>1, <4>2
      <4> HIDE DEF x
      <4>6. ItemPath(x) /\ ItemWrites(x)
        BY <3>3, <4>2, <4>3, <4>4 DEF ItemPath, ItemWrites
      <4> QED BY <3>3, <4>2, <4>4, <4>5, <4>6
    <3>4. CASE memo[i] # {} /\ op = "get"
      BY <2>2, <3>4
    <3> QED BY <3>2, <3>3, <3>4
  <2>3. ASSUME call' = [call EXCEPT ![c] = [Item!Free EXCEPT !.op = "list", !.step = "find"]]
        PROVE  \E x \in ItemCall : Good(x)
    <3> DEFINE x == [Item!Free EXCEPT !.op = "list", !.step = "find"]
    <3>1. /\ x \in ItemCall /\ x.op = "list" /\ x.step = "find" /\ x.item = "none"
          /\ x.copy = {} /\ x.writes = {}
      BY <1>5 DEF Item!Free, Item!Nowhere, ItemCall, ItemOps, ItemSteps
    <3> HIDE DEF x
    <3>2. ItemPath(x) /\ ItemWrites(x)
      BY <3>1 DEF ItemPath, ItemWrites, Small
    <3>3. call' = [call EXCEPT ![c] = x]
      BY <2>3 DEF x
    <3> QED BY <3>1, <3>2, <3>3
  <2> QED BY <2>1, <2>2, <2>3 DEF Item!Take
<1>7. CASE call' = call
  <2> DEFINE x == Item!Free
             C == {}
  <2>1. call' = [d \in Calls |-> IF d \in C THEN x ELSE call[d]] /\ C \in SUBSET Calls /\ \A d \in C : FALSE
    BY <1>7 DEF ItemInv, ItemTypes
  <2>2. /\ flex' \in [Items -> SUBSET (1..MaxRevs)] /\ memo' \in [Items -> SUBSET Item!Copies]
        /\ posts' \subseteq ItemPost /\ brand' \in BOOLEAN /\ row' \in [DOMAIN row -> Item!Copies]
    BY <1>1 DEF ItemInv, ItemTypes
  <2>3. x \in ItemCall /\ ItemPath(x) /\ x.step # "deleted" /\ ItemWrites(x)
    BY ItemIdle
  <2> HIDE DEF x, C
  <2> QED BY Zenon, <1>1, <1>2, <1>4, <2>1, <2>2, <2>3, ItemSteady
<1>8. CASE \E x \in ItemCall : Good(x)
  <2>1. PICK x \in ItemCall : Good(x)
    BY <1>8
  <2> QED BY Zenon, <1>1, <1>2, <1>4, <2>1, ItemCallGoes
<1> QED BY <1>6, <1>7, <1>8

(* A call reads, and caches what it read.                                  *)
LEMMA ItemReads ==
    ASSUME ItemInv, NEW c \in Calls,
           Item!Find(c) \/ Item!FindAllPaginated(c) \/ Item!ListCatalogItems(c) \/ Item!GetCatalogItem(c)
    PROVE  ItemInv'
<1> DEFINE x0 == call[c]
           i == x0.item
<1>1. /\ x0.step \in {"find", "found"} /\ UNCHANGED <<row, index, committed, flex, crossed>>
      /\ UNCHANGED <<revs, brand, taken, faults>>
  BY DEF Item!Find, Item!FindAllPaginated, Item!ListCatalogItems, Item!GetCatalogItem, Item!Step,
         Item!Rest
<1>2. /\ x0 \in ItemCall /\ ItemPath(x0) /\ row \in [DOMAIN row -> Item!Copies] /\ DOMAIN row \subseteq Items
      /\ flex \in [Items -> SUBSET (1..MaxRevs)] /\ memo \in [Items -> SUBSET Item!Copies]
      /\ posts \subseteq ItemPost /\ committed \subseteq ItemPairs
  BY DEF ItemInv, ItemTypes, ItemCopies
<1>3. /\ revs' \in 0..MaxRevs /\ taken' \in 0..MaxTaken /\ faults' \in 0..MaxFaults
      /\ brand' \in BOOLEAN /\ crossed' \in BOOLEAN
  BY <1>1 DEF ItemInv, ItemTypes
<1>4. ~crossed' /\ faults' = 0 => ~crossed /\ faults = 0 /\ \A e \in Calls : e # c => call[e].step = "idle"
  BY <1>1, ItemOnly
<1> DEFINE Good(x) == /\ call' = [call EXCEPT ![c] = x] /\ ItemPath(x)
                      /\ x.step \notin {"deleted", "flex", "commit"}
<1>5. Item!Leave(c) => Good(Item!Free)
  BY ItemIdle DEF Item!Leave
<1>6. ASSUME Item!Find(c) PROVE /\ \E x \in ItemCall : Good(x)
                                /\ UNCHANGED <<memo, listed, posts>>
  <2>1. UNCHANGED <<memo, listed, posts>> /\ x0.op # "list" /\ x0.step = "find"
    BY <1>6 DEF Item!Find, Item!Step
  <2>2. CASE i \notin Item!Live
    BY <2>1, <2>2, <1>5, <1>6, ItemIdle DEF Item!Find
  <2>3. CASE i \in Item!Live
    <3>1. call' = [call EXCEPT ![c].step = "found", ![c].copy = {row[i]}]
      BY <2>3, <1>6 DEF Item!Find
    <3>2. i \in DOMAIN row /\ ~row[i].deleted /\ row[i] \in Item!Copies /\ <<i, row[i].rev>> \in committed
      BY <2>3, <1>2 DEF Item!Live, Item!Stored, ItemInv, ItemCopies
    <3> DEFINE x == [x0 EXCEPT !.step = "found", !.copy = {row[i]}]
    <3>3. call' = [call EXCEPT ![c] = x]
      BY <3>1
    <3>4. /\ x \in ItemCall /\ x.op = x0.op /\ x.step = "found" /\ x.item = i /\ x.copy = {row[i]}
          /\ x.writes = x0.writes
      BY <1>2, <3>2 DEF ItemCall, ItemSteps
    <3> HIDE DEF x
    <3>5. i = x0.item
        OBVIOUS
    <3> HIDE DEF i, x0
    <3>6. ItemPath(x)
      BY <2>1, <3>2, <3>4, <3>5, <1>2 DEF ItemPath, Small
    <3> QED BY <2>1, <3>3, <3>4, <3>6
  <2> QED BY <2>2, <2>3
<1>7. ASSUME Item!FindAllPaginated(c) PROVE /\ \E x \in ItemCall : Good(x)
                                            /\ UNCHANGED <<memo, listed, posts>>
  <2>1. UNCHANGED <<memo, listed, posts>> /\ x0.op = "list" /\ x0.step = "find"
    BY <1>7 DEF Item!FindAllPaginated, Item!Step
  <2> DEFINE W == {<<j, row[j].rev>> : j \in Item!Live}
  <2>2. call' = [call EXCEPT ![c].step = "found", ![c].writes = W]
    BY <1>7 DEF Item!FindAllPaginated
  <2>3. W \subseteq committed /\ W \subseteq ItemPairs
    BY <1>2 DEF Item!Live, Item!Stored, ItemInv, ItemCopies
  <2> HIDE DEF W
  <2> DEFINE x == [x0 EXCEPT !.step = "found", !.writes = W]
  <2>4. call' = [call EXCEPT ![c] = x]
    BY <2>2
  <2>5. /\ x \in ItemCall /\ x.op = x0.op /\ x.step = "found" /\ x.item = i /\ x.copy = x0.copy
        /\ x.writes = W
    BY <1>2, <2>3 DEF ItemCall, ItemSteps
  <2> HIDE DEF x
  <2>6. i = x0.item
      OBVIOUS
  <2>7. \A r \in x0.copy : <<i, r.rev>> \in committed
    BY <2>1, <1>2 DEF ItemPath
  <2> HIDE DEF i, x0
  <2>8. ItemPath(x)
    BY <2>1, <2>3, <2>5, <2>6, <2>7, <1>2 DEF ItemPath
  <2> QED BY <2>1, <2>4, <2>5, <2>8
<1>8. ASSUME Item!ListCatalogItems(c)
      PROVE  /\ \E x \in ItemCall : Good(x)
             /\ UNCHANGED <<memo, posts>> /\ \A l \in listed' : l \in listed \/ l \subseteq committed
  <2>1. /\ UNCHANGED <<memo, posts>> /\ x0.op = "list" /\ listed' = {x0.writes} /\ Item!Leave(c)
    BY <1>8 DEF Item!ListCatalogItems, Item!Step
  <2>2. x0.writes \subseteq committed
    BY <2>1, <1>2 DEF ItemPath
  <2> QED BY <2>1, <2>2, <1>5, ItemIdle
<1>9. ASSUME Item!GetCatalogItem(c)
      PROVE  /\ \E x \in ItemCall : Good(x)
             /\ UNCHANGED listed
             /\ memo' \in [Items -> SUBSET Item!Copies]
             /\ \A j \in Items : memo'[j] = memo[j] \/
                    /\ Small(memo'[j])
                    /\ \A r \in memo'[j] : j \in DOMAIN row /\ ~r.deleted /\ <<j, r.rev>> \in committed
             /\ posts' \subseteq ItemPost
             /\ \A p \in ItemPost : IsIndexing(p) => (p \in posts' <=> p \in posts)
  <2>1. /\ posts' = posts \cup {Item!Posted("view", i, 0)} /\ memo' = [memo EXCEPT ![i] = x0.copy]
        /\ x0.step = "found" /\ x0.op # "list" /\ UNCHANGED listed
    BY <1>9 DEF Item!GetCatalogItem, Item!Step
  <2>2. /\ x0.op \in {"get", "update", "delete"} /\ i \in Items /\ i \in DOMAIN row /\ x0.copy # {}
        /\ Small(x0.copy) /\ x0.copy \subseteq Item!Copies
        /\ \A r \in x0.copy : ~r.deleted /\ <<i, r.rev>> \in committed
    BY <2>1, <1>2 DEF ItemPath, ItemCall
  <2>3. 0 \in ItemRevs
    BY BoundsAssumption DEF ItemRevs
  <2>4. Item!Posted("view", i, 0) \in ItemPost /\ ~IsIndexing(Item!Posted("view", i, 0))
    BY <2>2, <2>3 DEF Item!Posted, ItemPost, IsIndexing
  <2>5. \E x \in ItemCall : Good(x)
    <3>1. CASE x0.op = "get"
      BY <3>1, <1>5, <1>9, ItemIdle DEF Item!GetCatalogItem
    <3>2. CASE x0.op # "get"
      <4>1. PICK s \in ItemSteps : s = Item!NextOf(x0.op) /\ s = (IF x0.op = "update" THEN "brand" ELSE "softDelete")
        BY <3>2, <2>2 DEF Item!NextOf, ItemSteps
      <4>2. call' = [call EXCEPT ![c].step = s]
        BY <3>2, <4>1, <1>9 DEF Item!GetCatalogItem, Item!Goto
      <4> DEFINE x == [x0 EXCEPT !.step = s]
      <4>3. call' = [call EXCEPT ![c] = x]
        BY <4>2
      <4>4. /\ x \in ItemCall /\ x.op = x0.op /\ x.step = s /\ x.item = i /\ x.copy = x0.copy
            /\ x.writes = x0.writes
        BY <1>2 DEF ItemCall
      <4> HIDE DEF x
      <4>5. ItemPath(x)
        BY <2>2, <3>2, <4>1, <4>4, <1>2 DEF ItemPath
      <4> QED BY <4>1, <4>3, <4>4, <4>5
    <3> QED BY <3>1, <3>2
  <2>6. memo' \in [Items -> SUBSET Item!Copies]
    BY <2>1, <2>2, <1>2
  <2>7. \A j \in Items : memo'[j] = memo[j] \/ (j = i /\ memo'[j] = x0.copy)
    BY <2>1, <2>2, <1>2
  <2> HIDE DEF i, x0
  <2>8. \A j \in Items : memo'[j] = memo[j] \/
                  /\ Small(memo'[j])
                  /\ \A r \in memo'[j] : j \in DOMAIN row /\ ~r.deleted /\ <<j, r.rev>> \in committed
    BY <2>2, <2>7
  <2> QED BY <2>1, <2>4, <2>5, <2>6, <2>8, <1>2
<1>10. /\ \E x \in ItemCall : Good(x)
       /\ memo' \in [Items -> SUBSET Item!Copies]
       /\ \A j \in Items : memo'[j] = memo[j] \/
              /\ Small(memo'[j])
              /\ \A r \in memo'[j] : j \in DOMAIN row /\ ~r.deleted /\ <<j, r.rev>> \in committed
       /\ \A l \in listed' : l \in listed \/ l \subseteq committed
       /\ posts' \subseteq ItemPost
       /\ \A p \in ItemPost : IsIndexing(p) => (p \in posts' <=> p \in posts)
  BY <1>2, <1>6, <1>7, <1>8, <1>9
<1>11. PICK x \in ItemCall : Good(x)
  BY <1>10
<1>12. ItemWrites(x) /\ x0.step # "deleted"
  BY <1>1, <1>11 DEF ItemWrites
<1> QED BY <1>1, <1>2, <1>3, <1>4, <1>10, <1>11, <1>12, ItemCallMoves

(* A call checks, writes MongoDB's document, or fails.                     *)
LEMMA ItemChecks ==
    ASSUME ItemInv, NEW c \in Calls,
           Item!ValidateCatalogItem(c) \/ Item!CheckBrand(c) \/ Item!WriteFlexible(c) \/ Item!CallFails(c)
    PROVE  ItemInv'
<1> DEFINE x0 == call[c]
<1>1. /\ x0.step \notin {"idle", "deleted"} /\ UNCHANGED <<row, index, committed, memo, listed, posts>>
      /\ UNCHANGED <<revs, brand, taken, crossed>>
  BY DEF Item!ValidateCatalogItem, Item!CheckBrand, Item!WriteFlexible, Item!CallFails, Item!Step,
         Item!Rest
<1>2. /\ x0 \in ItemCall /\ ItemPath(x0) /\ memo \in [Items -> SUBSET Item!Copies]
      /\ posts \subseteq ItemPost /\ revs \in 0..MaxRevs /\ taken \in 0..MaxTaken
      /\ brand \in BOOLEAN /\ crossed \in BOOLEAN
  BY DEF ItemInv, ItemTypes, ItemCopies
<1>3. flex' \in [Items -> SUBSET (1..MaxRevs)]
  <2>1. flex \in [Items -> SUBSET (1..MaxRevs)]
    BY DEF ItemInv, ItemTypes
  <2>2. CASE flex' = flex
    BY <2>1, <2>2
  <2>3. CASE flex' # flex
    <3>1. flex' = [flex EXCEPT ![x0.item] = {x0.rev}] /\ x0.step = "flex"
      BY <2>3 DEF Item!ValidateCatalogItem, Item!CheckBrand, Item!WriteFlexible, Item!CallFails,
                  Item!Step
    <3>2. x0.rev \in 1..MaxRevs
      BY <3>1, <1>2 DEF ItemPath, ItemCall, ItemRevs
    <3> HIDE DEF x0
    <3> QED BY <2>1, <3>1, <3>2
  <2> QED BY <2>2, <2>3
<1>4. faults' \in 0..MaxFaults /\ (faults' = 0 => faults = 0)
  BY BoundsAssumption DEF ItemInv, ItemTypes, Item!ValidateCatalogItem, Item!CheckBrand,
         Item!WriteFlexible, Item!CallFails, Item!Rest
<1>5. ~crossed' /\ faults' = 0 =>
         ~crossed /\ faults = 0 /\ ItemWrites(x0) /\ \A e \in Calls : e # c => call[e].step = "idle"
  BY <1>1, <1>4, ItemOnly
<1> DEFINE Good(x) == /\ call' = [call EXCEPT ![c] = x] /\ ItemPath(x) /\ x.step # "deleted"
                      /\ (ItemWrites(x0) => ItemWrites(x))
<1>6. Item!Leave(c) => Good(Item!Free)
  BY ItemIdle DEF Item!Leave
<1>7. ASSUME ~Item!Leave(c) PROVE \E x \in ItemCall : Good(x)
  <2>1. PICK s \in {"brand", "save", "commit"} :
          /\ call' = [call EXCEPT ![c].step = s]
          /\ s = "commit" <=> x0.step = "flex"
          /\ x0.step \in {"names", "brand", "flex"}
          /\ s = "brand" => x0.step = "names"
    BY <1>7 DEF Item!ValidateCatalogItem, Item!CheckBrand, Item!WriteFlexible, Item!CallFails,
                Item!Step, Item!Goto
  <2> DEFINE x == [x0 EXCEPT !.step = s]
  <2>2. call' = [call EXCEPT ![c] = x]
    BY <2>1
  <2>3. /\ x \in ItemCall /\ x.op = x0.op /\ x.step = s /\ x.item = x0.item /\ x.copy = x0.copy
        /\ x.writes = x0.writes /\ x.rev = x0.rev
    BY <1>2 DEF ItemCall, ItemSteps
  <2> HIDE DEF x, x0
  <2>4. ItemPath(x)
    BY <2>1, <2>3, <1>2 DEF ItemPath
  <2>5. ItemWrites(x0) => ItemWrites(x)
    BY <2>1, <2>3 DEF ItemWrites
  <2> QED BY <2>1, <2>2, <2>3, <2>4, <2>5
<1>8. PICK x \in ItemCall : Good(x)
  BY <1>6, <1>7, ItemIdle
<1>9. ~crossed' /\ faults' = 0 =>
         ~crossed /\ faults = 0 /\ ItemWrites(x) /\ \A e \in Calls : e # c => call[e].step = "idle"
  BY <1>5, <1>8
<1>10. call' = [call EXCEPT ![c] = x] /\ ItemPath(x) /\ x.step # "deleted" /\ x0.step # "deleted"
  BY <1>1, <1>8
<1>11. \A l \in listed' : l \in listed \/ l \subseteq committed
  BY <1>1
<1> HIDE DEF Good
<1> QED BY <1>1, <1>2, <1>3, <1>4, <1>9, <1>10, <1>11, ItemCallMoves

(* A transaction starts to write.                                          *)
LEMMA ItemSaves ==
    ASSUME ItemInv, NEW c \in Calls, Item!SaveItem(c) PROVE ItemInv'
<1> DEFINE x0 == call[c]
<1>1. /\ x0.step = "save" /\ revs < MaxRevs /\ revs' = revs + 1
      /\ UNCHANGED <<row, flex, memo, listed, index, posts, committed, brand, crossed, taken, faults>>
  BY DEF Item!SaveItem, Item!Step
<1>2. /\ x0 \in ItemCall /\ ItemPath(x0) /\ x0.op \in {"create", "update"}
      /\ row \in [DOMAIN row -> Item!Copies]
  BY <1>1 DEF ItemInv, ItemTypes, ItemCopies, ItemPath
<1>3. /\ revs' \in 0..MaxRevs /\ taken' \in 0..MaxTaken /\ faults' \in 0..MaxFaults
      /\ revs + 1 \in ItemRevs /\ revs + 1 >= 1 /\ 0 \in ItemRevs
  BY <1>1, BoundsAssumption DEF ItemInv, ItemTypes, ItemRevs
<1>4. crossed' \in BOOLEAN
  BY <1>1 DEF ItemInv, ItemTypes
<1>5. ~crossed' /\ faults' = 0 => ~crossed /\ faults = 0 /\ \A e \in Calls : e # c => call[e].step = "idle"
  BY <1>1, ItemOnly
<1> DEFINE Good(x) == /\ call' = [call EXCEPT ![c] = x] /\ ItemPath(x) /\ x.step # "deleted"
                      /\ ItemWrites(x)
<1>6. ASSUME x0.op = "create" PROVE \E x \in ItemCall : Good(x)
  <2> DEFINE copy == [rev |-> 0, deleted |-> FALSE, views |-> 0, scored |-> 0]
  <2>1. PICK i \in Items :
          /\ i \notin DOMAIN row
          /\ call' = [call EXCEPT ![c].step = "flex", ![c].rev = revs + 1, ![c].item = i, ![c].copy = {copy}]
    BY <1>6 DEF Item!SaveItem, Item!Stored
  <2>2. copy \in Item!Copies /\ ~copy.deleted
    BY <1>3 DEF Item!Copies, ItemRevs
  <2> HIDE DEF copy
  <2> DEFINE x == [x0 EXCEPT !.step = "flex", !.rev = revs + 1, !.item = i, !.copy = {copy}]
  <2>3. call' = [call EXCEPT ![c] = x]
    BY <2>1
  <2>4. /\ x \in ItemCall /\ x.op = "create" /\ x.step = "flex" /\ x.item = i /\ x.copy = {copy}
        /\ x.writes = x0.writes /\ x.rev = revs + 1
    BY <1>2, <1>3, <1>6, <2>2 DEF ItemCall, ItemSteps
  <2> HIDE DEF x
  <2>5. ItemPath(x)
    BY <1>2, <1>3, <1>6, <2>2, <2>4 DEF ItemPath, Small
  <2>6. ItemWrites(x)
    BY <2>1, <2>4 DEF ItemWrites
  <2> QED BY <2>3, <2>4, <2>5, <2>6
<1>7. ASSUME x0.op = "update" PROVE \E x \in ItemCall : Good(x)
  <2> DEFINE i == x0.item
  <2>1. PICK copy \in x0.copy :
          call' = [call EXCEPT ![c].step = "flex", ![c].rev = revs + 1, ![c].writes = Item!Differs(i, copy)]
    BY <1>7 DEF Item!SaveItem
  <2>2. i \in Items /\ i \in DOMAIN row /\ ~copy.deleted /\ row[i] \in Item!Copies
    BY <1>1, <1>2, <1>7 DEF ItemPath
  <2> DEFINE W == Item!Differs(i, copy)
  <2>3. W \subseteq ItemColumns /\ ("deleted" \notin W => ~row[i].deleted)
    BY <2>2 DEF Item!Differs, ItemColumns
  <2> HIDE DEF W
  <2> DEFINE x == [x0 EXCEPT !.step = "flex", !.rev = revs + 1, !.writes = W]
  <2>4. call' = [call EXCEPT ![c] = x]
    BY <2>1 DEF W
  <2>5. /\ x \in ItemCall /\ x.op = "update" /\ x.step = "flex" /\ x.item = i /\ x.copy = x0.copy
        /\ x.writes = W /\ x.rev = revs + 1
    BY <1>2, <1>3, <1>7, <2>3 DEF ItemCall, ItemSteps
  <2> HIDE DEF x
  <2>6. x0.copy # {} /\ i = x0.item
    BY <2>1
  <2> HIDE DEF i, x0
  <2>7. ItemPath(x)
    BY <1>2, <1>3, <2>2, <2>3, <2>5, <2>6 DEF ItemPath
  <2>8. ItemWrites(x)
    BY <2>2, <2>3, <2>5 DEF ItemWrites, Item!Live, Item!Stored
  <2> QED BY <2>4, <2>5, <2>7, <2>8
<1>8. PICK x \in ItemCall : Good(x)
  BY <1>2, <1>6, <1>7
<1>9. call' = [call EXCEPT ![c] = x] /\ ItemPath(x) /\ x.step # "deleted" /\ ItemWrites(x) /\ x0.step # "deleted"
  BY <1>1, <1>8
<1> HIDE DEF Good
<1> QED BY <1>1, <1>3, <1>4, <1>5, <1>9, ItemCallGoes

(* What is written is a row, deleted only if it was and stays so.          *)
LEMMA ItemWritten ==
    ASSUME ItemInv, NEW c \in Calls, call[c].step = "commit"
    PROVE  /\ Item!Written(c) \in Item!Copies
           /\ Item!Written(c).rev = call[c].rev
           /\ Item!Written(c).deleted =
                IF call[c].item \in DOMAIN row /\ "deleted" \notin call[c].writes
                THEN row[call[c].item].deleted ELSE FALSE
<1> DEFINE x0 == call[c]
           i == x0.item
<1>1. /\ x0 \in ItemCall /\ x0.copy # {} /\ (\A r \in x0.copy : ~r.deleted) /\ i \in Items
      /\ row \in [DOMAIN row -> Item!Copies]
  BY DEF ItemInv, ItemTypes, ItemCopies, ItemPath
<1>2. PICK copy \in x0.copy : copy = CHOOSE r \in x0.copy : TRUE
  BY <1>1
<1>3. copy \in Item!Copies /\ ~copy.deleted /\ x0.rev \in ItemRevs
  BY <1>1, <1>2 DEF ItemCall
<1>4. copy.deleted = FALSE /\ copy.views \in Nat /\ copy.scored \in Nat
  BY <1>3 DEF Item!Copies
<1>5. i \in DOMAIN row => row[i].deleted \in BOOLEAN /\ row[i].views \in Nat /\ row[i].scored \in Nat
  BY <1>1 DEF Item!Copies
<1>6. Item!Written(c) =
        [rev |-> x0.rev,
         deleted |-> IF i \in DOMAIN row /\ "deleted" \notin x0.writes THEN row[i].deleted ELSE copy.deleted,
         views |-> IF i \in DOMAIN row /\ "views" \notin x0.writes THEN row[i].views ELSE copy.views,
         scored |-> IF i \in DOMAIN row /\ "scored" \notin x0.writes THEN row[i].scored ELSE copy.scored]
  BY <1>2 DEF Item!Written, Item!Stored
<1> HIDE DEF x0, i
<1> DEFINE deleted == IF i \in DOMAIN row /\ "deleted" \notin x0.writes THEN row[i].deleted ELSE copy.deleted
           views == IF i \in DOMAIN row /\ "views" \notin x0.writes THEN row[i].views ELSE copy.views
           scored == IF i \in DOMAIN row /\ "scored" \notin x0.writes THEN row[i].scored ELSE copy.scored
<1>7. deleted \in BOOLEAN /\ views \in Nat /\ scored \in Nat
  BY <1>4, <1>5
<1>8. deleted = IF i \in DOMAIN row /\ "deleted" \notin x0.writes THEN row[i].deleted ELSE FALSE
  BY <1>4
<1>9. Item!Written(c) = [rev |-> x0.rev, deleted |-> deleted, views |-> views, scored |-> scored]
  BY <1>6
<1> HIDE DEF deleted, views, scored
<1>10. Item!Written(c) \in Item!Copies /\ Item!Written(c).rev = x0.rev /\ Item!Written(c).deleted = deleted
  BY <1>3, <1>7, <1>9 DEF Item!Copies, ItemRevs
<1> QED BY <1>8, <1>10 DEF x0, i

(* A transaction commits, and posts the indexing of what it wrote.         *)
LEMMA ItemCommits ==
    ASSUME ItemInv, NEW c \in Calls, Item!Commit(c) PROVE ItemInv'
<1>1. PICK x0 \in ItemCall : x0 = call[c]
  BY DEF ItemInv, ItemTypes
<1>2. PICK i \in Items : i = x0.item
  BY <1>1 DEF ItemInv, ItemCopies, ItemPath, Item!Commit, Item!Step
<1>3. PICK w \in Item!Copies :
        /\ w = Item!Written(c) /\ w.rev = x0.rev
        /\ w.deleted = IF i \in DOMAIN row /\ "deleted" \notin x0.writes THEN row[i].deleted ELSE FALSE
  BY <1>1, <1>2, ItemWritten DEF Item!Commit, Item!Step
<1> DEFINE new == Item!Posted("index", i, x0.rev)
<1>4. /\ x0.step = "commit" /\ listed' = {} /\ call' = [call EXCEPT ![c] = Item!Free]
      /\ row' = [j \in DOMAIN row \cup {i} |-> IF j = i THEN w ELSE row[j]]
      /\ committed' = committed \cup {<<i, x0.rev>>}
      /\ posts' = posts \cup {new} /\ crossed' = Item!Crossing(i)
      /\ memo' = IF x0.op = "update" THEN [memo EXCEPT ![i] = {}] ELSE memo
      /\ UNCHANGED <<flex, index, revs, brand, taken, faults>>
  BY <1>1, <1>2, <1>3 DEF Item!Commit, Item!Step, Item!Leave, Item!Stored
<1>5. /\ x0.rev \in ItemRevs /\ x0.rev >= 1 /\ x0.op \in {"create", "update"}
      /\ (x0.op = "create" => x0.writes = {})
  BY <1>1, <1>4 DEF ItemCall, ItemInv, ItemCopies, ItemPath
<1>6. /\ call \in [Calls -> ItemCall] /\ memo \in [Items -> SUBSET Item!Copies]
      /\ row \in [DOMAIN row -> Item!Copies] /\ DOMAIN row \subseteq Items /\ posts \subseteq ItemPost
      /\ committed \subseteq ItemPairs /\ crossed \in BOOLEAN
  BY DEF ItemInv, ItemTypes
<1>7. call'[c] = Item!Free /\ \A d \in Calls : d # c => call'[d] = call[d]
  BY <1>4, <1>6
<1>8. DOMAIN row' = DOMAIN row \cup {i} /\ row'[i] = w /\ \A j \in DOMAIN row : j # i => row'[j] = row[j]
  BY <1>4
<1>9. \A j \in Items : memo'[j] = memo[j] \/ memo'[j] = {}
  BY <1>4, <1>6
<1>10. new \in ItemPost /\ IsIndexing(new) /\ new.kind = "index" /\ new.item = i /\ new.rev = x0.rev
  BY <1>5 DEF Item!Posted, ItemPost, IsIndexing
<1> HIDE DEF new
<1>11. ~crossed' => ~crossed /\ \A p \in posts : IsIndexing(p) => p.item # i
  BY <1>4 DEF Item!Crossing, Item!Indexing, IsIndexing
<1>12. ItemTypes'
  <2>1. call' \in [Calls -> ItemCall]
    BY <1>4, <1>6, ItemIdle
  <2>2. memo' \in [Items -> SUBSET Item!Copies]
    BY <1>4, <1>6
  <2>3. DOMAIN row' \subseteq Items /\ row' \in [DOMAIN row' -> Item!Copies]
    BY <1>4, <1>6, <1>8
  <2>4. committed' \subseteq ItemPairs
    BY <1>4, <1>5, <1>6 DEF ItemPairs
  <2>5. crossed' \in BOOLEAN
    <3>1. crossed' = (crossed \/ Item!Indexing(i) # {})
      BY <1>4 DEF Item!Crossing
    <3> QED BY <3>1, <1>6, Zenon
  <2> QED BY <2>1, <2>2, <2>3, <2>4, <2>5, <1>4, <1>6, <1>10 DEF ItemInv, ItemTypes
<1>13. ItemCopies'
  <2>1. \A j \in DOMAIN row' : row'[j].rev >= 1 /\ <<j, row'[j].rev>> \in committed'
    BY <1>3, <1>4, <1>5, <1>8 DEF ItemInv, ItemCopies
  <2>2. \A j \in Items : \A r \in memo'[j] :
          j \in DOMAIN row' /\ ~r.deleted /\ <<j, r.rev>> \in committed'
    BY <1>4, <1>8, <1>9 DEF ItemInv, ItemCopies
  <2>3. \A j \in Items : Small(memo'[j])
    BY <1>9 DEF ItemInv, ItemCopies, Small
  <2>4. \A j \in Items : \A n \in index'[j] : <<j, n>> \in committed'
    BY <1>4 DEF ItemInv, ItemCopies
  <2>5. \A p \in posts' : p.kind = "index" => p.rev >= 1 /\ <<p.item, p.rev>> \in committed'
    BY <1>4, <1>5, <1>10 DEF ItemInv, ItemCopies
  <2>6. \A d \in Calls : ItemPath(call[d])'
    <3> TAKE d \in Calls
    <3>1. CASE d = c
      BY <3>1, <1>7, ItemIdle DEF Item!Free, Item!Nowhere, ItemPath
    <3>2. CASE d # c
      BY <3>2, <1>4, <1>7, <1>8 DEF ItemInv, ItemCopies, ItemPath
    <3> QED BY <3>1, <3>2
  <2> QED BY <2>1, <2>2, <2>3, <2>4, <2>5, <2>6, <1>4 DEF ItemCopies
<1>14. ItemAlone'
  <2> SUFFICES ASSUME ~crossed', faults' = 0 PROVE ItemAlone'
    BY DEF ItemAlone
  <2>1. /\ ~crossed /\ faults = 0 /\ ItemWrites(x0) /\ \A d \in Calls : d # c => call[d].step = "idle"
        /\ \A p \in posts : IsIndexing(p) => p.item # i
    BY <1>1, <1>4, <1>11, ItemOnly
  <2>2. \A d \in Calls : call'[d].step = "idle" /\ call[d].step # "deleted"
    BY <2>1, <1>1, <1>4, <1>7, ItemIdle
  <2>3. ~w.deleted
    BY <2>1, <1>2, <1>3, <1>4, <1>5 DEF ItemWrites, Item!Live, Item!Stored
  <2>4. Desired(i)' = {x0.rev}
    <3>1. i \in Item!Live'
      BY <2>3, <1>8 DEF Item!Live, Item!Stored
    <3> QED BY <3>1, <1>3, <1>8 DEF Desired
  <2>5. \A j \in Items : j # i => Desired(j)' = Desired(j)
    BY <1>8 DEF Desired, Item!Live, Item!Stored
  <2>6. \A j : ~Deleting(j) /\ ~Deleting(j)'
    BY <2>2 DEF Deleting
  <2>7. \A p, q \in posts' : IsIndexing(p) /\ IsIndexing(q) /\ p.item = q.item => p = q
    BY <2>1, <1>4, <1>10 DEF ItemInv, ItemAlone
  <2>8. \A p \in posts' : IsIndexing(p) => Desired(p.item)' = IF p.kind = "index" THEN {p.rev} ELSE {}
    <3> SUFFICES ASSUME NEW p \in posts', IsIndexing(p)
                 PROVE  Desired(p.item)' = IF p.kind = "index" THEN {p.rev} ELSE {}
        OBVIOUS
    <3>1. CASE p = new
      BY <3>1, <2>4, <1>10
    <3>2. CASE p # new
      <4>1. p \in posts /\ p.item \in Items /\ p.item # i
        BY <3>2, <2>1, <1>4, <1>6 DEF ItemPost
      <4> QED BY <4>1, <2>1, <2>5, <2>6 DEF ItemInv, ItemAlone
    <3> QED BY <3>1, <3>2
  <2>9. \A j \in Items : index'[j] = Desired(j)' \/ \E p \in posts' : IsIndexing(p) /\ p.item = j
    <3> SUFFICES ASSUME NEW j \in Items
                 PROVE  index'[j] = Desired(j)' \/ \E p \in posts' : IsIndexing(p) /\ p.item = j
        OBVIOUS
    <3>1. CASE j = i
      BY <3>1, <1>4, <1>10
    <3>2. CASE j # i
      BY <3>2, <2>1, <2>5, <2>6, <1>4 DEF ItemInv, ItemAlone
    <3> QED BY <3>1, <3>2
  <2>10. \A d \in Calls : ItemWrites(call[d])'
    BY <2>2 DEF ItemWrites
  <2> QED BY <2>2, <2>7, <2>8, <2>9, <2>10 DEF ItemAlone, IsIndexing
<1> QED BY <1>12, <1>13, <1>14 DEF ItemInv

(* A row is deleted softly; its copies and its document are still there.   *)
LEMMA ItemSoftDeletes ==
    ASSUME ItemInv, NEW c \in Calls, Item!SoftDelete(c) PROVE ItemInv'
<1>1. PICK x0 \in ItemCall : x0 = call[c]
  BY DEF ItemInv, ItemTypes
<1>2. PICK i \in Items : i = x0.item /\ i \in DOMAIN row
  BY <1>1 DEF ItemInv, ItemCopies, ItemPath, Item!SoftDelete, Item!Step
<1>3. /\ row \in [DOMAIN row -> Item!Copies] /\ call \in [Calls -> ItemCall] /\ posts \subseteq ItemPost
      /\ ItemPath(x0)
  BY <1>1 DEF ItemInv, ItemTypes, ItemCopies
<1> DEFINE x == [x0 EXCEPT !.step = "deleted"]
           w == [row[i] EXCEPT !.deleted = TRUE]
<1>4. /\ x0.step = "softDelete" /\ call' = [call EXCEPT ![c] = x] /\ row' = [row EXCEPT ![i] = w]
      /\ UNCHANGED <<flex, memo, listed, index, posts, crossed, revs, committed, brand, taken, faults>>
  BY <1>1, <1>2 DEF Item!SoftDelete, Item!Step, Item!Goto, Item!Rest
<1>5. /\ x \in ItemCall /\ x.op = x0.op /\ x.step = "deleted" /\ x.item = i /\ x.copy = x0.copy
      /\ x.writes = x0.writes /\ x.rev = x0.rev
  BY <1>2 DEF ItemCall, ItemSteps
<1>6. w \in Item!Copies /\ w.deleted /\ w.rev = row[i].rev
  BY <1>2, <1>3 DEF Item!Copies
<1> HIDE DEF x, w
<1>7. call'[c] = x /\ \A d \in Calls : d # c => call'[d] = call[d]
  BY <1>3, <1>4
<1>8. /\ DOMAIN row' = DOMAIN row /\ row'[i] = w /\ \A j \in DOMAIN row : j # i => row'[j] = row[j]
      /\ row' \in [DOMAIN row -> Item!Copies]
  BY <1>2, <1>3, <1>4, <1>6
<1>9. ItemTypes'
  <2>1. call' \in [Calls -> ItemCall]
    BY <1>3, <1>4, <1>5
  <2> QED BY <2>1, <1>4, <1>8 DEF ItemInv, ItemTypes
<1>10. ItemCopies'
  <2>1. \A d \in Calls : ItemPath(call[d])'
    <3> TAKE d \in Calls
    <3>1. CASE d = c
      BY <3>1, <1>2, <1>3, <1>4, <1>5, <1>7, <1>8 DEF ItemPath
    <3>2. CASE d # c
      BY <3>2, <1>4, <1>7, <1>8 DEF ItemInv, ItemCopies, ItemPath
    <3> QED BY <3>1, <3>2
  <2>2. \A j \in DOMAIN row' : row'[j].rev >= 1 /\ <<j, row'[j].rev>> \in committed'
    BY <1>4, <1>6, <1>8 DEF ItemInv, ItemCopies
  <2> QED BY <2>1, <2>2, <1>4, <1>8 DEF ItemInv, ItemCopies
<1>11. ItemAlone'
  <2> SUFFICES ASSUME ~crossed', faults' = 0 PROVE ItemAlone'
    BY DEF ItemAlone
  <2>1. ~crossed /\ faults = 0 /\ \A d \in Calls : d # c => call[d].step = "idle"
    BY <1>1, <1>4, ItemOnly
  <2>2. \A d \in Calls : d # c => call'[d].step = "idle"
    BY <2>1, <1>7
  <2>3. i \notin Item!Live'
    BY <1>6, <1>8 DEF Item!Live, Item!Stored
  <2>4. \A j \in Items : j # i => Desired(j)' = Desired(j)
    BY <1>8 DEF Desired, Item!Live, Item!Stored
  <2>5. Deleting(i)' /\ \A j : ~Deleting(j)
    BY <2>1, <1>1, <1>4, <1>5, <1>7 DEF Deleting
  <2>6. \A p \in posts' : IsIndexing(p) /\ ~Deleting(p.item)' =>
          Desired(p.item)' = IF p.kind = "index" THEN {p.rev} ELSE {}
    <3> SUFFICES ASSUME NEW p \in posts', IsIndexing(p), ~Deleting(p.item)'
                 PROVE  Desired(p.item)' = IF p.kind = "index" THEN {p.rev} ELSE {}
        OBVIOUS
    <3>1. p \in posts /\ p.item \in Items
      BY <1>3, <1>4 DEF ItemPost
    <3>2. p.item # i
      BY <2>5 DEF Deleting
    <3> QED BY <3>1, <3>2, <2>1, <2>4, <2>5 DEF ItemInv, ItemAlone
  <2>7. \A j \in Items :
          Deleting(j)' \/ index'[j] = Desired(j)' \/ \E p \in posts' : IsIndexing(p) /\ p.item = j
    <3> TAKE j \in Items
    <3>1. CASE j = i
      BY <3>1, <2>5 DEF Deleting
    <3>2. CASE j # i
      BY <3>2, <2>1, <2>4, <2>5, <1>4 DEF ItemInv, ItemAlone
    <3> QED BY <3>1, <3>2
  <2>8. \A d \in Calls : ItemWrites(call[d])'
    BY <2>2, <1>5, <1>7 DEF ItemWrites
  <2>9. \A d \in Calls : call'[d].step = "deleted" => call'[d].item \notin Item!Live'
    BY <2>2, <2>3, <1>5, <1>7
  <2>10. \A p, q \in posts' : IsIndexing(p) /\ IsIndexing(q) /\ p.item = q.item => p = q
    BY <2>1, <1>4 DEF ItemInv, ItemAlone
  <2> QED BY <2>2, <2>6, <2>7, <2>8, <2>9, <2>10 DEF ItemAlone, IsIndexing
<1> QED BY <1>9, <1>10, <1>11 DEF ItemInv

(* What follows a deletion: the caches, and the post to the index.         *)
LEMMA ItemDeletes ==
    ASSUME ItemInv, NEW c \in Calls, Item!DeleteCatalogItem(c) PROVE ItemInv'
<1>1. PICK x0 \in ItemCall : x0 = call[c]
  BY DEF ItemInv, ItemTypes
<1>2. PICK i \in Items : i = x0.item /\ i \in DOMAIN row
  BY <1>1 DEF ItemInv, ItemCopies, ItemPath, Item!DeleteCatalogItem, Item!Step
<1> DEFINE new == Item!Posted("unindex", i, 0)
<1>3. /\ x0.step = "deleted" /\ listed' = {} /\ call' = [call EXCEPT ![c] = Item!Free]
      /\ posts' = posts \cup {new} /\ crossed' = Item!Crossing(i)
      /\ memo' = [memo EXCEPT ![i] = {}]
      /\ UNCHANGED <<row, committed, flex, index, revs, brand, taken, faults>>
  BY <1>1, <1>2 DEF Item!DeleteCatalogItem, Item!Step, Item!Leave, Item!Rest
<1>4. /\ call \in [Calls -> ItemCall] /\ memo \in [Items -> SUBSET Item!Copies]
      /\ posts \subseteq ItemPost /\ crossed \in BOOLEAN
  BY DEF ItemInv, ItemTypes
<1>5. call'[c] = Item!Free /\ \A d \in Calls : d # c => call'[d] = call[d]
  BY <1>3, <1>4
<1>6. \A j \in Items : memo'[j] = memo[j] \/ memo'[j] = {}
  BY <1>3, <1>4
<1>7. new \in ItemPost /\ IsIndexing(new) /\ new.kind = "unindex" /\ new.item = i
  <2>1. 0 \in ItemRevs
    BY BoundsAssumption DEF ItemRevs
  <2> QED BY <2>1 DEF Item!Posted, ItemPost, IsIndexing
<1> HIDE DEF new
<1>8. ~crossed' => ~crossed /\ \A p \in posts : IsIndexing(p) => p.item # i
  BY <1>3 DEF Item!Crossing, Item!Indexing, IsIndexing
<1>9. ItemTypes'
  <2>1. call' \in [Calls -> ItemCall]
    BY <1>3, <1>4, ItemIdle
  <2>2. memo' \in [Items -> SUBSET Item!Copies]
    BY <1>3, <1>4
  <2>3. crossed' \in BOOLEAN
    <3>1. crossed' = (crossed \/ Item!Indexing(i) # {})
      BY <1>3 DEF Item!Crossing
    <3> QED BY <3>1, <1>4, Zenon
  <2> QED BY <2>1, <2>2, <2>3, <1>3, <1>4, <1>7 DEF ItemInv, ItemTypes
<1>10. ItemCopies'
  <2>1. \A d \in Calls : ItemPath(call[d])'
    <3> TAKE d \in Calls
    <3>1. CASE d = c
      BY <3>1, <1>5, ItemIdle DEF Item!Free, Item!Nowhere, ItemPath
    <3>2. CASE d # c
      BY <3>2, <1>3, <1>5 DEF ItemInv, ItemCopies, ItemPath
    <3> QED BY <3>1, <3>2
  <2>2. \A p \in posts' : p.kind = "index" => p.rev >= 1 /\ <<p.item, p.rev>> \in committed'
    BY <1>3, <1>7 DEF ItemInv, ItemCopies
  <2>3. \A j \in Items : Small(memo'[j])
    BY <1>6 DEF ItemInv, ItemCopies, Small
  <2> QED BY <2>1, <2>2, <2>3, <1>3, <1>6 DEF ItemInv, ItemCopies
<1>11. ItemAlone'
  <2> SUFFICES ASSUME ~crossed', faults' = 0 PROVE ItemAlone'
    BY DEF ItemAlone
  <2>1. /\ ~crossed /\ faults = 0 /\ \A d \in Calls : d # c => call[d].step = "idle"
        /\ \A p \in posts : IsIndexing(p) => p.item # i
    BY <1>1, <1>3, <1>8, ItemOnly
  <2>2. \A d \in Calls : call'[d].step = "idle"
    BY <2>1, <1>5, ItemIdle
  <2>3. i \notin Item!Live /\ Item!Live' = Item!Live
    BY <2>1, <1>1, <1>2, <1>3 DEF ItemInv, ItemAlone, Item!Live, Item!Stored
  <2>4. Desired(i) = {} /\ \A j \in Items : Desired(j)' = Desired(j)
    BY <2>3, <1>3 DEF Desired
  <2>5. \A j : ~Deleting(j)' /\ (j # i => ~Deleting(j))
    BY <2>1, <2>2, <1>1, <1>2 DEF Deleting
  <2>6. \A p \in posts' : IsIndexing(p) => Desired(p.item)' = IF p.kind = "index" THEN {p.rev} ELSE {}
    <3> SUFFICES ASSUME NEW p \in posts', IsIndexing(p)
                 PROVE  Desired(p.item)' = IF p.kind = "index" THEN {p.rev} ELSE {}
        OBVIOUS
    <3>1. CASE p = new
      BY <3>1, <2>4, <1>7
    <3>2. CASE p # new
      <4>1. p \in posts /\ p.item \in Items /\ p.item # i
        BY <3>2, <2>1, <1>3, <1>4 DEF ItemPost
      <4> QED BY <4>1, <2>1, <2>4, <2>5 DEF ItemInv, ItemAlone
    <3> QED BY <3>1, <3>2
  <2>7. \A j \in Items : index'[j] = Desired(j)' \/ \E p \in posts' : IsIndexing(p) /\ p.item = j
    <3> TAKE j \in Items
    <3>1. CASE j = i
      BY <3>1, <1>3, <1>7
    <3>2. CASE j # i
      BY <3>2, <2>1, <2>4, <2>5, <1>3 DEF ItemInv, ItemAlone
    <3> QED BY <3>1, <3>2
  <2>8. \A p, q \in posts' : IsIndexing(p) /\ IsIndexing(q) /\ p.item = q.item => p = q
    BY <2>1, <1>3, <1>7 DEF ItemInv, ItemAlone
  <2>9. \A d \in Calls : ItemWrites(call[d])'
    BY <2>2 DEF ItemWrites
  <2> QED BY <2>2, <2>6, <2>7, <2>8, <2>9 DEF ItemAlone, IsIndexing
<1> QED BY <1>9, <1>10, <1>11 DEF ItemInv

(* The index is told.                                                      *)
LEMMA ItemIndexed ==
    ASSUME ItemInv, Item!IndexDocument PROVE ItemInv'
<1>1. PICK p \in posts :
        /\ IsIndexing(p)
        /\ index' = [index EXCEPT ![p.item] = IF p.kind = "index" THEN {p.rev} ELSE {}]
        /\ posts' = posts \ {p}
  BY DEF Item!IndexDocument, IsIndexing
<1>2. /\ UNCHANGED <<row, flex, memo, listed, call, crossed>>
      /\ UNCHANGED <<revs, committed, brand, taken, faults>>
  BY DEF Item!IndexDocument, Item!Rest
<1>3. PICK i \in Items : i = p.item
  BY <1>1 DEF ItemInv, ItemTypes, ItemPost
<1>4. PICK docs0 \in SUBSET (1..MaxRevs) : docs0 = IF p.kind = "index" THEN {p.rev} ELSE {}
  <2>1. p \in ItemPost /\ (p.kind = "index" => p.rev >= 1)
    BY DEF ItemInv, ItemTypes, ItemCopies
  <2>2. p.kind = "index" => p.rev \in 1..MaxRevs
    BY <2>1 DEF ItemPost, ItemRevs
  <2> QED BY <2>2
<1>5. index' = [index EXCEPT ![i] = docs0] /\ index \in [Items -> SUBSET (1..MaxRevs)]
  BY <1>1, <1>3, <1>4 DEF ItemInv, ItemTypes
<1>6. index'[i] = docs0 /\ \A j \in Items : j # i => index'[j] = index[j]
  BY <1>5
<1>7. ItemTypes'
  <2>1. index' \in [Items -> SUBSET (1..MaxRevs)]
    BY <1>5
  <2> QED BY <2>1, <1>1, <1>2 DEF ItemInv, ItemTypes
<1>8. ItemCopies'
  <2>1. \A j \in Items : \A n \in index'[j] : <<j, n>> \in committed'
    BY <1>2, <1>3, <1>4, <1>6 DEF ItemInv, ItemCopies
  <2>2. \A d \in Calls : ItemPath(call[d])'
    BY <1>2 DEF ItemInv, ItemCopies, ItemPath
  <2> QED BY <2>1, <2>2, <1>1, <1>2 DEF ItemInv, ItemCopies
<1>9. ItemAlone'
  <2> SUFFICES ASSUME ~crossed', faults' = 0 PROVE ItemAlone'
    BY DEF ItemAlone
  <2>1. ~crossed /\ faults = 0
    BY <1>2
  <2>2. /\ Item!Live' = Item!Live /\ \A j : Desired(j)' = Desired(j)
        /\ \A j : Deleting(j)' = Deleting(j)
    BY <1>2 DEF Desired, Deleting, Item!Live, Item!Stored
  <2>3. \A q \in posts : q # p /\ IsIndexing(q) => q.item # i
    BY <2>1, <1>1, <1>3 DEF ItemInv, ItemAlone
  <2>4. \A j \in Items :
          Deleting(j)' \/ index'[j] = Desired(j)' \/ \E q \in posts' : IsIndexing(q) /\ q.item = j
    <3> SUFFICES ASSUME NEW j \in Items, ~Deleting(j)
                 PROVE  index'[j] = Desired(j) \/ \E q \in posts' : IsIndexing(q) /\ q.item = j
      BY <2>2
    <3>1. CASE j = i
      BY <3>1, <2>1, <1>1, <1>3, <1>4, <1>6 DEF ItemInv, ItemAlone
    <3>2. CASE j # i
      BY <3>2, <2>1, <1>1, <1>3, <1>6 DEF ItemInv, ItemAlone
    <3> QED BY <3>1, <3>2
  <2>5. \A q \in posts' : IsIndexing(q) /\ ~Deleting(q.item)' =>
          Desired(q.item)' = IF q.kind = "index" THEN {q.rev} ELSE {}
    BY <2>1, <2>2, <1>1 DEF ItemInv, ItemAlone
  <2>6. \A d \in Calls : ItemWrites(call[d])'
    BY <2>1, <2>2, <1>2 DEF ItemInv, ItemAlone, ItemWrites
  <2>7. \A q, r \in posts' : IsIndexing(q) /\ IsIndexing(r) /\ q.item = r.item => q = r
    BY <2>1, <1>1 DEF ItemInv, ItemAlone
  <2>8. /\ \A c, d \in Calls : c # d => call'[c].step = "idle" \/ call'[d].step = "idle"
        /\ \A c \in Calls : call'[c].step = "deleted" => call'[c].item \notin Item!Live'
    BY <2>1, <2>2, <1>2 DEF ItemInv, ItemAlone
  <2> QED BY <2>4, <2>5, <2>6, <2>7, <2>8 DEF ItemAlone, IsIndexing
<1> QED BY <1>7, <1>8, <1>9 DEF ItemInv

(* Views are counted, posts rejected, entries expire, the brand leaves.    *)
LEMMA ItemBackground ==
    ASSUME ItemInv,
           \/ Item!IncrementViewCount \/ Item!UpdatePopularityScore \/ Item!PostFails
           \/ Item!Expire \/ Item!DeactivateBrand
    PROVE  ItemInv'
<1>1. /\ row \in [DOMAIN row -> Item!Copies] /\ DOMAIN row \subseteq Items
      /\ memo \in [Items -> SUBSET Item!Copies] /\ posts \subseteq ItemPost
      /\ faults \in 0..MaxFaults /\ brand \in BOOLEAN
      /\ \A i \in DOMAIN row : row[i] \in Item!Copies
  BY DEF ItemInv, ItemTypes
<1> DEFINE Counted ==
        /\ DOMAIN row' = DOMAIN row /\ row' \in [DOMAIN row -> Item!Copies]
        /\ \A i \in DOMAIN row : row'[i].rev = row[i].rev /\ row'[i].deleted = row[i].deleted
           Told ==
        /\ posts' \subseteq ItemPost
        /\ \A p \in ItemPost : IsIndexing(p) => (p \in posts' <=> p \in posts)
<1>2. UNCHANGED row => Counted
  BY <1>1
<1>3. UNCHANGED posts => Told
  BY <1>1
<1>4. ASSUME NEW i, NEW n \in Nat, NEW f \in {"views", "scored"},
             row' = IF f = "views" THEN [row EXCEPT ![i].views = n] ELSE [row EXCEPT ![i].scored = n]
      PROVE  Counted
  <2> DEFINE w == IF f = "views" THEN [row[i] EXCEPT !.views = n] ELSE [row[i] EXCEPT !.scored = n]
  <2>1. row' = [row EXCEPT ![i] = w]
    <3>1. CASE f = "views"
      BY <3>1, <1>4
    <3>2. CASE f # "views"
      BY <3>2, <1>4
    <3> QED BY <3>1, <3>2
  <2>2. i \in DOMAIN row => w \in Item!Copies /\ w.rev = row[i].rev /\ w.deleted = row[i].deleted
    BY <1>1 DEF Item!Copies
  <2> HIDE DEF w
  <2> QED BY <1>1, <2>1, <2>2
<1>5. CASE Item!IncrementViewCount
  <2>1. PICK p \in posts :
          /\ p.kind = "view" /\ row' = [row EXCEPT ![p.item].views = @ + 1]
          /\ posts' = (posts \ {p}) \cup {Item!Posted("score", p.item, 0)}
    BY <1>5 DEF Item!IncrementViewCount
  <2>2. Told
    <3>1. 0 \in ItemRevs /\ p.item \in Items
      BY <1>1, BoundsAssumption DEF ItemRevs, ItemPost
    <3>2. /\ Item!Posted("score", p.item, 0) \in ItemPost
          /\ ~IsIndexing(Item!Posted("score", p.item, 0)) /\ ~IsIndexing(p)
      BY <2>1, <3>1 DEF Item!Posted, ItemPost, IsIndexing
    <3> QED BY <2>1, <3>2, <1>1
  <2>3. Counted
    <3>1. CASE p.item \in DOMAIN row
      <4>1. row[p.item].views + 1 \in Nat
        BY <3>1, <1>1 DEF Item!Copies
      <4>2. row' = [row EXCEPT ![p.item].views = row[p.item].views + 1]
        BY <2>1
      <4> DEFINE n == row[p.item].views + 1
      <4>3. PICK m \in Nat : row' = [row EXCEPT ![p.item].views = m]
        BY <4>1, <4>2
      <4>4. PICK f \in {"views", "scored"} : f = "views"
          OBVIOUS
      <4>5. row' = IF f = "views" THEN [row EXCEPT ![p.item].views = m] ELSE [row EXCEPT ![p.item].scored = m]
        BY <4>3, <4>4
      <4> HIDE DEF Counted
      <4> QED BY <4>5, <1>4
    <3>2. CASE p.item \notin DOMAIN row
      <4>1. row' = row
        BY <2>1, <3>2, <1>1
      <4> QED BY <4>1, <1>2
    <3> QED BY <3>1, <3>2
  <2>4. UNCHANGED <<flex, memo, listed, index, call, crossed, revs, committed, brand, taken, faults>>
    BY <1>5 DEF Item!IncrementViewCount, Item!Rest
  <2> QED BY <2>2, <2>3, <2>4, <1>1, ItemCountersMove
<1>6. CASE Item!UpdatePopularityScore
  <2>1. PICK p \in posts :
          /\ p.kind = "score" /\ row' = [row EXCEPT ![p.item].scored = row[p.item].views]
          /\ posts' = posts \ {p}
    BY <1>6 DEF Item!UpdatePopularityScore
  <2>2. Told
    BY <2>1, <1>1 DEF IsIndexing
  <2>3. Counted
    <3>1. CASE p.item \in DOMAIN row
      <4>1. row[p.item].views \in Nat
        BY <3>1, <1>1 DEF Item!Copies
      <4>2. PICK m \in Nat : row' = [row EXCEPT ![p.item].scored = m]
        BY <2>1, <4>1
      <4>3. PICK f \in {"views", "scored"} : f = "scored"
          OBVIOUS
      <4>4. row' = IF f = "views" THEN [row EXCEPT ![p.item].views = m] ELSE [row EXCEPT ![p.item].scored = m]
        BY <4>2, <4>3
      <4> HIDE DEF Counted
      <4> QED BY <4>4, <1>4
    <3>2. CASE p.item \notin DOMAIN row
      <4>1. row' = row
        BY <2>1, <3>2, <1>1
      <4> QED BY <4>1, <1>2
    <3> QED BY <3>1, <3>2
  <2>4. UNCHANGED <<flex, memo, listed, index, call, crossed, revs, committed, brand, taken, faults>>
    BY <1>6 DEF Item!UpdatePopularityScore, Item!Rest
  <2> QED BY <2>2, <2>3, <2>4, <1>1, ItemCountersMove
<1>7. CASE Item!Expire
  <2>1. UNCHANGED <<row, flex, index, call, posts, crossed, revs, committed, brand, taken, faults>>
    BY <1>7 DEF Item!Expire, Item!Rest
  <2>2. /\ listed' \subseteq listed /\ memo' \in [Items -> SUBSET Item!Copies]
        /\ \A i \in Items : memo'[i] = memo[i] \/ memo'[i] = {}
    BY <1>1, <1>7 DEF Item!Expire
  <2> QED BY <2>1, <2>2, <1>1, <1>2, <1>3, ItemCountersMove
<1>8. CASE Item!DeactivateBrand
  BY <1>1, <1>2, <1>3, <1>8, ItemCountersMove DEF Item!DeactivateBrand
<1>9. CASE Item!PostFails
  <2>1. /\ faults' = faults + 1 /\ faults < MaxFaults /\ posts' \subseteq posts
        /\ UNCHANGED <<row, flex, memo, listed, index, call, revs, committed, brand, crossed, taken>>
    BY <1>9 DEF Item!PostFails
  <2>2. faults' \in 0..MaxFaults /\ faults' # 0
    BY <2>1, <1>1, BoundsAssumption
  <2>3. ItemAlone'
    BY <2>2 DEF ItemAlone
  <2>4. ItemTypes'
    BY <2>1, <2>2, <1>1 DEF ItemInv, ItemTypes
  <2>5. ItemCopies'
    <3>1. \A d \in Calls : ItemPath(call[d])'
      BY <2>1 DEF ItemInv, ItemCopies, ItemPath
    <3> QED BY <2>1, <3>1 DEF ItemInv, ItemCopies
  <2> QED BY <2>3, <2>4, <2>5 DEF ItemInv
<1> QED BY <1>5, <1>6, <1>7, <1>8, <1>9

(* Nothing of the items moves.                                             *)
LEMMA ItemRests == ItemInv /\ UNCHANGED itemVars => ItemInv'
<1> SUFFICES ASSUME ItemInv, UNCHANGED itemVars PROVE ItemInv'
    OBVIOUS
<1>1. UNCHANGED <<row, flex, memo, listed, index, call, posts, revs, committed, brand, crossed, taken,
                  faults>>
  BY DEF itemVars
<1>2. ItemTypes'
  BY <1>1 DEF ItemInv, ItemTypes
<1>3. ItemCopies'
  <2>1. \A d \in Calls : ItemPath(call[d])'
    BY <1>1 DEF ItemInv, ItemCopies, ItemPath
  <2> QED BY <2>1, <1>1 DEF ItemInv, ItemCopies
<1>4. ItemAlone'
  <2>1. /\ Item!Live' = Item!Live /\ \A j : Desired(j)' = Desired(j)
        /\ \A j : Deleting(j)' = Deleting(j)
    BY <1>1 DEF Desired, Deleting, Item!Live, Item!Stored
  <2>2. \A d : ItemWrites(call[d])' = ItemWrites(call[d])
    BY <1>1, <2>1 DEF ItemWrites
  <2> QED BY <1>1, <2>1, <2>2 DEF ItemInv, ItemAlone, IsIndexing
<1> QED BY <1>2, <1>3, <1>4 DEF ItemInv

(* What a step of any service is for the items.                            *)
LEMMA ItemMoves ==
    [Next]_vars =>
        \/ UNCHANGED itemVars
        \/ \E c \in Calls :
            \/ Item!Take(c) \/ Item!Find(c) \/ Item!GetCatalogItem(c) \/ Item!FindAllPaginated(c)
            \/ Item!ListCatalogItems(c) \/ Item!ValidateCatalogItem(c) \/ Item!CheckBrand(c)
            \/ Item!SaveItem(c) \/ Item!WriteFlexible(c) \/ Item!Commit(c) \/ Item!SoftDelete(c)
            \/ Item!DeleteCatalogItem(c) \/ Item!CallFails(c)
        \/ Item!IndexDocument \/ Item!IncrementViewCount \/ Item!UpdatePopularityScore
        \/ Item!PostFails \/ Item!Expire \/ Item!DeactivateBrand
BY Zenon DEF Next, vars, OnItem, OnCache, OnCollection, OnBrand, OnIndex, OnRecommend, OnInteract, OnSearch

(* Every step keeps the invariant.                                         *)
LEMMA ItemNext == ItemInv /\ [Next]_vars => ItemInv'
<1> SUFFICES ASSUME ItemInv, [Next]_vars PROVE ItemInv'
    OBVIOUS
<1> QED BY ItemMoves, ItemRests, ItemTakes, ItemReads, ItemChecks, ItemSaves, ItemCommits,
           ItemSoftDeletes, ItemDeletes, ItemIndexed, ItemBackground

(* The invariant of the items.                                             *)
LEMMA ItemHolds == Spec => []ItemInv
<1>1. Init => ItemInv
  BY ItemInit DEF Init
<1> QED BY <1>1, ItemNext, PTL DEF Spec

(* What the holders of copies have: items cached, listed and indexed.      *)
Cached == UNION {{<<i, r.rev>> : r \in memo[i]} : i \in Items}
InList == UNION listed
InIndex == UNION {{<<i, n>> : n \in index[i]} : i \in Items}
HeldCopies == [memo |-> Cached, listed |-> InList, index |-> InIndex]

(* A commit only adds; a holder drops copies or takes committed ones.      *)
LEMMA ItemFollows ==
    ItemInv /\ ItemInv' /\ [Next]_vars =>
        /\ committed \subseteq committed'
        /\ Cached' \subseteq Cached \cup committed
        /\ InList' \subseteq InList \cup committed
        /\ InIndex' \subseteq InIndex \cup committed
<1> SUFFICES ASSUME ItemInv, ItemInv', [Next]_vars
             PROVE  /\ committed \subseteq committed'
                    /\ Cached' \subseteq Cached \cup committed
                    /\ InList' \subseteq InList \cup committed
                    /\ InIndex' \subseteq InIndex \cup committed
    OBVIOUS
<1>1. committed' = committed \/ \E c \in Calls : Item!Commit(c)
  BY Zenon, ItemMoves DEF itemVars, Item!Take, Item!Find, Item!GetCatalogItem, Item!FindAllPaginated,
      Item!ListCatalogItems, Item!ValidateCatalogItem, Item!CheckBrand, Item!SaveItem,
      Item!WriteFlexible, Item!SoftDelete, Item!DeleteCatalogItem, Item!CallFails,
      Item!IndexDocument, Item!IncrementViewCount, Item!UpdatePopularityScore,
      Item!PostFails, Item!Expire, Item!DeactivateBrand, Item!Rest
<1>2. CASE committed' = committed
  <2>1. Cached' \subseteq committed' /\ InList' \subseteq committed' /\ InIndex' \subseteq committed'
    BY DEF ItemInv, ItemCopies, Cached, InList, InIndex
  <2> QED BY <2>1, <1>2
<1>3. CASE \E c \in Calls : Item!Commit(c)
  <2>1. PICK c \in Calls : Item!Commit(c)
    BY <1>3
  <2>2. /\ committed \subseteq committed' /\ listed' = {} /\ index' = index
        /\ memo' = memo \/ memo' = [memo EXCEPT ![call[c].item] = {}]
    BY <2>1 DEF Item!Commit
  <2>3. \A i \in Items : memo'[i] = memo[i] \/ memo'[i] = {}
    BY <2>2 DEF ItemInv, ItemTypes
  <2>4. Cached' \subseteq Cached
    BY <2>3 DEF Cached
  <2>5. InList' = {} /\ InIndex' = InIndex
    BY <2>2 DEF InList, InIndex
  <2> QED BY <2>2, <2>4, <2>5
<1> QED BY <1>1, <1>2, <1>3

(* The cached items, the cached list and the index follow the commits.     *)
LEMMA ItemsFollowCommits == Spec => Item!CopiesFollow
<1>1. Init => Item!Copy!Init
  <2> SUFFICES ASSUME Init PROVE Item!Copy!Init
      OBVIOUS
  <2>1. committed = {} /\ listed = {} /\ \A i \in Items : memo[i] = {} /\ index[i] = {}
    BY DEF Init, Item!Init
  <2>2. Cached = {} /\ InList = {} /\ InIndex = {}
    BY <2>1 DEF Cached, InList, InIndex
  <2>3. HeldCopies = [h \in {"memo", "listed", "index"} |-> {}]
    BY <2>2 DEF HeldCopies
  <2> QED BY <2>1, <2>3 DEF Item!Copy!Init, HeldCopies, Cached, InList, InIndex
<1>2. ItemInv /\ ItemInv' /\ [Next]_vars => [Item!Copy!Step]_<<committed, HeldCopies>>
  <2> SUFFICES ASSUME ItemInv, ItemInv', [Next]_vars PROVE Item!Copy!Step
      OBVIOUS
  <2>1. /\ committed \subseteq committed'
        /\ Cached' \subseteq Cached \cup committed
        /\ InList' \subseteq InList \cup committed
        /\ InIndex' \subseteq InIndex \cup committed
    BY ItemFollows
  <2>2. DOMAIN HeldCopies' = {"memo", "listed", "index"}
    BY DEF HeldCopies
  <2>3. \A h \in {"memo", "listed", "index"} : HeldCopies'[h] \subseteq HeldCopies[h] \cup committed
    BY <2>1 DEF HeldCopies
  <2> QED BY <2>1, <2>2, <2>3 DEF Item!Copy!Step, HeldCopies, Cached, InList, InIndex
<1> QED BY <1>1, <1>2, ItemHolds, PTL
        DEF Spec, Item!CopiesFollow, Item!Copy!Spec, HeldCopies, Cached, InList, InIndex

(* The refinement of the run: every cache of the catalog and its index     *)
(* hold, at any time and whatever was lost, answered late or overlapped,   *)
(* only revisions that were committed before they were taken: nothing of a *)
(* transaction that rolls back is ever cached or indexed.                  *)
THEOREM CopiesAlwaysFollow == Spec => CopiesFollow
BY ItemsFollowCommits, LayersFollowRows, PTL DEF CopiesFollow

(* While calls never overlapped, no two indexings of one item were under   *)
(* way and nothing was rejected, the index ends up with the live rows at   *)
(* their revisions, though no call awaits what it posts.                   *)
THEOREM IndexFollowsRows == Spec => []Item!IndexCatchesUp
<1>1. ItemInv => Item!IndexCatchesUp
  <2> SUFFICES ASSUME ItemInv, ~crossed, faults = 0, ~Item!Busy, posts = {}, NEW i \in Items
               PROVE  index[i] = IF i \in Item!Live THEN {row[i].rev} ELSE {}
    BY DEF Item!IndexCatchesUp
  <2>1. ~Deleting(i)
    BY DEF Deleting, Item!Busy, Item!Step
  <2> QED BY <2>1 DEF ItemInv, ItemAlone, Desired
<1> QED BY <1>1, ItemHolds, PTL
(***************************************************************************)
(* Reindexing.                                                             *)
(***************************************************************************)
IndexSteps == {"new", "delete", "create", "count", "fetch", "bulk", "done", "threw"}
IndexShop == [rev : Nat, active : BOOLEAN, score : Nat]
Batches == {b \in SUBSET (Shown \X Nat) : IsFiniteSet(b)}
IndexJob ==
    [step : IndexSteps, scope : SUBSET Shown, total : Nat, page : Nat, batch : Batches,
     ok : Int, failed : SUBSET Shown, quiet : BOOLEAN]

IndexTypes ==
    /\ shop \in [Shown -> IndexShop] /\ docs \in [Shown -> SUBSET Nat]
    /\ job \in [Jobs -> IndexJob]

(* What the pages before page p have shown.                                *)
Seen(scope, p) ==
    {i \in Index!Active(scope) : Index!Position(i, scope) \div BatchSize < p - 1}

(* A job is right about a set of items: it has indexed or reported each,   *)
(* and counted them.                                                       *)
Covers(x, S) ==
    /\ x.ok + Cardinality(x.failed) = Cardinality(S) /\ x.failed \subseteq S
    /\ \A i \in S \ x.failed : docs[i] = {shop[i].rev}

IndexSound(x) ==
    x.quiet =>
        /\ x.step \in {"new", "delete", "create", "count"} => x.ok = 0 /\ x.failed = {}
        /\ x.step \in {"fetch", "bulk"} =>
              /\ x.page >= 1 /\ x.total = Cardinality(Index!Active(x.scope))
              /\ Covers(x, Seen(x.scope, x.page))
        /\ x.step = "bulk" =>
              x.batch = {<<i, shop[i].rev>> : i \in Index!findAllPaginated(x.page, x.scope)}
        /\ x.step = "done" =>
              /\ x.total = Cardinality(Index!Active(x.scope)) /\ Covers(x, Index!Active(x.scope))

IndexInv == IndexTypes /\ \A j \in Jobs : IndexSound(job[j])

(* A number is between its quotient's multiple and the next.               *)
LEMMA Quotient ==
    ASSUME NEW a \in Nat, NEW b \in Nat \ {0}
    PROVE  a \div b \in Nat /\ (a \div b) * b <= a /\ a < (a \div b) * b + b
OBVIOUS

(* All of n things are on the first pages, as many as n rounded up.        *)
LEMMA Pages ==
    ASSUME NEW a \in Nat, NEW n \in Nat, NEW b \in Nat \ {0}, a < n
    PROVE  a \div b < (n + b - 1) \div b
<1>1. PICK q \in Nat : q = a \div b /\ q * b <= a
  BY Quotient
<1>2. n + b - 1 \in Nat /\ n + b - 1 >= a + b
    OBVIOUS
<1>3. PICK p \in Nat : p = (n + b - 1) \div b /\ n + b - 1 < p * b + b
  BY <1>2, Quotient
<1>4. ASSUME p <= q PROVE FALSE
  <2>1. p * b <= q * b
    BY <1>4
  <2> QED BY <1>1, <1>2, <1>3, <2>1
<1> QED BY <1>1, <1>3, <1>4

(* Finite sets of items can be counted.                                    *)
LEMMA CountsAgree ==
    /\ \A S : Index!Cardinality(S) = Cardinality(S)
    /\ \A S \in SUBSET Shown : IsFiniteSet(S) /\ Cardinality(S) \in Nat
<1>1. \A S : Index!Cardinality(S) = Cardinality(S)
  BY DEF Index!Cardinality, Cardinality
<1>2. \A S \in SUBSET Shown : IsFiniteSet(S)
  BY ShownAssumption, FS_Subset
<1> QED BY <1>1, <1>2, FS_CardinalityType

(* Two sets with nothing in common count together.                         *)
LEMMA CountBoth ==
    ASSUME NEW S \in SUBSET Shown, NEW T \in SUBSET Shown, S \cap T = {}
    PROVE  Cardinality(S \cup T) = Cardinality(S) + Cardinality(T)
<1>1. IsFiniteSet(S) /\ IsFiniteSet(T) /\ Cardinality(S) \in Nat /\ Cardinality(T) \in Nat
  BY CountsAgree
<1>2. Cardinality({}) = 0
  BY FS_EmptySet
<1>3. Cardinality(S \cup T) = Cardinality(S) + Cardinality(T) - Cardinality(S \cap T)
  BY <1>1, FS_Union
<1>4. Cardinality(S \cap T) = 0
  BY <1>2
<1> QED BY <1>1, <1>3, <1>4

(* An item before which no more than the others are.                       *)
LEMMA PositionBound ==
    ASSUME IndexTypes, NEW scope \in SUBSET Shown, NEW i \in Index!Active(scope)
    PROVE  /\ Index!Position(i, scope) \in Nat
           /\ Index!Position(i, scope) < Cardinality(Index!Active(scope))
<1> DEFINE A == Index!Active(scope)
           B == {j \in A : Index!Before(j, i)}
<1>1. A \in SUBSET Shown /\ B \in SUBSET Shown /\ i \in A /\ A \ {i} \in SUBSET Shown
  BY DEF Index!Active
<1>2. i \notin B
  <2>1. i \in Shown /\ i \in Nat
    BY <1>1, IdsAssumption
  <2>2. shop[i].score \in Nat
    BY <2>1 DEF IndexTypes, IndexShop
  <2>3. ~(shop[i].score > shop[i].score) /\ ~(i > i)
    BY <2>1, <2>2
  <2>4. ~Index!Before(i, i)
    BY <2>3 DEF Index!Before
  <2> QED BY <2>4
<1>3. B \subseteq A \ {i}
  BY <1>2
<1>4. Cardinality(B) <= Cardinality(A \ {i})
  BY <1>1, <1>3, CountsAgree, FS_Subset
<1>5. Cardinality(A \ {i}) = Cardinality(A) - 1
  BY <1>1, CountsAgree, FS_RemoveElement
<1>6. Index!Position(i, scope) = Cardinality(B)
  BY CountsAgree DEF Index!Position
<1>7. Cardinality(A) \in Nat /\ Cardinality(B) \in Nat
  BY <1>1, CountsAgree
<1> HIDE DEF A, B
<1> QED BY <1>4, <1>5, <1>6, <1>7 DEF A

(* A page adds to what the pages before it have shown, and the last page   *)
(* completes the scope.                                                    *)
LEMMA SeenGrows ==
    ASSUME IndexTypes, NEW scope \in SUBSET Shown, NEW p \in Nat, p >= 1
    PROVE  /\ Seen(scope, p) \subseteq Shown /\ Index!findAllPaginated(p, scope) \subseteq Shown
           /\ Seen(scope, p + 1) = Seen(scope, p) \cup Index!findAllPaginated(p, scope)
           /\ Seen(scope, p) \cap Index!findAllPaginated(p, scope) = {}
           /\ Seen(scope, 1) = {}
           /\ p >= Index!Ceil(Cardinality(Index!Active(scope)), BatchSize) =>
                 Seen(scope, p + 1) = Index!Active(scope)
<1> DEFINE Q(i) == Index!Position(i, scope) \div BatchSize
           A == Index!Active(scope)
<1>1. \A i \in A : Q(i) \in Nat
  BY PositionBound, Quotient, SizesAssumption
<1>2. A \subseteq Shown /\ Cardinality(A) \in Nat
  BY CountsAgree DEF Index!Active
<1>3. Seen(scope, p) = {i \in A : Q(i) < p - 1} /\ Seen(scope, p + 1) = {i \in A : Q(i) < p}
  BY DEF Seen
<1>4. Index!findAllPaginated(p, scope) = {i \in A : Q(i) = p - 1}
  BY DEF Index!findAllPaginated
<1>5. Seen(scope, 1) = {i \in A : Q(i) < 0}
  BY DEF Seen
<1>6. \A i \in A : Q(i) < Index!Ceil(Cardinality(A), BatchSize)
  BY <1>2, PositionBound, Pages, SizesAssumption DEF Index!Ceil
<1>7. Index!Ceil(Cardinality(A), BatchSize) \in Nat
  BY <1>2, Quotient, SizesAssumption DEF Index!Ceil
<1> HIDE DEF Q, A
<1>8. Seen(scope, p + 1) = Seen(scope, p) \cup Index!findAllPaginated(p, scope)
  BY <1>1, <1>3, <1>4
<1>9. Seen(scope, p) \cap Index!findAllPaginated(p, scope) = {}
  BY <1>1, <1>3, <1>4
<1>10. Seen(scope, 1) = {}
  BY <1>1, <1>5
<1>11. p >= Index!Ceil(Cardinality(A), BatchSize) => Seen(scope, p + 1) = A
  BY <1>1, <1>3, <1>6, <1>7
<1> QED BY <1>2, <1>3, <1>4, <1>8, <1>9, <1>10, <1>11 DEF A

(* A page is as many documents as items.                                   *)
LEMMA PairsCounted ==
    ASSUME IndexTypes, NEW P \in SUBSET Shown, NEW b, b = {<<i, shop[i].rev>> : i \in P}
    PROVE  b \in Batches /\ Cardinality(b) = Cardinality(P)
<1> DEFINE f == [i \in P |-> <<i, shop[i].rev>>]
<1>1. f \in Surjection(P, b)
  BY DEF Surjection
<1>2. f \in Injection(P, b)
  BY DEF Injection, IsInjective
<1>3. IsFiniteSet(P)
  BY CountsAgree
<1>4. b \subseteq Shown \X Nat
  BY DEF IndexTypes, IndexShop
<1> HIDE DEF f
<1> QED BY <1>1, <1>2, <1>3, <1>4, FS_Surjection DEF Batches

(* Where the rows stand still, so do the pages.                            *)
LEMMA PagesStand ==
    ASSUME shop' = shop
    PROVE  /\ \A s : Index!Active(s)' = Index!Active(s)
           /\ \A p, s : Index!findAllPaginated(p, s)' = Index!findAllPaginated(p, s)
           /\ \A s, p : Seen(s, p)' = Seen(s, p)
<1>1. \A s : Index!Active(s)' = Index!Active(s)
  BY DEF Index!Active
<1>2. \A s, i : Index!Position(i, s)' = Index!Position(i, s)
  <2> SUFFICES ASSUME NEW s, NEW i PROVE Index!Position(i, s)' = Index!Position(i, s)
      OBVIOUS
  <2>1. \A j : Index!Before(j, i)' = Index!Before(j, i)
    BY DEF Index!Before
  <2>2. {j \in Index!Active(s)' : Index!Before(j, i)'} = {j \in Index!Active(s) : Index!Before(j, i)}
    BY <1>1, <2>1
  <2> QED BY <2>2 DEF Index!Position
<1>3. \A p, s : Index!findAllPaginated(p, s)' = Index!findAllPaginated(p, s)
  BY <1>1, <1>2 DEF Index!findAllPaginated
<1>4. \A s, p : Seen(s, p)' = Seen(s, p)
  BY <1>1, <1>2 DEF Seen
<1> QED BY <1>1, <1>3, <1>4

(* Where rows and index stand still, a job says what it said.              *)
LEMMA IndexStands ==
    ASSUME shop' = shop, docs' = docs
    PROVE  \A x : IndexSound(x)' <=> IndexSound(x)
<1>1. \A x, S : Covers(x, S)' = Covers(x, S)
  BY DEF Covers
<1> SUFFICES ASSUME NEW x PROVE IndexSound(x)' <=> IndexSound(x)
    OBVIOUS
<1> QED BY <1>1, PagesStand DEF IndexSound

(* A call goes on and touches neither the rows nor the index.              *)
LEMMA IndexMoves ==
    ASSUME IndexInv, NEW j \in Jobs, NEW x \in IndexJob, IndexSound(x), shop' = shop, docs' = docs,
           job' = [job EXCEPT ![j] = x]
    PROVE  IndexInv'
<1>1. IndexTypes'
  BY DEF IndexInv, IndexTypes
<1>2. \A k \in Jobs : job'[k] = x \/ job'[k] = job[k]
  BY DEF IndexInv, IndexTypes
<1>3. \A y : IndexSound(y)' <=> IndexSound(y)
  BY IndexStands
<1>4. \A k \in Jobs : IndexSound(job[k])'
  BY <1>2, <1>3 DEF IndexInv
<1> QED BY <1>1, <1>4 DEF IndexInv

(* Where the others are no longer quiet, only one call has to be right.    *)
LEMMA IndexDisturbed ==
    ASSUME IndexTypes, NEW by, shop' \in [Shown -> IndexShop], docs' \in [Shown -> SUBSET Nat],
           NEW x \in IndexJob, by \in Jobs => IndexSound(x)',
           job' = [Index!Disturbed(by) EXCEPT ![by] = x]
    PROVE  IndexInv'
<1>1. /\ Index!Disturbed(by) \in [Jobs -> IndexJob]
      /\ \A k \in Jobs : k # by => Index!Disturbed(by)[k].quiet = FALSE
  <2>1. \A k \in Jobs : [job[k] EXCEPT !.quiet = FALSE] \in IndexJob
    BY DEF IndexTypes, IndexJob
  <2>2. \A k \in Jobs : [job[k] EXCEPT !.quiet = FALSE].quiet = FALSE
    BY DEF IndexTypes, IndexJob
  <2> QED BY <2>1, <2>2 DEF Index!Disturbed, IndexTypes
<1>2. job' \in [Jobs -> IndexJob]
  BY <1>1
<1>3. \A k \in Jobs : (k = by /\ job'[k] = x) \/ (k # by /\ job'[k].quiet = FALSE)
  BY <1>1
<1>4. \A k \in Jobs : IndexSound(job[k])'
  BY <1>3 DEF IndexSound
<1> QED BY <1>2, <1>4 DEF IndexInv, IndexTypes

(* The steps that move the call alone.                                     *)
LEMMA IndexRuns ==
    ASSUME IndexInv, NEW j \in Jobs,
           \/ Index!ReindexAll(j) \/ Index!CountItems(j) \/ Index!FetchBatch(j)
           \/ Index!ReindexThrows(j) \/ Index!RebuildIndex(j) \/ Index!CreateIndex(j)
           \/ Index!RebuildThrows(j)
    PROVE  IndexInv'
<1>1. shop' = shop /\ docs' = docs
  BY DEF Index!ReindexAll, Index!CountItems, Index!FetchBatch, Index!ReindexThrows,
      Index!RebuildIndex, Index!CreateIndex, Index!RebuildThrows
<1>2. job[j] \in IndexJob /\ IndexSound(job[j]) /\ IndexTypes /\ job \in [Jobs -> IndexJob]
  BY DEF IndexInv, IndexTypes
<1>3. ASSUME NEW s \in {"threw", "count"}, job' = [job EXCEPT ![j].step = s],
             s = "count" => job[j].step = "create"
      PROVE  IndexInv'
  <2>1. [job[j] EXCEPT !.step = s] \in IndexJob
    BY <1>2 DEF IndexJob, IndexSteps
  <2>2. PICK x \in IndexJob : x = [job[j] EXCEPT !.step = s]
    BY <2>1
  <2>3. /\ x.step = s /\ x.ok = job[j].ok /\ x.failed = job[j].failed /\ x.quiet = job[j].quiet
    BY <1>2, <2>2 DEF IndexJob
  <2>4. IndexSound(x)
    BY <1>2, <1>3, <2>3 DEF IndexSound
  <2>5. job' = [job EXCEPT ![j] = x]
    BY <1>3, <2>2
  <2> QED BY <2>4, <2>5, <1>1, IndexMoves
<1>4. ASSUME NEW s \in {"count", "delete"}, NEW scope \in SUBSET Shown, job[j].step = "new",
             job' = [job EXCEPT ![j].step = s, ![j].scope = scope]
      PROVE  IndexInv'
  <2>1. [job[j] EXCEPT !.step = s, !.scope = scope] \in IndexJob
    BY <1>2 DEF IndexJob, IndexSteps
  <2>2. PICK x \in IndexJob : x = [job[j] EXCEPT !.step = s, !.scope = scope]
    BY <2>1
  <2>3. /\ x.step = s /\ x.ok = job[j].ok /\ x.failed = job[j].failed /\ x.quiet = job[j].quiet
    BY <1>2, <2>2 DEF IndexJob
  <2>4. IndexSound(x)
    BY <1>2, <1>4, <2>3 DEF IndexSound
  <2>5. job' = [job EXCEPT ![j] = x]
    BY <1>4, <2>2
  <2> QED BY <2>4, <2>5, <1>1, IndexMoves
<1>5. CASE Index!ReindexAll(j)
  <2>1. PICK scope \in SUBSET Shown : job' = [job EXCEPT ![j].step = "count", ![j].scope = scope]
    BY <1>5 DEF Index!ReindexAll
  <2>2. job[j].step = "new"
    BY <1>5 DEF Index!ReindexAll
  <2> QED BY <2>1, <2>2, <1>4
<1>6. CASE Index!RebuildIndex(j)
  <2>1. job[j].step = "new" /\ job' = [job EXCEPT ![j].step = "delete", ![j].scope = Shown]
    BY <1>6 DEF Index!RebuildIndex
  <2> QED BY <2>1, <1>4
<1>7. CASE Index!ReindexThrows(j)
  BY <1>7, <1>3 DEF Index!ReindexThrows, Index!Goto
<1>8. CASE Index!RebuildThrows(j)
  BY <1>8, <1>3 DEF Index!RebuildThrows, Index!Goto
<1>9. CASE Index!CreateIndex(j)
  <2>1. PICK s \in {"threw", "count"} : job' = [job EXCEPT ![j].step = s]
    BY <1>9 DEF Index!CreateIndex, Index!Goto
  <2>2. job[j].step = "create"
    BY <1>9 DEF Index!CreateIndex
  <2> QED BY <2>1, <2>2, <1>3
<1>10. CASE Index!CountItems(j)
  <2>1. Index!Active(job[j].scope) \in SUBSET Shown
    BY <1>2 DEF Index!Active, IndexJob
  <2>2. PICK n \in Nat : n = Cardinality(Index!Active(job[j].scope))
    BY <2>1, CountsAgree
  <2>3. PICK s \in {"done", "fetch"} : s = IF n = 0 THEN "done" ELSE "fetch"
      OBVIOUS
  <2>4. job[j].step = "count"
    BY <1>10 DEF Index!CountItems
  <2>5. job' = [job EXCEPT ![j].total = n, ![j].page = 1, ![j].step = s]
    BY <1>10, <2>2, <2>3, CountsAgree DEF Index!CountItems
  <2>6. [job[j] EXCEPT !.total = n, !.page = 1, !.step = s] \in IndexJob
    BY <1>2 DEF IndexJob, IndexSteps
  <2>7. PICK x \in IndexJob : x = [job[j] EXCEPT !.total = n, !.page = 1, !.step = s]
    BY <2>6
  <2>8. /\ x.step = s /\ x.total = n /\ x.page = 1 /\ x.ok = job[j].ok /\ x.failed = job[j].failed
        /\ x.quiet = job[j].quiet /\ x.scope = job[j].scope
    BY <1>2, <2>7 DEF IndexJob
  <2>9. ASSUME x.quiet PROVE x.ok = 0 /\ x.failed = {} /\ Covers(x, {})
    <3>1. x.ok = 0 /\ x.failed = {}
      BY <1>2, <2>4, <2>8, <2>9 DEF IndexSound
    <3>2. Cardinality({}) = 0
      BY FS_EmptySet
    <3> QED BY <3>1, <3>2 DEF Covers
  <2>10. Seen(x.scope, 1) = {}
    BY <1>2, <2>8, SeenGrows DEF IndexJob
  <2>11. n = 0 => Index!Active(x.scope) = {}
    BY <2>1, <2>2, <2>8, CountsAgree, FS_EmptySet
  <2>12. IndexSound(x)
    BY <2>2, <2>3, <2>8, <2>9, <2>10, <2>11 DEF IndexSound
  <2>13. job' = [job EXCEPT ![j] = x]
    BY <2>5, <2>7
  <2> QED BY <2>12, <2>13, <1>1, IndexMoves
<1>11. CASE Index!FetchBatch(j)
  <2>1. job[j].step = "fetch" /\ job[j].scope \in SUBSET Shown
    BY <1>2, <1>11 DEF Index!FetchBatch, IndexJob
  <2> DEFINE b == {<<i, shop[i].rev>> : i \in Index!findAllPaginated(job[j].page, job[j].scope)}
  <2>2. b \in Batches
    <3>1. Index!findAllPaginated(job[j].page, job[j].scope) \in SUBSET Shown
      BY <2>1 DEF Index!findAllPaginated, Index!Active
    <3> QED BY <1>2, <3>1, PairsCounted
  <2>3. PICK batch \in Batches : batch = b
    BY <2>2
  <2>4. job' = [job EXCEPT ![j].step = "bulk", ![j].batch = batch]
    BY <1>11, <2>3 DEF Index!FetchBatch
  <2>5. [job[j] EXCEPT !.step = "bulk", !.batch = batch] \in IndexJob
    BY <1>2 DEF IndexJob, IndexSteps
  <2>6. PICK x \in IndexJob : x = [job[j] EXCEPT !.step = "bulk", !.batch = batch]
    BY <2>5
  <2>7. /\ x.step = "bulk" /\ x.batch = batch /\ x.total = job[j].total /\ x.page = job[j].page
        /\ x.ok = job[j].ok /\ x.failed = job[j].failed
        /\ x.quiet = job[j].quiet /\ x.scope = job[j].scope
    BY <1>2, <2>6 DEF IndexJob
  <2>8. IndexSound(x)
    BY <1>2, <2>1, <2>3, <2>7 DEF IndexSound, Covers
  <2>9. job' = [job EXCEPT ![j] = x]
    BY <2>4, <2>6
  <2> QED BY <2>8, <2>9, <1>1, IndexMoves
<1> QED BY <1>5, <1>6, <1>7, <1>8, <1>9, <1>10, <1>11

(* A page is written: the items it shows are indexed or reported.          *)
LEMMA IndexBulks ==
    ASSUME IndexInv, NEW j \in Jobs, Index!BulkIndex(j)
    PROVE  IndexInv'
<1> DEFINE J == job[j]
           P == Index!findAllPaginated(J.page, J.scope)
<1>1. J \in IndexJob /\ IndexSound(J) /\ IndexTypes /\ J.step = "bulk" /\ shop' = shop
  BY DEF IndexInv, IndexTypes, Index!BulkIndex
<1>2. PICK bad \in SUBSET {y[1] : y \in J.batch} :
        /\ docs' = [i \in Shown |-> IF i \in bad THEN docs[i]
                                    ELSE {y[2] : y \in {z \in J.batch : z[1] = i}} \cup
                                         {n \in docs[i] : \A y \in J.batch : y[1] # i}]
        /\ Index!NextPage(j, bad)
  BY DEF Index!BulkIndex
<1>3. J.batch \in SUBSET (Shown \X Nat) /\ IsFiniteSet(J.batch) /\ Cardinality(J.batch) \in Nat
  BY <1>1, FS_CardinalityType DEF IndexJob, Batches
<1>4. bad \in SUBSET Shown /\ Cardinality(bad) \in Nat
  BY <1>3, CountsAgree
<1>5. PICK s \in {"done", "fetch"} :
        s = IF J.page >= Index!Ceil(J.total, BatchSize) THEN "done" ELSE "fetch"
    OBVIOUS
<1>6. PICK ok \in Int : ok = J.ok + Cardinality(J.batch) - Cardinality(bad)
  BY <1>1, <1>3, <1>4 DEF IndexJob
<1>7. PICK x \in IndexJob : x = [J EXCEPT !.ok = ok, !.failed = J.failed \cup bad, !.page = J.page + 1, !.step = s]
  <2>1. J.failed \cup bad \in SUBSET Shown /\ J.page + 1 \in Nat /\ s \in IndexSteps
    BY <1>1, <1>4 DEF IndexJob, IndexSteps
  <2>2. [J EXCEPT !.ok = ok, !.failed = J.failed \cup bad, !.page = J.page + 1, !.step = s] \in IndexJob
    BY <1>1, <2>1 DEF IndexJob
  <2> QED BY <2>2
<1>8. /\ x.ok = ok /\ x.failed = J.failed \cup bad /\ x.page = J.page + 1 /\ x.step = s
      /\ x.total = J.total /\ x.scope = J.scope /\ x.quiet = J.quiet
  BY <1>1, <1>7 DEF IndexJob
<1>9. job' = [Index!Disturbed(j) EXCEPT ![j] = x]
  <2>1. Index!Disturbed(j)[j] = J /\ Index!Cardinality(J.batch) = Cardinality(J.batch)
        /\ Index!Cardinality(bad) = Cardinality(bad)
    BY CountsAgree DEF Index!Disturbed
  <2>2. job' = [Index!Disturbed(j) EXCEPT
                  ![j] = [J EXCEPT !.ok = J.ok + Cardinality(J.batch) - Cardinality(bad),
                                   !.failed = J.failed \cup bad, !.page = J.page + 1, !.step = s]]
    BY <1>2, <1>5, <2>1 DEF Index!NextPage
  <2> QED BY <2>2, <1>6, <1>7
<1>10. docs' \in [Shown -> SUBSET Nat]
  <2>1. \A i \in Shown : {y[2] : y \in {z \in J.batch : z[1] = i}} \subseteq Nat /\ docs[i] \subseteq Nat
    BY <1>1, <1>3 DEF IndexTypes
  <2> QED BY <1>2, <2>1
<1>11. ASSUME J.quiet
       PROVE  /\ x.page >= 1 /\ x.total = Cardinality(Index!Active(x.scope))
              /\ Covers(x, Seen(x.scope, x.page))'
              /\ s = "done" => Seen(x.scope, x.page) = Index!Active(x.scope)
  <2>1. /\ J.page \in Nat /\ J.page >= 1 /\ J.scope \in SUBSET Shown /\ J.failed \in SUBSET Shown
        /\ J.ok \in Int /\ J.total = Cardinality(Index!Active(J.scope))
        /\ Covers(J, Seen(J.scope, J.page)) /\ J.batch = {<<i, shop[i].rev>> : i \in P}
    BY <1>1, <1>11 DEF IndexSound, IndexJob
  <2>2. /\ Seen(J.scope, J.page) \in SUBSET Shown /\ P \in SUBSET Shown
        /\ Seen(J.scope, J.page + 1) = Seen(J.scope, J.page) \cup P
        /\ Seen(J.scope, J.page) \cap P = {}
        /\ J.page >= Index!Ceil(J.total, BatchSize) => Seen(J.scope, J.page + 1) = Index!Active(J.scope)
    BY <1>1, <2>1, SeenGrows
  <2>3. Cardinality(J.batch) = Cardinality(P) /\ bad \subseteq P
    <3>1. Cardinality(J.batch) = Cardinality(P)
      BY <1>1, <2>1, <2>2, PairsCounted
    <3>2. {y[1] : y \in J.batch} \subseteq P
      BY <2>1
    <3> QED BY <3>1, <3>2
  <2> DEFINE E == Seen(J.scope, J.page)
  <2>4. E \in SUBSET Shown /\ E \cap P = {} /\ Seen(x.scope, x.page) = E \cup P
    BY <1>8, <2>2
  <2>5. /\ J.ok + Cardinality(J.failed) = Cardinality(E) /\ J.failed \subseteq E
        /\ \A i \in E \ J.failed : docs[i] = {shop[i].rev}
    BY <2>1 DEF Covers
  <2>6. \A i \in Shown : i \notin P => docs'[i] = docs[i]
    BY <1>1, <1>2, <2>1 DEF IndexTypes
  <2>7. \A i \in P \ bad : docs'[i] = {shop[i].rev}
    <3> SUFFICES ASSUME NEW i \in P, i \notin bad PROVE docs'[i] = {shop[i].rev}
        OBVIOUS
    <3> DEFINE w == <<i, shop[i].rev>>
    <3>3. w \in J.batch /\ w[1] = i /\ w[2] = shop[i].rev
      BY <2>1
    <3>4. \A y \in J.batch : y[1] = i => y[2] = shop[i].rev
      BY <2>1
    <3> HIDE DEF w, J, P
    <3>1. {y[2] : y \in {z \in J.batch : z[1] = i}} = {shop[i].rev}
      BY <3>3, <3>4
    <3>2. {n \in docs[i] : \A y \in J.batch : y[1] # i} = {}
      BY <3>3
    <3> QED BY <3>1, <3>2, <1>2, <2>2
  <2> HIDE DEF P, E, J
  <2>8. Cardinality(J.failed \cup bad) = Cardinality(J.failed) + Cardinality(bad)
        /\ Cardinality(E \cup P) = Cardinality(E) + Cardinality(P)
    <3>1. J.failed \cap bad = {}
      BY <2>3, <2>4, <2>5
    <3> QED BY <3>1, <1>4, <2>1, <2>2, <2>4, CountBoth
  <2>9. Cardinality(J.failed) \in Nat /\ Cardinality(E) \in Nat /\ Cardinality(P) \in Nat
    BY <2>1, <2>2, <2>4, CountsAgree
  <2>10. x.ok + Cardinality(x.failed) = Cardinality(E \cup P)
    BY <1>4, <1>6, <1>8, <2>1, <2>3, <2>5, <2>8, <2>9
  <2>11. x.failed \subseteq E \cup P
    BY <1>8, <2>3, <2>5
  <2>12. \A i \in (E \cup P) \ x.failed : docs'[i] = {shop[i].rev}
    BY <1>8, <2>2, <2>4, <2>5, <2>6, <2>7
  <2>13. Covers(x, Seen(x.scope, x.page))'
    <3>1. Seen(x.scope, x.page)' = E \cup P
      BY <1>1, <2>4, PagesStand
    <3> QED BY <1>1, <2>10, <2>11, <2>12, <3>1 DEF Covers
  <2>14. s = "done" => Seen(x.scope, x.page) = Index!Active(x.scope)
    BY <1>5, <1>8, <2>2
  <2> QED BY <1>8, <2>1, <2>13, <2>14
<1>12. IndexSound(x)'
  <2>1. \A c : Index!Active(c)' = Index!Active(c)
    BY <1>1, PagesStand
  <2>2. \A c, p : Seen(c, p)' = Seen(c, p)
    BY <1>1, PagesStand
  <2>3. ASSUME x.quiet, s = "done"
        PROVE  /\ x.total = Cardinality(Index!Active(x.scope)')
               /\ Covers(x, Index!Active(x.scope))'
    <3>1. J.quiet
      BY <1>8, <2>3
    <3>2. Seen(x.scope, x.page)' = Index!Active(x.scope)'
      BY <1>11, <2>1, <2>2, <2>3, <3>1
    <3>3. Covers(x, Seen(x.scope, x.page))'
      BY <1>11, <3>1
    <3>4. Covers(x, Index!Active(x.scope))'
      BY <3>2, <3>3 DEF Covers
    <3> QED BY <1>11, <2>1, <3>1, <3>4
  <2>4. ASSUME x.quiet, s = "fetch"
        PROVE  /\ x.page >= 1 /\ x.total = Cardinality(Index!Active(x.scope)')
               /\ Covers(x, Seen(x.scope, x.page))'
    BY <1>8, <1>11, <2>1, <2>4
  <2> HIDE DEF J, P
  <2> QED BY <1>5, <1>8, <2>3, <2>4 DEF IndexSound
<1> QED BY <1>1, <1>9, <1>10, <1>12, IndexDisturbed DEF IndexTypes

(* The index is emptied for a rebuilding that has indexed nothing yet.     *)
LEMMA IndexEmptied ==
    ASSUME IndexInv, NEW j \in Jobs, Index!DeleteIndex(j)
    PROVE  IndexInv'
<1>1. /\ job[j] \in IndexJob /\ IndexSound(job[j]) /\ IndexTypes /\ job[j].step = "delete"
      /\ shop' \in [Shown -> IndexShop] /\ docs' \in [Shown -> SUBSET Nat]
  BY DEF IndexInv, IndexTypes, Index!DeleteIndex
<1>2. [job[j] EXCEPT !.step = "create"] \in IndexJob
  BY <1>1 DEF IndexJob, IndexSteps
<1>3. PICK x \in IndexJob : x = [job[j] EXCEPT !.step = "create"]
  BY <1>2
<1>4. x.step = "create" /\ x.ok = job[j].ok /\ x.failed = job[j].failed /\ x.quiet = job[j].quiet
  BY <1>1, <1>3 DEF IndexJob
<1>5. IndexSound(x)'
  BY <1>1, <1>4 DEF IndexSound
<1>6. Index!Disturbed(j)[j] = job[j]
  BY DEF Index!Disturbed
<1>7. job' = [Index!Disturbed(j) EXCEPT ![j] = x]
  BY <1>3, <1>6 DEF Index!DeleteIndex
<1> QED BY <1>1, <1>5, <1>7, IndexDisturbed

(* Another writes or views an item.                                        *)
LEMMA IndexWritten ==
    ASSUME IndexInv, Index!WriteItem
    PROVE  IndexInv'
<1>1. PICK i \in Shown :
        \/ shop' = [shop EXCEPT ![i].rev = @ + 1] /\ docs' = [docs EXCEPT ![i] = {shop[i].rev + 1}]
        \/ shop' = [shop EXCEPT ![i].active = FALSE] /\ docs' = docs
        \/ shop' = [shop EXCEPT ![i].score = @ + 1] /\ docs' = docs
  BY DEF Index!WriteItem
<1>2. IndexTypes /\ shop[i] \in IndexShop /\ shop[i].rev + 1 \in Nat /\ shop[i].score + 1 \in Nat
  BY DEF IndexInv, IndexTypes, IndexShop
<1>3. docs' \in [Shown -> SUBSET Nat]
  BY <1>1, <1>2 DEF IndexTypes
<1>4. shop' \in [Shown -> IndexShop]
  <2>1. /\ [shop[i] EXCEPT !.rev = shop[i].rev + 1] \in IndexShop
        /\ [shop[i] EXCEPT !.active = FALSE] \in IndexShop
        /\ [shop[i] EXCEPT !.score = shop[i].score + 1] \in IndexShop
    BY <1>2 DEF IndexShop
  <2>2. PICK w \in IndexShop : shop' = [shop EXCEPT ![i] = w]
    BY <1>1, <2>1
  <2> QED BY <1>2, <2>2 DEF IndexTypes
<1>5. Index!New \in IndexJob
  BY FS_EmptySet DEF Index!New, IndexJob, IndexSteps, Batches
<1>6. job' = [Index!Disturbed(0) EXCEPT ![0] = Index!New]
  BY ShownAssumption DEF Index!WriteItem, Index!Disturbed
<1> QED BY <1>2, <1>3, <1>4, <1>5, <1>6, ShownAssumption, IndexDisturbed

(* Nothing of the reindexing moves.                                        *)
LEMMA IndexRests == IndexInv /\ UNCHANGED reindexVars => IndexInv'
<1> SUFFICES ASSUME IndexInv, UNCHANGED reindexVars PROVE IndexInv'
    OBVIOUS
<1>1. shop' = shop /\ docs' = docs /\ job' = job
  BY DEF reindexVars
<1>2. IndexTypes'
  BY <1>1 DEF IndexInv, IndexTypes
<1>3. \A j \in Jobs : IndexSound(job[j])'
  BY <1>1, IndexStands DEF IndexInv
<1> QED BY <1>2, <1>3 DEF IndexInv

(* Nobody has begun.                                                       *)
LEMMA IndexInit == Index!Init => IndexInv
<1> SUFFICES ASSUME Index!Init PROVE IndexInv
    OBVIOUS
<1>1. Index!New \in IndexJob /\ IndexSound(Index!New)
  BY FS_EmptySet DEF Index!New, IndexJob, IndexSteps, Batches, IndexSound
<1>2. IndexTypes
  BY <1>1 DEF Index!Init, IndexTypes, IndexShop
<1>3. \A j \in Jobs : job[j] = Index!New
  BY DEF Index!Init
<1> QED BY <1>1, <1>2, <1>3 DEF IndexInv

(* What a step of any service is for the reindexing.                       *)
LEMMA IndexMovesOn ==
    [Next]_vars =>
        \/ UNCHANGED reindexVars
        \/ \E j \in Jobs :
            \/ Index!ReindexAll(j) \/ Index!CountItems(j) \/ Index!FetchBatch(j)
            \/ Index!BulkIndex(j) \/ Index!ReindexThrows(j) \/ Index!RebuildIndex(j)
            \/ Index!DeleteIndex(j) \/ Index!CreateIndex(j) \/ Index!RebuildThrows(j)
        \/ Index!WriteItem
BY Zenon DEF Next, vars, OnItem, OnCache, OnCollection, OnBrand, OnIndex, OnRecommend, OnInteract, OnSearch

(* Every step keeps the invariant.                                         *)
LEMMA IndexNext == IndexInv /\ [Next]_vars => IndexInv'
BY IndexMovesOn, IndexRests, IndexRuns, IndexBulks, IndexEmptied, IndexWritten

(* The invariant of the reindexing.                                        *)
LEMMA IndexHolds == Spec => []IndexInv
<1>1. Init => IndexInv
  BY IndexInit DEF Init
<1> QED BY <1>1, IndexNext, PTL DEF Spec

(* A reindexing that nobody disturbed and that did not throw has indexed   *)
(* every active item of its scope at its revision, but for those it        *)
(* reports as failed, whatever the order of popularity, the size of a page *)
(* and the documents that fail; and an index kept up post by post agrees   *)
(* with the rows once nothing is under way.                                *)
THEOREM IndexAlwaysAgrees == Spec => []IndexAgrees
<1>1. IndexInv => Index!ReindexCovers
  <2> SUFFICES ASSUME IndexInv, NEW j \in Jobs, job[j].step = "done", job[j].quiet
               PROVE  /\ job[j].ok + Index!Cardinality(job[j].failed) = job[j].total
                      /\ \A i \in Index!Active(job[j].scope) \ job[j].failed : docs[i] = {shop[i].rev}
    BY DEF Index!ReindexCovers
  <2>1. /\ job[j].total = Cardinality(Index!Active(job[j].scope))
        /\ Covers(job[j], Index!Active(job[j].scope))
    BY DEF IndexInv, IndexSound
  <2> QED BY <2>1, CountsAgree DEF Covers
<1> QED BY <1>1, IndexHolds, IndexFollowsRows, PTL DEF IndexAgrees

(***************************************************************************)
(* Interactions.                                                           *)
(***************************************************************************)
Batch(s) == {s[i] : i \in DOMAIN s}
Once(s) == \A i, j \in DOMAIN s : s[i] = s[j] => i = j

(* A buffer b, rows s and batches F have every interaction in one place.   *)
OnePlace(b, s, F) ==
    /\ b \in Seq(Nat) /\ s \in Seq(Nat) /\ F \in [Flushes -> Seq(Nat)]
    /\ Once(b) /\ Once(s) /\ Batch(b) \cap Batch(s) = {}
    /\ \A f \in Flushes : Once(F[f]) /\ Batch(F[f]) \cap (Batch(b) \cup Batch(s)) = {}
    /\ \A f, g \in Flushes : f # g => Batch(F[f]) \cap Batch(F[g]) = {}
UnderWay(F) == UNION {Batch(F[f]) : f \in Flushes}
All(b, s, F) == Batch(b) \cup Batch(s) \cup UnderWay(F)

InteractInv ==
    /\ kind \in Seq(Interact!InteractionTypes)
    /\ OnePlace(buffer, stored, flush)
    /\ All(buffer, stored, flush) \subseteq 1..Len(kind)
    /\ ~cleared => All(buffer, stored, flush) = 1..Len(kind)

(* One sequence after another has what both have.                          *)
LEMMA Joined ==
    ASSUME NEW s \in Seq(Nat), NEW t \in Seq(Nat), Once(s), Once(t), Batch(s) \cap Batch(t) = {}
    PROVE  /\ s \o t \in Seq(Nat) /\ Batch(s \o t) = Batch(s) \cup Batch(t) /\ Once(s \o t)
<1>9. s \o t \in Seq(Nat)
    OBVIOUS
<1>1. PICK q \in Seq(Nat) : q = s \o t
  BY <1>9
<1>2. PICK m \in Nat, n \in Nat : m = Len(s) /\ n = Len(t)
    OBVIOUS
<1>3. DOMAIN s = 1..m /\ DOMAIN t = 1..n /\ DOMAIN q = 1..(m + n)
  BY <1>1, <1>2
<1>4. /\ \A i \in 1..m : q[i] = s[i]
      /\ \A i \in 1..(m + n) : i > m => q[i] = t[i - m]
  BY <1>1, <1>2
<1>5. /\ \A i \in 1..m : i \in 1..(m + n)
      /\ \A i \in 1..(m + n) : (i <= m => i \in 1..m) /\ (i > m => i - m \in 1..n)
      /\ \A i \in 1..n : m + i \in 1..(m + n) /\ m + i > m /\ (m + i) - m = i
    OBVIOUS
<1>6. /\ \A k \in 1..m : s[k] \in Batch(s)
      /\ \A k \in 1..n : t[k] \in Batch(t)
  BY <1>3 DEF Batch
<1>7. Batch(q) = Batch(s) \cup Batch(t)
  <2>1. \A i \in 1..(m + n) : q[i] \in Batch(s) \cup Batch(t)
    <3> SUFFICES ASSUME NEW i \in 1..(m + n) PROVE q[i] \in Batch(s) \cup Batch(t)
        OBVIOUS
    <3>1. CASE i <= m
      BY <3>1, <1>4, <1>5, <1>6
    <3>2. CASE i > m
      BY <3>2, <1>4, <1>5, <1>6
    <3> QED BY <3>1, <3>2
  <2>2. \A i \in 1..m : q[i] = s[i] /\ q[i] \in Batch(q)
    BY <1>3, <1>4, <1>5 DEF Batch
  <2>3. \A i \in 1..n : q[m + i] = t[i] /\ q[m + i] \in Batch(q)
    BY <1>3, <1>4, <1>5 DEF Batch
  <2>4. Batch(q) \subseteq Batch(s) \cup Batch(t)
    BY <1>3, <2>1 DEF Batch
  <2>5. Batch(s) \subseteq Batch(q)
    BY <1>3, <2>2 DEF Batch
  <2>6. Batch(t) \subseteq Batch(q)
    BY <1>3, <2>3 DEF Batch
  <2> QED BY <2>4, <2>5, <2>6
<1>8. Once(q)
  <2> SUFFICES ASSUME NEW i \in 1..(m + n), NEW j \in 1..(m + n), q[i] = q[j]
               PROVE  i = j
    BY <1>3 DEF Once
  <2>1. CASE i <= m /\ j <= m
    BY <2>1, <1>3, <1>4, <1>5 DEF Once
  <2>2. CASE i > m /\ j > m
    <3>1. i - m \in DOMAIN t /\ j - m \in DOMAIN t /\ t[i - m] = t[j - m]
      BY <2>2, <1>3, <1>4, <1>5
    <3>2. i - m = j - m
      BY <3>1 DEF Once
    <3> QED BY <3>2
  <2>3. CASE i <= m /\ j > m
    BY <2>3, <1>4, <1>5, <1>6
  <2>4. CASE i > m /\ j <= m
    BY <2>4, <1>4, <1>5, <1>6
  <2> QED BY <2>1, <2>2, <2>3, <2>4
<1> QED BY <1>1, <1>7, <1>8

(* One interaction more, at the end.                                       *)
LEMMA Added ==
    ASSUME NEW s \in Seq(Nat), Once(s), NEW n \in Nat, n \notin Batch(s)
    PROVE  Append(s, n) \in Seq(Nat) /\ Batch(Append(s, n)) = Batch(s) \cup {n} /\ Once(Append(s, n))
<1>1. <<n>> \in Seq(Nat) /\ Batch(<<n>>) = {n} /\ Once(<<n>>)
  BY DEF Batch, Once
<1>2. Append(s, n) = s \o <<n>>
    OBVIOUS
<1>3. Batch(s) \cap Batch(<<n>>) = {}
  BY <1>1
<1>4. /\ s \o <<n>> \in Seq(Nat) /\ Batch(s \o <<n>>) = Batch(s) \cup Batch(<<n>>)
      /\ Once(s \o <<n>>)
  BY <1>1, <1>3, Joined
<1> QED BY <1>1, <1>2, <1>4

(* Nothing is in the empty sequence.                                       *)
LEMMA NoneThere == <<>> \in Seq(Nat) /\ Batch(<<>>) = {} /\ Once(<<>>)
BY DEF Batch, Once

(* What is under way when one batch changes.                               *)
LEMMA BatchChanged ==
    ASSUME NEW F, NEW G, NEW f \in Flushes, \A g \in Flushes : g # f => G[g] = F[g]
    PROVE  UnderWay(F) \cup Batch(G[f]) = UnderWay(G) \cup Batch(F[f])
<1>1. \A x : x \in UnderWay(F) <=> \E g \in Flushes : x \in Batch(F[g])
  BY DEF UnderWay
<1>2. \A x : x \in UnderWay(G) <=> \E g \in Flushes : x \in Batch(G[g])
  BY DEF UnderWay
<1> QED BY <1>1, <1>2

(* The moves between the places: a batch is taken, inserted, put back.     *)
LEMMA BatchTaken ==
    ASSUME NEW b, NEW s, NEW F, NEW e, e = <<>>, OnePlace(b, s, F), NEW f \in Flushes, F[f] = e,
           NEW G \in [Flushes -> Seq(Nat)], G[f] = b, \A g \in Flushes : g # f => G[g] = F[g]
    PROVE  OnePlace(e, s, G) /\ All(e, s, G) = All(b, s, F)
<1>1. OnePlace(e, s, G)
  BY NoneThere DEF OnePlace
<1>2. UnderWay(F) \cup Batch(b) = UnderWay(G)
  <2>1. UnderWay(F) \cup Batch(G[f]) = UnderWay(G) \cup Batch(F[f])
    BY BatchChanged
  <2>2. Batch(F[f]) = {} /\ Batch(G[f]) = Batch(b)
    BY NoneThere
  <2> QED BY <2>1, <2>2
<1> QED BY <1>1, <1>2, NoneThere DEF All

(* It ends in the table or before what has come in.                        *)
LEMMA BatchLeft ==
    ASSUME NEW b, NEW s, NEW F, OnePlace(b, s, F), NEW f \in Flushes,
           NEW G \in [Flushes -> Seq(Nat)], G[f] = <<>>, \A g \in Flushes : g # f => G[g] = F[g]
    PROVE  /\ OnePlace(b, s \o F[f], G) /\ All(b, s \o F[f], G) = All(b, s, F)
           /\ OnePlace(F[f] \o b, s, G) /\ All(F[f] \o b, s, G) = All(b, s, F)
<1>1. /\ b \in Seq(Nat) /\ s \in Seq(Nat) /\ F[f] \in Seq(Nat) /\ F \in [Flushes -> Seq(Nat)]
      /\ Once(b) /\ Once(s) /\ Once(F[f]) /\ Batch(F[f]) \cap Batch(s) = {}
      /\ Batch(F[f]) \cap Batch(b) = {} /\ Batch(s) \cap Batch(F[f]) = {}
  BY DEF OnePlace
<1>2. /\ s \o F[f] \in Seq(Nat) /\ Batch(s \o F[f]) = Batch(s) \cup Batch(F[f]) /\ Once(s \o F[f])
  BY <1>1, Joined
<1>3. /\ F[f] \o b \in Seq(Nat) /\ Batch(F[f] \o b) = Batch(F[f]) \cup Batch(b) /\ Once(F[f] \o b)
  BY <1>1, Joined
<1>4. G \in [Flushes -> Seq(Nat)] /\ G[f] = <<>> /\ \A g \in Flushes : g # f => G[g] = F[g]
    OBVIOUS
<1>5. PICK t : t = s \o F[f]
    OBVIOUS
<1>6. PICK c : c = F[f] \o b
    OBVIOUS
<1>7. OnePlace(b, t, G)
  BY <1>1, <1>2, <1>4, <1>5, NoneThere DEF OnePlace
<1>8. OnePlace(c, s, G)
  BY <1>1, <1>3, <1>4, <1>6, NoneThere DEF OnePlace
<1>9. UnderWay(F) = UnderWay(G) \cup Batch(F[f])
  <2>1. UnderWay(F) \cup Batch(G[f]) = UnderWay(G) \cup Batch(F[f])
    BY <1>4, BatchChanged
  <2>2. Batch(G[f]) = {}
    BY <1>4, NoneThere
  <2> QED BY <2>1, <2>2
<1>10. All(b, t, G) = All(b, s, F)
  BY <1>2, <1>5, <1>9 DEF All
<1>11. All(c, s, G) = All(b, s, F)
  BY <1>3, <1>6, <1>9 DEF All
<1> QED BY <1>5, <1>6, <1>7, <1>8, <1>10, <1>11

(* The buffer becomes a batch of its own, if there is anything in it.      *)
LEMMA Taken ==
    ASSUME NEW b, NEW s, OnePlace(b, s, flush), Interact!TakeBatch(b)
    PROVE  OnePlace(buffer', s, flush') /\ All(buffer', s, flush') = All(b, s, flush)
<1>1. CASE b = <<>>
  BY <1>1 DEF Interact!TakeBatch
<1>2. CASE b # <<>>
  <2>1. PICK f \in Flushes : flush[f] = <<>> /\ flush' = [flush EXCEPT ![f] = b] /\ buffer' = <<>>
    BY <1>2 DEF Interact!TakeBatch
  <2>2. b \in Seq(Nat) /\ flush \in [Flushes -> Seq(Nat)]
    BY DEF OnePlace
  <2>3. /\ flush' \in [Flushes -> Seq(Nat)] /\ flush'[f] = b
        /\ \A g \in Flushes : g # f => flush'[g] = flush[g]
    BY <2>1, <2>2
  <2>4. buffer' = <<>> /\ flush[f] = buffer'
    BY <2>1
  <2> QED BY <2>3, <2>4, BatchTaken
<1> QED BY <1>1, <1>2

(* Every operation keeps each interaction in its one place.                *)
LEMMA InteractNext ==
    ASSUME InteractInv,
           \/ Interact!TrackInteraction \/ Interact!FlushInterval \/ Interact!ClearBuffer
           \/ \E f \in Flushes : Interact!InsertBatch(f) \/ Interact!FlushFails(f)
           \/ \E n \in 1..MaxTracked : Interact!UpdateItemCounters(n)
           \/ UNCHANGED interactionVars
    PROVE  InteractInv'
<1>1. OnePlace(buffer, stored, flush) /\ kind \in Seq(Interact!InteractionTypes)
  BY DEF InteractInv
<1>2. CASE Interact!TrackInteraction
  <2>1. PICK t \in Interact!InteractionTypes : kind' = Append(kind, t)
    BY <1>2 DEF Interact!TrackInteraction
  <2>2. PICK n \in Nat : n = Len(kind) + 1
    BY <1>1
  <2>3. /\ kind' \in Seq(Interact!InteractionTypes) /\ Len(kind') = n /\ n \notin 1..Len(kind)
        /\ 1..n = 1..Len(kind) \cup {n}
    BY <1>1, <2>1, <2>2
  <2>4. n \notin All(buffer, stored, flush)
    BY <2>3 DEF InteractInv
  <2>5. PICK b : b = Append(buffer, n)
      OBVIOUS
  <2>6. b \in Seq(Nat) /\ Batch(b) = Batch(buffer) \cup {n} /\ Once(b)
    BY <1>1, <2>4, <2>5, Added DEF OnePlace, All
  <2>7. OnePlace(b, stored, flush)
    <3>1. \A f \in Flushes : n \notin Batch(flush[f])
      BY <2>4 DEF All, UnderWay
    <3> QED BY <1>1, <2>4, <2>6, <3>1 DEF OnePlace, All
  <2>8. All(b, stored, flush) = All(buffer, stored, flush) \cup {n}
    BY <2>6 DEF All
  <2>9. OnePlace(buffer', stored, flush') /\ All(buffer', stored, flush') = All(b, stored, flush)
    <3>1. Interact!TakeBatch(b) \/ (buffer' = b /\ flush' = flush)
      BY <1>2, <2>2, <2>5 DEF Interact!TrackInteraction
    <3> QED BY <2>7, <3>1, Taken
  <2>10. stored' = stored /\ cleared' = cleared
    BY <1>2 DEF Interact!TrackInteraction
  <2> QED BY <2>3, <2>8, <2>9, <2>10 DEF InteractInv
<1>3. CASE Interact!FlushInterval
  <2>1. OnePlace(buffer', stored, flush') /\ All(buffer', stored, flush') = All(buffer, stored, flush)
    BY <1>1, <1>3, Taken DEF Interact!FlushInterval
  <2> QED BY <2>1, <1>3 DEF Interact!FlushInterval, InteractInv
<1>4. ASSUME NEW f \in Flushes, Interact!InsertBatch(f) \/ Interact!FlushFails(f)
      PROVE  InteractInv'
  <2>1. OnePlace(buffer', stored', flush') /\ All(buffer', stored', flush') = All(buffer, stored, flush)
    <3>1. flush' = [flush EXCEPT ![f] = <<>>]
      BY <1>4 DEF Interact!InsertBatch, Interact!FlushFails
    <3>5. /\ flush' \in [Flushes -> Seq(Nat)] /\ flush'[f] = <<>>
          /\ \A g \in Flushes : g # f => flush'[g] = flush[g]
      BY <1>1, <3>1, NoneThere DEF OnePlace
    <3>2. /\ OnePlace(buffer, stored \o flush[f], flush')
          /\ All(buffer, stored \o flush[f], flush') = All(buffer, stored, flush)
          /\ OnePlace(flush[f] \o buffer, stored, flush')
          /\ All(flush[f] \o buffer, stored, flush') = All(buffer, stored, flush)
      BY <1>1, <3>5, BatchLeft
    <3>3. CASE Interact!InsertBatch(f)
      BY <3>2, <3>3 DEF Interact!InsertBatch
    <3>4. CASE Interact!FlushFails(f)
      BY <3>2, <3>4 DEF Interact!FlushFails
    <3> QED BY <1>4, <3>3, <3>4
  <2>2. kind' = kind /\ cleared' = cleared
    BY <1>4 DEF Interact!InsertBatch, Interact!FlushFails
  <2> QED BY <2>1, <2>2 DEF InteractInv
<1>5. CASE Interact!ClearBuffer
  <2>1. OnePlace(<<>>, stored, flush) /\ All(<<>>, stored, flush) \subseteq All(buffer, stored, flush)
    BY <1>1, NoneThere DEF OnePlace, All
  <2> QED BY <2>1, <1>5 DEF Interact!ClearBuffer, InteractInv
<1>6. CASE UNCHANGED <<kind, buffer, flush, stored, cleared>>
  BY <1>6 DEF InteractInv
<1>7. UNCHANGED <<kind, buffer, flush, stored, cleared>> \/ Interact!TrackInteraction
      \/ Interact!FlushInterval \/ Interact!ClearBuffer
      \/ \E f \in Flushes : Interact!InsertBatch(f) \/ Interact!FlushFails(f)
  BY DEF Interact!UpdateItemCounters, interactionVars
<1> QED BY <1>2, <1>3, <1>4, <1>5, <1>6, <1>7

(* What a step of any service is for the interactions.                     *)
LEMMA InteractMoves ==
    [Next]_vars =>
        \/ Interact!TrackInteraction \/ Interact!FlushInterval \/ Interact!ClearBuffer
        \/ \E f \in Flushes : Interact!InsertBatch(f) \/ Interact!FlushFails(f)
        \/ \E n \in 1..MaxTracked : Interact!UpdateItemCounters(n)
        \/ UNCHANGED interactionVars
BY Zenon DEF Next, vars, OnItem, OnCache, OnCollection, OnBrand, OnIndex, OnRecommend, OnInteract, OnSearch

(* The invariant of the interactions.                                      *)
LEMMA InteractHolds == Spec => []InteractInv
<1>1. Init => InteractInv
  <2> SUFFICES ASSUME Interact!Init PROVE InteractInv
    BY DEF Init
  <2>1. /\ kind = <<>> /\ buffer = <<>> /\ stored = <<>>
        /\ flush \in [Flushes -> {<<>>}] /\ cleared = FALSE
    BY DEF Interact!Init
  <2>2. OnePlace(buffer, stored, flush)
    BY <2>1, NoneThere DEF OnePlace
  <2>3. All(buffer, stored, flush) = {}
    BY <2>1, NoneThere DEF All, UnderWay
  <2>4. kind \in Seq(Interact!InteractionTypes) /\ 1..Len(kind) = {}
    BY <2>1
  <2> QED BY <2>2, <2>3, <2>4 DEF InteractInv
<1>2. InteractInv /\ [Next]_vars => InteractInv'
  BY InteractMoves, InteractNext
<1> QED BY <1>1, <1>2, PTL DEF Spec

(* No interaction is lost or stored twice: each is in the buffer, in one   *)
(* flush under way or in the table, and there once, however many flushes   *)
(* overlap, fail and put their batches back, unless the buffer was cleared. *)
THEOREM NoInteractionLost == Spec => []NothingLost
<1>1. InteractInv => NothingLost
  <2> SUFFICES ASSUME InteractInv PROVE Interact!NothingLost
    BY DEF NothingLost
  <2>1. \A s : Interact!Range(s) = Batch(s) /\ (Once(s) => Interact!IsInjective(s))
    BY DEF Interact!Range, Interact!IsInjective, Batch, Once
  <2>2. Interact!Tracked = 1..Len(kind)
    BY DEF InteractInv, Interact!Tracked
  <2>3. Interact!InFlight = UnderWay(flush)
    BY <2>1 DEF Interact!InFlight, UnderWay
  <2>4. OnePlace(buffer, stored, flush) /\ (~cleared => All(buffer, stored, flush) = 1..Len(kind))
    BY DEF InteractInv
  <2>5. ~cleared =>
          Interact!Range(buffer) \cup Interact!InFlight \cup Interact!Range(stored) = Interact!Tracked
    BY <2>1, <2>2, <2>3, <2>4 DEF All
  <2>6. \A s \in {buffer, stored} \cup {flush[f] : f \in Flushes} : Interact!IsInjective(s)
    BY <2>1, <2>4 DEF OnePlace
  <2>7. Interact!Range(buffer) \cap Interact!Range(stored) = {}
    BY <2>1, <2>4 DEF OnePlace
  <2>8. \A f \in Flushes :
          /\ Interact!Range(flush[f]) \cap (Interact!Range(buffer) \cup Interact!Range(stored)) = {}
          /\ \A g \in Flushes \ {f} : Interact!Range(flush[f]) \cap Interact!Range(flush[g]) = {}
    BY <2>1, <2>4 DEF OnePlace
  <2> QED BY <2>5, <2>6, <2>7, <2>8 DEF Interact!NothingLost
<1> QED BY <1>1, InteractHolds, PTL

(***************************************************************************)
(* Sets in the order of a relation: recommendations and search results.    *)
(***************************************************************************)
Orders(R, S) ==
    /\ \A x \in S : <<x, x>> \notin R
    /\ \A x, y \in S : x = y \/ <<x, y>> \in R \/ <<y, x>> \in R
    /\ \A x, y, z \in S : <<x, y>> \in R /\ <<y, z>> \in R => <<x, z>> \in R
Before(x, S, R) == {y \in S : <<y, x>> \in R}
Enumerates(q, S, R) ==
    /\ q \in [1..Cardinality(S) -> S]
    /\ \A x \in S : \E k \in 1..Cardinality(S) : q[k] = x
    /\ \A j, k \in 1..Cardinality(S) : j < k => <<q[j], q[k]>> \in R
    /\ \A j, k \in 1..Cardinality(S) : q[j] = q[k] => j = k

(* What comes earlier has fewer before it.                                 *)
LEMMA RanksGrow ==
    ASSUME NEW S, IsFiniteSet(S), NEW R, Orders(R, S), NEW x \in S, NEW y \in S, <<x, y>> \in R
    PROVE  Cardinality(Before(x, S, R)) < Cardinality(Before(y, S, R))
<1>1. PICK B : B = Before(x, S, R)
    OBVIOUS
<1>2. PICK D : D = Before(y, S, R)
    OBVIOUS
<1>3. x \notin B /\ B \cup {x} \in SUBSET D /\ B \subseteq S /\ D \subseteq S
  BY <1>1, <1>2 DEF Before, Orders
<1>4. IsFiniteSet(B) /\ IsFiniteSet(D)
  BY <1>3, FS_Subset
<1>5. Cardinality(B \cup {x}) = Cardinality(B) + 1 /\ Cardinality(B \cup {x}) <= Cardinality(D)
  BY <1>3, <1>4, FS_AddElement, FS_Subset
<1>6. Cardinality(B) \in Nat /\ Cardinality(D) \in Nat
  BY <1>4, FS_CardinalityType
<1> QED BY <1>1, <1>2, <1>5, <1>6

(* How many are before one of n is less than n.                            *)
LEMMA RanksFit ==
    ASSUME NEW S, IsFiniteSet(S), NEW R, Orders(R, S), NEW x \in S
    PROVE  /\ Cardinality(S) \in Nat /\ Cardinality(Before(x, S, R)) \in Nat
           /\ Cardinality(Before(x, S, R)) < Cardinality(S)
<1>1. PICK B : B = Before(x, S, R)
    OBVIOUS
<1>2. x \notin B /\ B \in SUBSET S
  BY <1>1 DEF Before, Orders
<1>3. IsFiniteSet(B) /\ Cardinality(B) <= Cardinality(S) /\ Cardinality(B) # Cardinality(S)
  BY <1>2, FS_Subset
<1>4. Cardinality(B) \in Nat /\ Cardinality(S) \in Nat
  BY <1>3, FS_CardinalityType
<1> QED BY <1>1, <1>3, <1>4

(* Every number of predecessors is somebody's, by the pigeonhole principle.*)
LEMMA EveryRank ==
    ASSUME NEW S, IsFiniteSet(S), NEW R, Orders(R, S), NEW k \in 1..Cardinality(S)
    PROVE  \E x \in S : Cardinality(Before(x, S, R)) = k - 1
<1>1. PICK n \in Nat : n = Cardinality(S)
  BY FS_CardinalityType
<1>2. PICK f : f = [x \in S |-> Cardinality(Before(x, S, R)) + 1]
    OBVIOUS
<1>3. ASSUME NEW x \in S
      PROVE  f[x] \in 1..n /\ f[x] = Cardinality(Before(x, S, R)) + 1 /\ Cardinality(Before(x, S, R)) \in Nat
  BY <1>1, <1>2, RanksFit
<1>4. ASSUME NEW x \in S, NEW y \in S, <<x, y>> \in R PROVE f[x] < f[y]
  BY <1>3, <1>4, RanksGrow
<1>5. \A x, y \in S : f[x] = f[y] => x = y
  <2> SUFFICES ASSUME NEW x \in S, NEW y \in S, f[x] = f[y], x # y PROVE FALSE
      OBVIOUS
  <2>1. f[x] \in Nat /\ f[y] \in Nat
    BY <1>1, <1>3
  <2>2. <<x, y>> \in R \/ <<y, x>> \in R
    BY DEF Orders
  <2>3. f[x] < f[y] \/ f[y] < f[x]
    BY <1>4, <2>2
  <2> QED BY <2>1, <2>3
<1>6. f \in [S -> 1..n]
  BY <1>2, <1>3
<1>7. f \in Injection(S, 1..n)
  BY <1>5, <1>6 DEF Injection, IsInjective
<1>8. IsFiniteSet(1..n) /\ Cardinality(1..n) = n
  BY <1>1, FS_Interval
<1>9. f \in Surjection(S, 1..n)
  BY <1>1, <1>7, <1>8, FS_Injection
<1>10. PICK x \in S : f[x] = k
  BY <1>1, <1>9 DEF Surjection
<1> QED BY <1>3, <1>10

(* Choosing for each number who has as many before goes through them all.  *)
LEMMA InOrderEnumerates ==
    ASSUME NEW S, IsFiniteSet(S), NEW R, Orders(R, S), NEW q,
           (\A k \in 1..Cardinality(S) : q[k] \in S) => q \in [1..Cardinality(S) -> S],
           \A k \in 1..Cardinality(S) : q[k] = CHOOSE x \in S : Cardinality({y \in S : <<y, x>> \in R}) = k - 1
    PROVE  /\ Enumerates(q, S, R)
           /\ \A k \in 1..Cardinality(S) : Cardinality(Before(q[k], S, R)) = k - 1
<1>1. PICK n \in Nat : n = Cardinality(S)
  BY FS_CardinalityType
<1>2. ASSUME NEW k \in 1..n PROVE q[k] \in S /\ Cardinality(Before(q[k], S, R)) = k - 1
  <2>1. q[k] = CHOOSE x \in S : Cardinality(Before(x, S, R)) = k - 1
    BY <1>1 DEF Before
  <2>2. \E x \in S : Cardinality(Before(x, S, R)) = k - 1
    BY <1>1, EveryRank
  <2> QED BY <2>1, <2>2
<1>3. q \in [1..n -> S]
  BY <1>1, <1>2
<1>4. \A j, k \in 1..n : q[j] = q[k] => j = k
  <2> SUFFICES ASSUME NEW j \in 1..n, NEW k \in 1..n, q[j] = q[k] PROVE j = k
      OBVIOUS
  <2>1. j - 1 = k - 1
    BY <1>2
  <2> QED BY <2>1
<1>5. \A j, k \in 1..n : j < k => <<q[j], q[k]>> \in R
  <2> SUFFICES ASSUME NEW j \in 1..n, NEW k \in 1..n, j < k, <<q[j], q[k]>> \notin R PROVE FALSE
      OBVIOUS
  <2>0. j # k
      OBVIOUS
  <2>1. q[j] \in S /\ q[k] \in S /\ q[j] # q[k]
    BY Zenon, <1>2, <1>4, <2>0
  <2>2. <<q[k], q[j]>> \in R
    BY <2>1 DEF Orders
  <2>3. Cardinality(Before(q[k], S, R)) < Cardinality(Before(q[j], S, R))
    BY Zenon, <2>1, <2>2, RanksGrow
  <2>4. k - 1 < j - 1
    BY <1>2, <2>3
  <2> QED BY <2>4
<1>6. ASSUME NEW x \in S PROVE \E k \in 1..n : q[k] = x
  <2>1. PICK k : k = Cardinality(Before(x, S, R)) + 1
      OBVIOUS
  <2>2. k \in 1..n /\ Cardinality(Before(x, S, R)) \in Nat
    BY <1>1, <2>1, RanksFit
  <2>3. q[k] \in S /\ Cardinality(Before(q[k], S, R)) = Cardinality(Before(x, S, R))
    <3>1. q[k] \in S /\ Cardinality(Before(q[k], S, R)) = k - 1
      BY Zenon, <1>2, <2>2
    <3> QED BY <3>1, <2>1, <2>2
  <2>4. ASSUME q[k] # x PROVE FALSE
    <3>1. <<q[k], x>> \in R \/ <<x, q[k]>> \in R
      BY <2>3, <2>4 DEF Orders
    <3>2. \/ Cardinality(Before(q[k], S, R)) < Cardinality(Before(x, S, R))
          \/ Cardinality(Before(x, S, R)) < Cardinality(Before(q[k], S, R))
      BY <2>3, <3>1, RanksGrow
    <3> QED BY <2>2, <2>3, <3>2
  <2> QED BY <2>2, <2>4
<1> QED BY <1>1, <1>2, <1>3, <1>4, <1>5, <1>6 DEF Enumerates

-----------------------------------------------------------------------------
(***************************************************************************)
(* The pages of a search.                                                  *)
(***************************************************************************)
Hit == Search!Matches(walk.wanted)
Found == Search!Sorted(Hit)
UpTo(m) == [k \in 1..m |-> Found[k]]
SearchTypes ==
    /\ indexed \subseteq Documents /\ indexChanges \in 0..MaxIndexChanges /\ waiting \in BOOLEAN
    /\ walk \in [wanted : Wanted, limit : SearchLimits, page : Search!PageNumbers,
                 seen : Seq(Documents), done : BOOLEAN]
    /\ DOMAIN answers = Search!PageNumbers
    /\ \A p \in Search!PageNumbers : \A r \in answers[p] :
         /\ r.items \in Seq(Documents) /\ r.hasNext \in BOOLEAN
         /\ r.hasNext => p + 1 \in Search!PageNumbers
         /\ \A s \in answers[p] : r = s

(* While the index stands, cached answers are those it would give, and the *)
(* client has seen the first hits, up to the page it is at.                *)
PagesFollow ==
    indexChanges = 0 =>
        /\ \A p \in Search!PageNumbers : \A r \in answers[p] : r = Search!Response(p)
        /\ walk.done => walk.seen = Found
        /\ ~walk.done =>
             /\ (walk.page - 1) * walk.limit <= Cardinality(Hit)
             /\ walk.seen = UpTo((walk.page - 1) * walk.limit)
SearchInv == SearchTypes /\ PagesFollow /\ (waiting => ~walk.done)

(* The counting of an instance is that of the library.                     *)
LEMMA SearchCounts ==
    ASSUME NEW S
    PROVE  Search!Cardinality(S) = Cardinality(S) /\ Recommend!Cardinality(S) = Cardinality(S)
BY DEF Search!Cardinality, Recommend!Cardinality, Cardinality

(* Some constants, each by itself.                                         *)
LEMMA SearchNumbers ==
    /\ SearchLimits \subseteq Nat \ {0} /\ MaxIndexChanges \in Nat /\ Documents \subseteq Nat
    /\ IsFiniteSet(Documents) /\ Cardinality(Documents) \in Nat
    /\ \A d \in Documents : DocumentOf[d].relevance \in Nat
    /\ \A p : p \in Search!PageNumbers <=> p \in 1..Cardinality(Documents) + 1
<1>1. Cardinality(Documents) \in Nat
  BY DocumentsAssumption, FS_CardinalityType DEF DocumentsAssumption
<1>2. \A p : p \in Search!PageNumbers <=> p \in 1..Cardinality(Documents) + 1
  BY SearchCounts DEF Search!PageNumbers
<1> QED BY <1>1, <1>2, SizesAssumption, BoundsAssumption, IdsAssumption, DocumentsAssumption
        DEF SizesAssumption, BoundsAssumption, IdsAssumption, DocumentsAssumption

(* The hits are sorted: each comes once, and there are as many as match.   *)
LEMMA SearchSorts ==
    ASSUME indexed \subseteq Documents
    PROVE  /\ Cardinality(Hit) \in Nat /\ Cardinality(Hit) <= Cardinality(Documents)
           /\ Found \in [1..Cardinality(Hit) -> Hit] /\ Hit \subseteq Documents
           /\ \A d \in Hit : \E k \in 1..Cardinality(Hit) : Found[k] = d
<1>1. Hit \in SUBSET Documents
  BY DEF Hit, Search!Matches
<1>2. IsFiniteSet(Hit) /\ Cardinality(Hit) <= Cardinality(Documents)
  BY <1>1, SearchNumbers, FS_Subset
<1>3. Cardinality(Hit) \in Nat
  BY <1>2, FS_CardinalityType
<1>4. PICK R : R = {p \in Hit \X Hit : Search!Precedes(p[1], p[2])}
    OBVIOUS
<1>5. \A d, e \in Hit :
        <<d, e>> \in R <=>
            \/ DocumentOf[d].relevance = DocumentOf[e].relevance /\ d < e
            \/ DocumentOf[d].relevance # DocumentOf[e].relevance /\ DocumentOf[d].relevance > DocumentOf[e].relevance
  BY <1>4 DEF Search!Precedes
<1>6. \A d \in Hit : d \in Nat /\ DocumentOf[d].relevance \in Nat
  BY <1>1, SearchNumbers
<1>7. Orders(R, Hit)
  BY <1>5, <1>6 DEF Orders
<1>8. /\ (\A k \in 1..Cardinality(Hit) : Found[k] \in Hit) => Found \in [1..Cardinality(Hit) -> Hit]
      /\ \A k \in 1..Cardinality(Hit) :
           Found[k] = CHOOSE d \in Hit : Cardinality({e \in Hit : <<e, d>> \in R}) = k - 1
  <2>1. \A d \in Hit : {e \in Hit : <<e, d>> \in R} = {e \in Hit : Search!Precedes(e, d)}
    BY <1>4
  <2>2. \A k : (CHOOSE d \in Hit : Cardinality({e \in Hit : <<e, d>> \in R}) = k - 1)
             = (CHOOSE d \in Hit : Search!Cardinality({e \in Hit : Search!Precedes(e, d)}) = k - 1)
    BY <2>1, SearchCounts
  <2>3. Found = [k \in 1..Search!Cardinality(Hit) |->
                   CHOOSE d \in Hit : Search!Cardinality({e \in Hit : Search!Precedes(e, d)}) = k - 1]
    BY Zenon DEF Found, Search!Sorted
  <2>4. PICK n : n = Cardinality(Hit) /\ n = Search!Cardinality(Hit)
    BY SearchCounts
  <2>5. ASSUME NEW k \in 1..n
        PROVE  Found[k] = CHOOSE d \in Hit : Search!Cardinality({e \in Hit : Search!Precedes(e, d)}) = k - 1
    BY <2>3, <2>4
  <2>6. (\A k \in 1..n : Found[k] \in Hit) => Found \in [1..n -> Hit]
    BY <2>3, <2>4
  <2> QED BY Zenon, <2>2, <2>4, <2>5, <2>6
<1>9. Enumerates(Found, Hit, R)
  BY <1>2, <1>7, <1>8, InOrderEnumerates
<1> QED BY <1>1, <1>2, <1>3, <1>9 DEF Enumerates

(* The first a of a sequence and the next b are the first a + b.           *)
LEMMA FirstAndNext ==
    ASSUME NEW D, NEW n \in Nat, NEW q \in [1..n -> D], NEW a \in Nat, NEW b \in Nat, a + b <= n
    PROVE  /\ [k \in 1..a |-> q[k]] \in Seq(D) /\ [k \in 1..b |-> q[a + k]] \in Seq(D)
           /\ [k \in 1..a |-> q[k]] \o [k \in 1..b |-> q[a + k]] = [k \in 1..a + b |-> q[k]]
<1>1. PICK s : s = [k \in 1..a |-> q[k]]
    OBVIOUS
<1>2. PICK t : t = [k \in 1..b |-> q[a + k]]
    OBVIOUS
<1>3. s \in Seq(D) /\ Len(s) = a
  BY <1>1
<1>4. \A k \in 1..b : a + k \in 1..n
    OBVIOUS
<1>5. t \in Seq(D) /\ Len(t) = b
  BY <1>2, <1>4
<1>6. s \o t \in Seq(D) /\ Len(s \o t) = a + b
  BY <1>3, <1>5
<1>7. ASSUME NEW k \in 1..a + b PROVE (s \o t)[k] = q[k]
  <2>1. CASE k <= a
    BY <2>1, <1>1, <1>3, <1>5
  <2>2. CASE k > a
    <3>1. PICK m \in 1..b : k = a + m
      BY <2>2
    <3>2. (s \o t)[k] = t[m]
      BY <3>1, <1>3, <1>5
    <3>3. t[m] = q[a + m]
      BY <1>2
    <3> QED BY Zenon, <3>1, <3>2, <3>3
  <2>3. k <= a \/ k > a
      OBVIOUS
  <2> QED BY Zenon, <2>1, <2>2, <2>3
<1>8. s \o t = [k \in 1..a + b |-> q[k]]
  <2>1. PICK w \in Seq(D) : w = s \o t /\ Len(w) = a + b
    BY <1>6
  <2>2. w \in [1..a + b -> D]
    <3>1. w \in [1..Len(w) -> D]
        OBVIOUS
    <3> QED BY Zenon, <2>1, <3>1
  <2>3. \A k \in 1..a + b : w[k] = q[k]
    BY <1>7, <2>1
  <2>4. w = [k \in 1..a + b |-> q[k]]
    BY <2>2, <2>3
  <2> QED BY <2>1, <2>4
<1> QED BY <1>1, <1>2, <1>3, <1>5, <1>8

(* There is a page after page p exactly if the first p are not all.        *)
LEMMA PageAfter ==
    ASSUME NEW n \in Nat, NEW l \in Nat \ {0}, NEW p \in Nat
    PROVE  /\ p < Search!CeilDiv(n, l) <=> p * l < n
           /\ p * l \in Nat /\ Search!CeilDiv(n, l) \in Nat /\ Search!CeilDiv(n, l) <= n
<1>1. PICK c \in Nat : c = Search!CeilDiv(n, l) /\ c * l <= n + l - 1 /\ n + l - 1 < c * l + l
  <2>1. n + l - 1 \in Nat
      OBVIOUS
  <2> QED BY <2>1, Quotient DEF Search!CeilDiv
<1>2. c * l \in Nat /\ p * l \in Nat
    OBVIOUS
<1>3. ASSUME p < c PROVE p * l < n
  <2>1. (p + 1) * l <= c * l /\ (p + 1) * l = p * l + l
    BY <1>3
  <2> QED BY <1>1, <1>2, <2>1
<1>4. ASSUME c <= p PROVE ~(p * l < n)
  <2>1. c * l <= p * l
    BY <1>4
  <2> QED BY <1>1, <1>2, <2>1
<1>5. c <= n
  <2>1. CASE n = 0
    <3>1. CASE c = 0
      BY <3>1
    <3>2. CASE c >= 1
      <4>1. l <= c * l
        BY <3>2
      <4> QED BY <4>1, <1>1, <2>1
    <3> QED BY <3>1, <3>2
  <2>2. CASE n >= 1
    <3>1. n + l - 1 <= n * l
      <4>1. PICK m \in Nat : n = m + 1
        BY <2>2
      <4>2. n * l = m * l + l /\ m <= m * l
        BY <4>1
      <4> QED BY <4>1, <4>2
    <3>2. ASSUME n < c PROVE FALSE
      <4>1. (n + 1) * l <= c * l /\ (n + 1) * l = n * l + l /\ n * l \in Nat
        BY <3>2
      <4> QED BY <4>1, <3>1, <1>1, <1>2
    <3> QED BY <3>2
  <2> QED BY <2>1, <2>2
<1>6. p < c <=> p * l < n
  BY <1>2, <1>3, <1>4
<1> QED BY <1>1, <1>2, <1>5, <1>6

(* What Elasticsearch answers for a page, while the client has seen the    *)
(* pages before it.                                                        *)
LEMMA PageAnswered ==
    ASSUME indexed \subseteq Documents, NEW p \in Nat \ {0}, walk.limit \in Nat \ {0}
    PROVE  /\ Search!Response(p).items \in Seq(Documents) /\ Search!Response(p).hasNext \in BOOLEAN
           /\ Search!Response(p).hasNext => p < Cardinality(Documents) /\ p * walk.limit <= Cardinality(Hit)
           /\ (p - 1) * walk.limit <= Cardinality(Hit) =>
                UpTo((p - 1) * walk.limit) \o Search!Response(p).items =
                    IF Search!Response(p).hasNext THEN UpTo(p * walk.limit) ELSE Found
<1>1. PICK n \in Nat : n = Cardinality(Hit) /\ n = Search!Cardinality(Hit) /\ n <= Cardinality(Documents)
  BY SearchSorts, SearchCounts
<1>2. PICK q \in [1..n -> Hit] : q = Found
  BY <1>1, SearchSorts
<1>3. PICK l \in Nat \ {0} : l = walk.limit
    OBVIOUS
<1>4. PICK f \in Nat : f = (p - 1) * l /\ f + l = p * l
  <2>1. p - 1 \in Nat /\ (p - 1) * l \in Nat /\ (p - 1) * l + l = p * l
    BY <1>3
  <2> QED BY <2>1
<1>5. Hit \subseteq Documents /\ Len(q) = n
  BY SearchSorts
<1>6. PICK b : b = Search!MinOf(l, n - f)
    OBVIOUS
<1>7. b = IF l < n - f THEN l ELSE n - f
  BY <1>6 DEF Search!MinOf
<1>8. Search!Response(p).items = [k \in 1..b |-> q[f + k]]
  BY <1>2, <1>3, <1>4, <1>5, <1>6
  DEF Search!Response, Search!buildElasticsearchQuery, Search!Hits, Found, Hit
<1>9. Search!Response(p).hasNext <=> p * l < n
  BY <1>1, <1>3, PageAfter DEF Search!Response, Hit
<1>10. Search!Response(p).hasNext \in BOOLEAN
  BY DEF Search!Response
<1>11. Search!Response(p).items \in Seq(Documents)
  <2>1. CASE b <= 0
    <3>1. [k \in 1..b |-> q[f + k]] = <<>>
      BY <1>7, <2>1
    <3>2. <<>> \in Seq(Documents)
        OBVIOUS
    <3> QED BY Zenon, <1>8, <3>1, <3>2
  <2>2. CASE b >= 1
    <3>1. b \in Nat /\ f + b <= n
      BY <1>7, <2>2
    <3> QED BY <1>5, <1>8, <3>1, FirstAndNext
  <2> QED BY <1>7, <2>1, <2>2
<1>12. Search!Response(p).hasNext => p < Cardinality(Documents)
  <2>1. Search!Response(p).hasNext => p < Search!CeilDiv(n, l) /\ Search!CeilDiv(n, l) <= n /\ Search!CeilDiv(n, l) \in Nat
    BY <1>9, PageAfter
  <2> QED BY <2>1, <1>1, SearchNumbers
<1>13. ASSUME f <= n
       PROVE  UpTo(f) \o Search!Response(p).items = IF Search!Response(p).hasNext THEN UpTo(p * l) ELSE Found
  <2>1. b \in Nat /\ f + b <= n /\ (p * l < n => f + b = p * l) /\ (~(p * l < n) => f + b = n)
    BY <1>4, <1>7, <1>13
  <2>2. UpTo(f) \o Search!Response(p).items = UpTo(f + b)
    BY <1>2, <1>8, <2>1, FirstAndNext DEF UpTo
  <2>3. UpTo(n) = Found
    BY <1>2 DEF UpTo
  <2> QED BY <1>9, <2>1, <2>2, <2>3
<1>14. Search!Response(p).hasNext => p * walk.limit <= Cardinality(Hit)
  <2>1. p * l < n => p * l <= n
    BY <1>4
  <2> QED BY Zenon, <1>1, <1>3, <1>9, <2>1
<1> QED BY Zenon, <1>1, <1>3, <1>4, <1>10, <1>11, <1>12, <1>13, <1>14

(* Nothing but the filters, the limit and the index matters to the hits    *)
(* and to the answers.                                                     *)
LEMMA SearchSteady ==
    ASSUME indexed' = indexed, walk'.wanted = walk.wanted, walk'.limit = walk.limit
    PROVE  Hit' = Hit /\ Found' = Found /\ \A p : (Search!Response(p))' = Search!Response(p)
<1>1. Hit' = Hit
  BY DEF Hit, Search!Matches
<1>2. Found' = Found
  BY Zenon, <1>1 DEF Found
<1>3. ASSUME NEW p PROVE (Search!Response(p))' = Search!Response(p)
  <2>1. (Search!Matches(walk.wanted))' = Search!Matches(walk.wanted)
    BY <1>1 DEF Hit
  <2>2. (Search!Hits((p - 1) * walk.limit, walk.limit, walk.wanted))'
          = Search!Hits((p - 1) * walk.limit, walk.limit, walk.wanted)
    BY Zenon, <2>1 DEF Search!Hits
  <2> QED BY Zenon, <2>1, <2>2 DEF Search!Response, Search!buildElasticsearchQuery
<1> QED BY Zenon, <1>1, <1>2, <1>3

(* A walk starts with nothing seen and nothing answered.                   *)
LEMMA SearchInit == Search!Init => SearchInv
<1> SUFFICES ASSUME Search!Init PROVE SearchInv
    OBVIOUS
<1>1. PICK limit \in SearchLimits, wanted \in Wanted :
        walk = [wanted |-> wanted, limit |-> limit, page |-> 1, seen |-> <<>>, done |-> FALSE]
  BY DEF Search!Init
<1>2. /\ indexed \subseteq Documents /\ indexChanges = 0 /\ waiting = FALSE
      /\ answers = [p \in Search!PageNumbers |-> {}]
  BY DEF Search!Init
<1>3. 1 \in Search!PageNumbers
  BY SearchNumbers
<1>4. walk \in [wanted : Wanted, limit : SearchLimits, page : Search!PageNumbers,
                seen : Seq(Documents), done : BOOLEAN]
  BY <1>1, <1>3
<1>5. SearchTypes
  <2>1. DOMAIN answers = Search!PageNumbers /\ \A p \in Search!PageNumbers : answers[p] = {}
    BY <1>2
  <2>2. indexChanges \in 0..MaxIndexChanges
    BY <1>2, SearchNumbers
  <2>3. waiting \in BOOLEAN
    BY Zenon, <1>2
  <2> QED BY Zenon, <1>2, <1>4, <2>1, <2>2, <2>3 DEF SearchTypes
<1>6. PagesFollow
  <2>1. walk.done = FALSE /\ walk.seen = <<>> /\ (walk.page - 1) * walk.limit = 0
    BY <1>1, SearchNumbers
  <2>2. UpTo(0) = <<>>
    BY DEF UpTo
  <2>3. 0 <= Cardinality(Hit)
    BY <1>2, SearchSorts
  <2>4. \A p \in Search!PageNumbers : answers[p] = {}
    BY <1>2
  <2> QED BY Zenon, <2>1, <2>2, <2>3, <2>4 DEF PagesFollow
<1> QED BY <1>1, <1>2, <1>5, <1>6 DEF SearchInv

(* The client takes an answer in: it is at the next page, or has it all.   *)
LEMMA SearchServes ==
    ASSUME SearchTypes, PagesFollow, ~walk.done, indexed' = indexed,
           NEW r, Search!Serve(r), r.items \in Seq(Documents), r.hasNext \in BOOLEAN,
           r.hasNext => walk.page + 1 \in Search!PageNumbers,
           indexChanges = 0 => r = Search!Response(walk.page)
    PROVE  /\ walk' \in [wanted : Wanted, limit : SearchLimits, page : Search!PageNumbers,
                         seen : Seq(Documents), done : BOOLEAN]
           /\ walk'.wanted = walk.wanted /\ walk'.limit = walk.limit
           /\ indexChanges = 0 =>
                /\ walk'.done => walk'.seen = Found
                /\ ~walk'.done =>
                     /\ (walk'.page - 1) * walk'.limit <= Cardinality(Hit)
                     /\ walk'.seen = UpTo((walk'.page - 1) * walk'.limit)
<1>1. walk \in [wanted : Wanted, limit : SearchLimits, page : Search!PageNumbers,
                seen : Seq(Documents), done : BOOLEAN]
  BY DEF SearchTypes
<1>2. walk' = [walk EXCEPT !.seen = walk.seen \o r.items, !.done = ~r.hasNext,
                           !.page = IF r.hasNext THEN walk.page + 1 ELSE walk.page]
  BY DEF Search!Serve
<1>3. walk.seen \o r.items \in Seq(Documents)
  BY <1>1
<1>4. /\ walk'.wanted = walk.wanted /\ walk'.limit = walk.limit /\ walk'.done = ~r.hasNext
      /\ walk'.seen = walk.seen \o r.items
      /\ walk'.page = IF r.hasNext THEN walk.page + 1 ELSE walk.page
      /\ walk' \in [wanted : Wanted, limit : SearchLimits, page : Search!PageNumbers,
                    seen : Seq(Documents), done : BOOLEAN]
  BY <1>1, <1>2, <1>3
<1>5. ASSUME indexChanges = 0
      PROVE  /\ walk'.done => walk'.seen = Found
             /\ ~walk'.done =>
                  /\ (walk'.page - 1) * walk'.limit <= Cardinality(Hit)
                  /\ walk'.seen = UpTo((walk'.page - 1) * walk'.limit)
  <2>1. PICK p \in Nat \ {0} : p = walk.page
    BY <1>1, SearchNumbers
  <2>2. PICK l \in Nat \ {0} : l = walk.limit
    BY <1>1, SearchNumbers
  <2>3. (p - 1) * walk.limit <= Cardinality(Hit) /\ walk.seen = UpTo((p - 1) * walk.limit)
    BY <1>5, <2>1 DEF PagesFollow
  <2>4. /\ r = Search!Response(p)
        /\ Search!Response(p).hasNext => p * walk.limit <= Cardinality(Hit)
        /\ UpTo((p - 1) * walk.limit) \o Search!Response(p).items =
             IF Search!Response(p).hasNext THEN UpTo(p * walk.limit) ELSE Found
    BY <1>5, <2>1, <2>2, <2>3, PageAnswered DEF SearchTypes
  <2>5. walk'.seen = IF r.hasNext THEN UpTo(p * walk.limit) ELSE Found
    BY Zenon, <1>4, <2>3, <2>4
  <2>6. r.hasNext => walk'.page - 1 = p
    BY <1>4, <2>1
  <2> QED BY Zenon, <1>4, <2>4, <2>5, <2>6
<1> QED BY <1>4, <1>5

(* The invariant of the search speaks of its own state only.               *)
LEMMA SearchRests == SearchInv /\ UNCHANGED searchVars => SearchInv'
<1> SUFFICES ASSUME SearchInv, UNCHANGED searchVars PROVE SearchInv'
    OBVIOUS
<1>1. indexed' = indexed /\ answers' = answers /\ walk' = walk /\ waiting' = waiting /\ indexChanges' = indexChanges
  BY DEF searchVars
<1>2. Found' = Found /\ Hit' = Hit /\ \A p : (Search!Response(p))' = Search!Response(p)
  BY <1>1, SearchSteady
<1>3. SearchTypes'
  BY Zenon, <1>1 DEF SearchInv, SearchTypes
<1>4. PagesFollow'
  BY Zenon, <1>1, <1>2 DEF SearchInv, PagesFollow, UpTo
<1> QED BY Zenon, <1>1, <1>3, <1>4 DEF SearchInv

(* An answer is taken from the cache, or asked for and then cached.        *)
LEMMA SearchReads ==
    SearchInv /\ (Search!SearchCached \/ Search!Ask \/ Search!Search) => SearchInv'
<1> SUFFICES ASSUME SearchInv, Search!SearchCached \/ Search!Ask \/ Search!Search PROVE SearchInv'
    OBVIOUS
<1>1. SearchTypes /\ PagesFollow /\ (waiting => ~walk.done)
  BY DEF SearchInv
<1>2. /\ walk \in [wanted : Wanted, limit : SearchLimits, page : Search!PageNumbers,
                   seen : Seq(Documents), done : BOOLEAN]
      /\ DOMAIN answers = Search!PageNumbers /\ indexed \subseteq Documents
  BY <1>1 DEF SearchTypes
<1>3. CASE Search!SearchCached
  <2>1. PICK r \in answers[walk.page] : Search!Serve(r)
    BY <1>3 DEF Search!SearchCached
  <2>2. /\ ~walk.done /\ indexed' = indexed /\ answers' = answers /\ waiting' = waiting
        /\ indexChanges' = indexChanges /\ ~waiting
    BY <1>3 DEF Search!SearchCached
  <2>3. PICK p \in Search!PageNumbers : p = walk.page
    BY <1>2
  <2>4. /\ r.items \in Seq(Documents) /\ r.hasNext \in BOOLEAN
        /\ r.hasNext => walk.page + 1 \in Search!PageNumbers
    BY Zenon, <1>1, <2>1, <2>3 DEF SearchTypes
  <2>5. indexChanges = 0 => r = Search!Response(walk.page)
    BY Zenon, <1>1, <2>1, <2>3 DEF PagesFollow
  <2>6. /\ walk' \in [wanted : Wanted, limit : SearchLimits, page : Search!PageNumbers,
                      seen : Seq(Documents), done : BOOLEAN]
        /\ walk'.wanted = walk.wanted /\ walk'.limit = walk.limit
        /\ indexChanges = 0 =>
             /\ walk'.done => walk'.seen = Found
             /\ ~walk'.done =>
                  /\ (walk'.page - 1) * walk'.limit <= Cardinality(Hit)
                  /\ walk'.seen = UpTo((walk'.page - 1) * walk'.limit)
    BY Zenon, <1>1, <2>1, <2>2, <2>4, <2>5, SearchServes
  <2>7. Hit' = Hit /\ Found' = Found /\ \A q : (Search!Response(q))' = Search!Response(q)
    BY Zenon, <2>2, <2>6, SearchSteady
  <2>8. SearchTypes'
    BY Zenon, <1>1, <2>2, <2>6 DEF SearchTypes
  <2>9. PagesFollow'
    BY Zenon, <1>1, <2>2, <2>6, <2>7 DEF PagesFollow, UpTo
  <2> QED BY Zenon, <2>2, <2>8, <2>9 DEF SearchInv
<1>4. CASE Search!Ask
  <2>1. /\ indexed' = indexed /\ answers' = answers /\ walk' = walk /\ waiting' = TRUE
        /\ indexChanges' = indexChanges /\ ~walk.done
    BY <1>4 DEF Search!Ask
  <2>2. Hit' = Hit /\ Found' = Found /\ \A q : (Search!Response(q))' = Search!Response(q)
    BY <2>1, SearchSteady
  <2>3. SearchTypes'
    BY Zenon, <1>1, <2>1 DEF SearchTypes
  <2>4. PagesFollow'
    BY Zenon, <1>1, <2>1, <2>2 DEF PagesFollow, UpTo
  <2> QED BY Zenon, <2>1, <2>3, <2>4 DEF SearchInv
<1>5. CASE Search!Search
  <2>1. /\ waiting /\ waiting' = FALSE /\ indexed' = indexed /\ indexChanges' = indexChanges
        /\ answers' = [answers EXCEPT ![walk.page] = {Search!Response(walk.page)}]
        /\ Search!Serve(Search!Response(walk.page))
    BY <1>5 DEF Search!Search
  <2>2. PICK p \in Nat \ {0} : p = walk.page /\ p \in Search!PageNumbers
    BY <1>2, SearchNumbers
  <2>3. PICK r : r = Search!Response(p)
      OBVIOUS
  <2>4. r.items \in Seq(Documents) /\ r.hasNext \in BOOLEAN /\ (r.hasNext => p < Cardinality(Documents))
    <3>1. walk.limit \in Nat \ {0}
      BY <1>2, SearchNumbers
    <3> QED BY Zenon, <1>2, <2>3, <3>1, PageAnswered
  <2>5. r.hasNext => p + 1 \in Search!PageNumbers
    BY <2>2, <2>4, SearchNumbers
  <2>6. /\ walk' \in [wanted : Wanted, limit : SearchLimits, page : Search!PageNumbers,
                      seen : Seq(Documents), done : BOOLEAN]
        /\ walk'.wanted = walk.wanted /\ walk'.limit = walk.limit
        /\ indexChanges = 0 =>
             /\ walk'.done => walk'.seen = Found
             /\ ~walk'.done =>
                  /\ (walk'.page - 1) * walk'.limit <= Cardinality(Hit)
                  /\ walk'.seen = UpTo((walk'.page - 1) * walk'.limit)
    BY Zenon, <1>1, <2>1, <2>2, <2>3, <2>4, <2>5, SearchServes
  <2>7. Hit' = Hit /\ Found' = Found /\ \A q : (Search!Response(q))' = Search!Response(q)
    BY Zenon, <2>1, <2>6, SearchSteady
  <2>8. /\ DOMAIN answers' = Search!PageNumbers /\ answers'[p] = {r}
        /\ \A q \in Search!PageNumbers : q # p => answers'[q] = answers[q]
    BY <1>2, <2>1, <2>2, <2>3
  <2>9. ASSUME NEW q \in Search!PageNumbers, NEW s \in answers'[q]
        PROVE  /\ s.items \in Seq(Documents) /\ s.hasNext \in BOOLEAN
               /\ s.hasNext => q + 1 \in Search!PageNumbers
               /\ \A t \in answers'[q] : s = t
               /\ indexChanges = 0 => s = Search!Response(q)
    <3>1. CASE q = p
      BY Zenon, <3>1, <2>3, <2>4, <2>5, <2>8, <2>9
    <3>2. CASE q # p
      <4>1. answers'[q] = answers[q] /\ s \in answers[q]
        BY <3>2, <2>8, <2>9
      <4> QED BY Zenon, <4>1, <1>1 DEF SearchTypes, PagesFollow
    <3> QED BY <3>1, <3>2
  <2>10. SearchTypes'
    <3>1. indexed' \subseteq Documents /\ indexChanges' \in 0..MaxIndexChanges /\ waiting' \in BOOLEAN
      BY Zenon, <1>1, <2>1 DEF SearchTypes
    <3> QED BY Zenon, <2>6, <2>8, <2>9, <3>1 DEF SearchTypes
  <2>11. PagesFollow'
    BY Zenon, <2>1, <2>6, <2>7, <2>9 DEF PagesFollow, UpTo
  <2> QED BY Zenon, <2>1, <2>10, <2>11 DEF SearchInv
<1> QED BY <1>3, <1>4, <1>5

(* Another client starts, the index changes, cached answers go.            *)
LEMMA SearchMeanwhile ==
    SearchInv /\ (Search!StartOver \/ Search!IndexChanges \/ Search!ExpireAnswer \/ Search!ClearCache)
        => SearchInv'
<1> SUFFICES ASSUME SearchInv,
                    Search!StartOver \/ Search!IndexChanges \/ Search!ExpireAnswer \/ Search!ClearCache
             PROVE  SearchInv'
    OBVIOUS
<1>1. SearchTypes /\ PagesFollow /\ (waiting => ~walk.done)
  BY DEF SearchInv
<1>2. /\ walk \in [wanted : Wanted, limit : SearchLimits, page : Search!PageNumbers,
                   seen : Seq(Documents), done : BOOLEAN]
      /\ DOMAIN answers = Search!PageNumbers /\ indexed \subseteq Documents
      /\ indexChanges \in 0..MaxIndexChanges /\ waiting \in BOOLEAN
  BY <1>1 DEF SearchTypes
<1>3. CASE Search!StartOver
  <2>1. /\ walk.done /\ walk' = [walk EXCEPT !.page = 1, !.seen = <<>>, !.done = FALSE]
        /\ indexed' = indexed /\ answers' = answers /\ waiting' = waiting /\ indexChanges' = indexChanges
    BY <1>3 DEF Search!StartOver
  <2>2. 1 \in Search!PageNumbers
    BY SearchNumbers
  <2>3. /\ walk' \in [wanted : Wanted, limit : SearchLimits, page : Search!PageNumbers,
                      seen : Seq(Documents), done : BOOLEAN]
        /\ walk'.wanted = walk.wanted /\ walk'.limit = walk.limit /\ walk'.done = FALSE
        /\ walk'.seen = <<>> /\ walk'.page = 1
    <3>1. PICK w : w = walk'
        OBVIOUS
    <3>2. w \in [wanted : Wanted, limit : SearchLimits, page : Search!PageNumbers,
                 seen : Seq(Documents), done : BOOLEAN]
      <4>1. PICK s \in Seq(Documents) : s = <<>>
        <5>1. <<>> \in Seq(Documents)
            OBVIOUS
        <5> QED BY Zenon, <5>1
      <4>2. PICK d \in BOOLEAN : d = FALSE
        BY Zenon
      <4>3. w = [walk EXCEPT !.page = 1, !.seen = s, !.done = d]
        BY <2>1, <3>1, <4>1, <4>2
      <4> QED BY <1>2, <2>2, <4>3
    <3>3. w.wanted = walk.wanted /\ w.limit = walk.limit /\ w.seen = <<>> /\ w.page = 1
      BY <1>2, <2>1, <3>1
    <3>4. w.done = FALSE
      BY <1>2, <2>1, <3>1
    <3> QED BY Zenon, <3>1, <3>2, <3>3, <3>4
  <2>4. Hit' = Hit /\ Found' = Found /\ \A q : (Search!Response(q))' = Search!Response(q)
    BY Zenon, <2>1, <2>3, SearchSteady
  <2>5. SearchTypes'
    BY Zenon, <1>1, <2>1, <2>3 DEF SearchTypes
  <2>6. PagesFollow'
    <3>1. (walk'.page - 1) * walk'.limit = 0
      <4>1. PICK l \in Nat : l = walk'.limit
        BY <1>2, <2>3, SearchNumbers
      <4> QED BY <2>3, <4>1
    <3>2. 0 <= Cardinality(Hit) /\ UpTo(0) = <<>>
      BY <1>2, SearchSorts DEF UpTo
    <3> QED BY Zenon, <1>1, <2>1, <2>3, <2>4, <3>1, <3>2 DEF PagesFollow, UpTo
  <2> QED BY Zenon, <1>1, <2>1, <2>3, <2>5, <2>6 DEF SearchInv
<1>4. CASE Search!IndexChanges
  <2>1. /\ indexChanges < MaxIndexChanges /\ indexChanges' = indexChanges + 1
        /\ answers' = answers /\ walk' = walk /\ waiting' = waiting
    BY <1>4 DEF Search!IndexChanges
  <2>2. indexed' \subseteq Documents
    BY <1>2, <1>4 DEF Search!IndexChanges
  <2>3. indexChanges' \in 0..MaxIndexChanges /\ indexChanges' # 0
    BY <1>2, <2>1, SearchNumbers
  <2>4. SearchTypes'
    BY Zenon, <1>1, <2>1, <2>2, <2>3 DEF SearchTypes
  <2> QED BY Zenon, <1>1, <2>1, <2>3, <2>4 DEF SearchInv, PagesFollow
<1>5. CASE Search!ExpireAnswer \/ Search!ClearCache
  <2>1. indexed' = indexed /\ walk' = walk /\ waiting' = waiting /\ indexChanges' = indexChanges
    BY <1>5 DEF Search!ExpireAnswer, Search!ClearCache
  <2>2. /\ DOMAIN answers' = Search!PageNumbers
        /\ \A p \in Search!PageNumbers : answers'[p] = {} \/ answers'[p] = answers[p]
    BY <1>2, <1>5 DEF Search!ExpireAnswer, Search!ClearCache
  <2>3. Hit' = Hit /\ Found' = Found /\ \A q : (Search!Response(q))' = Search!Response(q)
    BY Zenon, <2>1, SearchSteady
  <2>4. SearchTypes'
    BY Zenon, <1>1, <2>1, <2>2 DEF SearchTypes
  <2>5. PagesFollow'
    BY Zenon, <1>1, <2>1, <2>2, <2>3 DEF PagesFollow, UpTo
  <2> QED BY Zenon, <1>1, <2>1, <2>4, <2>5 DEF SearchInv
<1> QED BY <1>3, <1>4, <1>5

(* What a step of any service is for the search.                           *)
LEMMA SearchMoves ==
    [Next]_vars =>
        \/ Search!SearchCached \/ Search!Ask \/ Search!Search
        \/ Search!StartOver \/ Search!IndexChanges \/ Search!ExpireAnswer \/ Search!ClearCache
        \/ UNCHANGED searchVars
BY Zenon DEF Next, vars, OnItem, OnCache, OnCollection, OnBrand, OnIndex, OnRecommend, OnInteract, OnSearch

(* The invariant of the search.                                            *)
LEMMA SearchHolds == Spec => []SearchInv
<1>1. Init => SearchInv
  BY SearchInit DEF Init
<1>2. SearchInv /\ [Next]_vars => SearchInv'
  BY Zenon, SearchMoves, SearchReads, SearchMeanwhile, SearchRests
<1> QED BY <1>1, <1>2, PTL DEF Spec

(* Who has walked the pages has seen each hit, and once.                   *)
LEMMA SearchComplete == SearchInv => Search!AllPagesAllHits
<1> SUFFICES ASSUME SearchInv, walk.done, indexChanges = 0
             PROVE  /\ Search!Range(walk.seen) = Search!Matches(walk.wanted)
                    /\ Len(walk.seen) = Search!Cardinality(Search!Matches(walk.wanted))
  BY DEF Search!AllPagesAllHits
<1>1. walk.seen = Found
  BY DEF SearchInv, PagesFollow
<1>2. PICK n \in Nat : n = Cardinality(Hit) /\ n = Search!Cardinality(Hit)
  BY SearchSorts, SearchCounts DEF SearchInv, SearchTypes
<1>3. PICK q \in [1..n -> Hit] : q = Found /\ \A d \in Hit : \E k \in 1..n : q[k] = d
  BY <1>2, SearchSorts DEF SearchInv, SearchTypes
<1>4. Len(q) = n /\ DOMAIN q = 1..n
  BY <1>3
<1>5. Search!Range(q) = Hit
  BY <1>3, <1>4 DEF Search!Range
<1> QED BY <1>1, <1>2, <1>3, <1>4, <1>5 DEF Hit

-----------------------------------------------------------------------------
(***************************************************************************)
(* The recommendations: lists of results, ranked, cut and diversified.     *)
(***************************************************************************)
Result == [id : Wares, score : Int]
Listing(q) ==
    /\ q \in Seq(Result)
    /\ \A j, k \in 1..Len(q) : q[j].id = q[k].id => j = k
Contestants(T) ==
    /\ T \subseteq Result
    /\ \A r, s \in T : r.id = s.id => r = s

(* What each member takes can be told from what the earlier ones took.     *)
LEMMA TakenOneByOne ==
    ASSUME NEW n \in Nat, NEW P
    PROVE  \E picked \in SUBSET (1..n) : \A k \in 1..n : k \in picked <=> <<k, {m \in picked : m < k}>> \in P
<1>1. PICK Good : Good = {x \in 0..n : \E picked \in SUBSET (1..x) :
                            \A k \in 1..x : k \in picked <=> <<k, {m \in picked : m < k}>> \in P}
    OBVIOUS
<1>2. 0 \in Good
  <2>1. {} \in SUBSET (1..0) /\ \A k \in 1..0 : FALSE
      OBVIOUS
  <2>2. \E picked \in SUBSET (1..0) : \A k \in 1..0 : k \in picked <=> <<k, {m \in picked : m < k}>> \in P
    BY Zenon, <2>1
  <2>3. 0 \in 0..n
      OBVIOUS
  <2> QED BY Zenon, <1>1, <2>2, <2>3
<1>3. PICK x \in Good : \A y \in Good : x >= y
  <2>1. Good \in SUBSET (0..n) /\ Good # {}
    BY <1>1, <1>2
  <2> QED BY Zenon, <2>1, Greatest
<1>4. PICK picked \in SUBSET (1..x) :
        \A k \in 1..x : k \in picked <=> <<k, {m \in picked : m < k}>> \in P
  BY Zenon, <1>1, <1>3
<1>5. x \in 0..n
  BY <1>1
<1>6. ASSUME x # n PROVE FALSE
  <2>1. x \in Nat /\ x + 1 \in 0..n /\ x + 1 \notin Good
    BY <1>3, <1>5, <1>6
  <2>2. PICK more : more = IF <<x + 1, picked>> \in P THEN picked \cup {x + 1} ELSE picked
      OBVIOUS
  <2>3. \A m \in picked : m \in 1..x /\ m \in 1..x + 1 /\ m < x + 1
    BY <2>1
  <2>5. more \in SUBSET (1..x + 1)
    BY <2>1, <2>2, <2>3
  <2>4. ASSUME NEW k \in 1..x + 1 PROVE k \in more <=> <<k, {m \in more : m < k}>> \in P
    <3>1. CASE k = x + 1
      <4>1. {m \in more : m < k} = picked
        <5>1. more \subseteq picked \cup {k} /\ picked \subseteq more /\ ~(k < k) /\ \A m \in picked : m < k
          BY <2>1, <2>2, <2>3, <3>1
        <5> QED BY Zenon, <5>1
      <4>2. x + 1 \notin picked
        BY <2>1, <2>3
      <4> QED BY <2>2, <3>1, <4>1, <4>2
    <3>2. CASE k # x + 1
      <4>1. k \in 1..x
        BY <2>1, <3>2
      <4>2. {m \in more : m < k} = {m \in picked : m < k}
        BY <2>1, <2>2, <2>3, <4>1
      <4>3. k \in more <=> k \in picked
        BY <2>2, <3>2
      <4> QED BY Zenon, <1>4, <4>1, <4>2, <4>3
    <3> QED BY <3>1, <3>2
  <2> QED BY Zenon, <1>1, <2>1, <2>4, <2>5
<1> QED BY <1>4, <1>6

(* Different members have different ids, so they are finitely many.        *)
LEMMA ContestantsCount ==
    ASSUME NEW T, Contestants(T)
    PROVE  IsFiniteSet(T)
<1>1. PICK f : f = [r \in T |-> r.id]
    OBVIOUS
<1>2. \A r \in T : r.id \in Wares
  BY DEF Contestants, Result
<1>3. f \in [T -> Wares] /\ \A r, s \in T : f[r] = f[s] => r = s
  BY <1>1, <1>2 DEF Contestants
<1>4. f \in Injection(T, Wares)
  BY <1>3 DEF Injection, IsInjective
<1> QED BY <1>4, FS_Injection, WaresAssumption DEF WaresAssumption

(* Ranking results lists them, each once.                                  *)
LEMMA RankedLists ==
    ASSUME NEW T, Contestants(T), NEW E
    PROVE  /\ Listing(Recommend!Ranked(T, E))
           /\ \A k \in 1..Len(Recommend!Ranked(T, E)) : Recommend!Ranked(T, E)[k] \in T
<1>1. PICK R : R = {p \in T \X T :
            \/ p[1].score > p[2].score
            \/ /\ p[1].score = p[2].score
               /\ IF p[1].id \in E <=> p[2].id \in E THEN p[1].id > p[2].id ELSE p[1].id \in E}
    OBVIOUS
<1>2. \A r, s \in T :
        <<r, s>> \in R <=>
            \/ r.score > s.score
            \/ r.score = s.score /\ r.id \in E /\ s.id \in E /\ r.id > s.id
            \/ r.score = s.score /\ r.id \notin E /\ s.id \notin E /\ r.id > s.id
            \/ r.score = s.score /\ r.id \in E /\ s.id \notin E
  BY <1>1
<1>3. \A r \in T : r.id \in Nat /\ r.score \in Int /\ r.id \in Wares
  BY IdsAssumption DEF Contestants, Result, IdsAssumption
<1>4. \A r, s \in T : r # s => r.id # s.id
  BY DEF Contestants
<1>5. Orders(R, T)
  <2>1. \A x \in T : <<x, x>> \notin R
    BY <1>2, <1>3
  <2>2. \A x, y \in T : x = y \/ <<x, y>> \in R \/ <<y, x>> \in R
    <3> SUFFICES ASSUME NEW x \in T, NEW y \in T, x # y PROVE <<x, y>> \in R \/ <<y, x>> \in R
      BY Zenon
    <3>1. x.score > y.score \/ y.score > x.score \/ (x.score = y.score /\ y.score = x.score)
      BY <1>3
    <3>2. x.id > y.id \/ y.id > x.id
      <4>1. x.id # y.id /\ x.id \in Nat /\ y.id \in Nat
        BY Zenon, <1>3, <1>4
      <4> QED BY <4>1
    <3> QED BY Zenon, <1>2, <3>1, <3>2
  <2>3. \A x, y, z \in T : <<x, y>> \in R /\ <<y, z>> \in R => <<x, z>> \in R
    BY <1>2, <1>3
  <2> QED BY Zenon, <2>1, <2>2, <2>3 DEF Orders
<1>6. PICK n \in Nat : n = Cardinality(T) /\ n = Recommend!Cardinality(T)
  BY ContestantsCount, FS_CardinalityType, SearchCounts
<1>7. PICK q : q = Recommend!Ranked(T, E)
    OBVIOUS
<1>8. q = [k \in 1..n |-> CHOOSE x \in T : Recommend!Cardinality({y \in T : <<y, x>> \in R}) = k - 1]
  <2>1. q = Recommend!InOrder(T, R)
    BY Zenon, <1>1, <1>7 DEF Recommend!Ranked
  <2>2. q = [k \in 1..Recommend!Cardinality(T) |->
               CHOOSE x \in T : Recommend!Cardinality({y \in T : <<y, x>> \in R}) = k - 1]
    BY Zenon, <2>1 DEF Recommend!InOrder
  <2> QED BY Zenon, <1>6, <2>2
<1>9. /\ (\A k \in 1..n : q[k] \in T) => q \in [1..n -> T]
      /\ \A k \in 1..n : q[k] = CHOOSE x \in T : Cardinality({y \in T : <<y, x>> \in R}) = k - 1
  <2>1. \A k : (CHOOSE x \in T : Cardinality({y \in T : <<y, x>> \in R}) = k - 1)
             = (CHOOSE x \in T : Recommend!Cardinality({y \in T : <<y, x>> \in R}) = k - 1)
    BY SearchCounts
  <2>2. ASSUME NEW k \in 1..n
        PROVE  q[k] = CHOOSE x \in T : Recommend!Cardinality({y \in T : <<y, x>> \in R}) = k - 1
    BY <1>8
  <2>3. (\A k \in 1..n : q[k] \in T) => q \in [1..n -> T]
    BY <1>8
  <2> QED BY Zenon, <2>1, <2>2, <2>3
<1>10. Enumerates(q, T, R)
  BY Zenon, <1>5, <1>6, <1>9, ContestantsCount, InOrderEnumerates
<1>11. q \in [1..n -> T] /\ \A j, k \in 1..n : q[j] = q[k] => j = k
  BY <1>6, <1>10 DEF Enumerates
<1>12. q \in Seq(Result) /\ Len(q) = n
  BY <1>11 DEF Contestants
<1>13. ASSUME NEW j \in 1..n, NEW k \in 1..n, q[j].id = q[k].id PROVE j = k
  <2>1. q[j] \in T /\ q[k] \in T
    BY <1>11
  <2>2. q[j] = q[k]
    BY Zenon, <1>4, <1>13, <2>1
  <2> QED BY Zenon, <1>11, <2>2
<1>14. \A k \in 1..n : q[k] \in T
  BY <1>11
<1> QED BY Zenon, <1>7, <1>12, <1>13, <1>14 DEF Listing

(* The first of a list are a list.                                         *)
LEMMA CutLists ==
    ASSUME NEW q, Listing(q), NEW m \in Nat
    PROVE  /\ Listing(Recommend!Cut(q, m)) /\ Len(Recommend!Cut(q, m)) = Recommend!MinOf(m, Len(q))
           /\ \A k \in 1..Len(Recommend!Cut(q, m)) : k \in 1..Len(q) /\ Recommend!Cut(q, m)[k] = q[k]
           /\ Recommend!Ids(Recommend!Cut(q, m)) \subseteq Recommend!Ids(q)
<1>1. q \in Seq(Result) /\ \A j, k \in 1..Len(q) : q[j].id = q[k].id => j = k
  BY DEF Listing
<1>2. PICK b \in Nat : b = Recommend!MinOf(m, Len(q)) /\ b <= Len(q)
  BY <1>1 DEF Recommend!MinOf
<1>3. PICK c : c = Recommend!Cut(q, m)
    OBVIOUS
<1>4. c = [k \in 1..b |-> q[k]]
  BY Zenon, <1>2, <1>3 DEF Recommend!Cut
<1>5. \A k \in 1..b : k \in 1..Len(q) /\ q[k] \in Result
  BY <1>1, <1>2
<1>6. c \in Seq(Result) /\ Len(c) = b /\ DOMAIN c = 1..b /\ \A k \in 1..b : c[k] = q[k]
  BY <1>4, <1>5
<1>7. Listing(c)
  BY Zenon, <1>1, <1>5, <1>6 DEF Listing
<1>8. Recommend!Ids(c) \subseteq Recommend!Ids(q)
  <2>1. DOMAIN q = 1..Len(q)
    BY <1>1
  <2> QED BY <1>5, <1>6, <2>1 DEF Recommend!Ids
<1> QED BY Zenon, <1>2, <1>3, <1>5, <1>6, <1>7, <1>8

(* A list has as many ids as it is long.                                   *)
LEMMA ListingCounts ==
    ASSUME NEW q, Listing(q)
    PROVE  Recommend!Cardinality(Recommend!Ids(q)) = Len(q)
<1>1. PICK n \in Nat : n = Len(q)
  BY DEF Listing
<1>2. PICK f : f = [k \in 1..n |-> q[k].id]
    OBVIOUS
<1>3. PICK D : D = Recommend!Ids(q)
    OBVIOUS
<1>4. DOMAIN q = 1..n
  BY <1>1 DEF Listing
<1>5. D = {q[k].id : k \in 1..n}
  BY Zenon, <1>3, <1>4 DEF Recommend!Ids
<1>6. f \in [1..n -> D] /\ \A d \in D : \E k \in 1..n : f[k] = d
  BY <1>2, <1>5
<1>7. \A j, k \in 1..n : f[j] = f[k] => j = k
  BY <1>1, <1>2 DEF Listing
<1>8. f \in Bijection(1..n, D)
  BY <1>6, <1>7 DEF Bijection, Injection, Surjection, IsInjective
<1>9. ExistsBijection(1..n, D)
  BY <1>8 DEF ExistsBijection
<1>10. IsFiniteSet(1..n) /\ Cardinality(1..n) = n
  BY FS_Interval
<1>11. Cardinality(D) = n
  BY <1>9, <1>10, FS_Bijection
<1> QED BY <1>1, <1>3, <1>11, SearchCounts

(* The first pass picks what is new while there is room.                   *)
LEMMA FirstPassPicks ==
    ASSUME NEW q, Listing(q), NEW t \in Nat
    PROVE  /\ Recommend!FirstPass(q, t) \in SUBSET (1..Len(q))
           /\ \A n \in 1..Len(q) :
                n \in Recommend!FirstPass(q, t) <=>
                    /\ Cardinality({m \in Recommend!FirstPass(q, t) : m < n}) < t
                    /\ Recommend!Fresh(q, n, {m \in Recommend!FirstPass(q, t) : m < n})
<1>1. Len(q) \in Nat /\ DOMAIN q = 1..Len(q)
  BY DEF Listing
<1>2. PICK P : P = {p \in (1..Len(q)) \X SUBSET (1..Len(q)) :
                      Recommend!Cardinality(p[2]) < t /\ Recommend!Fresh(q, p[1], p[2])}
    OBVIOUS
<1>3. PICK picked \in SUBSET (1..Len(q)) :
        \A k \in 1..Len(q) : k \in picked <=> <<k, {m \in picked : m < k}>> \in P
  BY Zenon, <1>1, TakenOneByOne
<1>4. ASSUME NEW n \in 1..Len(q)
      PROVE  n \in picked <=> /\ Recommend!Cardinality({m \in picked : m < n}) < t
                              /\ Recommend!Fresh(q, n, {m \in picked : m < n})
  <2>1. PICK D : D = {m \in picked : m < n} /\ D \in SUBSET (1..Len(q))
      OBVIOUS
  <2>2. <<n, D>> \in P <=> Recommend!Cardinality(D) < t /\ Recommend!Fresh(q, n, D)
    BY <1>2, <2>1
  <2> QED BY Zenon, <1>3, <2>1, <2>2
<1>5. Recommend!FirstPass(q, t) =
        CHOOSE c \in SUBSET (1..Len(q)) :
            \A n \in 1..Len(q) :
                n \in c <=> /\ Recommend!Cardinality({m \in c : m < n}) < t
                            /\ Recommend!Fresh(q, n, {m \in c : m < n})
  BY Zenon, <1>1 DEF Recommend!FirstPass
<1>6. PICK c : c = Recommend!FirstPass(q, t)
    OBVIOUS
<1>7. /\ c \in SUBSET (1..Len(q))
      /\ \A n \in 1..Len(q) :
           n \in c <=> /\ Recommend!Cardinality({m \in c : m < n}) < t
                       /\ Recommend!Fresh(q, n, {m \in c : m < n})
  BY Zenon, <1>3, <1>4, <1>5, <1>6
<1> QED BY Zenon, <1>6, <1>7, SearchCounts

(* Of the first m numbers there are at most m.                             *)
LEMMA AtMost ==
    ASSUME NEW m \in Nat, NEW D \in SUBSET (1..m)
    PROVE  Cardinality(D) \in Nat /\ Cardinality(D) <= m
<1>1. IsFiniteSet(1..m) /\ Cardinality(1..m) = m
  BY FS_Interval
<1>2. IsFiniteSet(D) /\ Cardinality(D) <= Cardinality(1..m)
  BY <1>1, FS_Subset
<1> QED BY <1>1, <1>2, FS_CardinalityType

(* Diversity lists results it was given, and keeps near the front one of   *)
(* every category that was there: who is passed over among the first was   *)
(* passed over for an earlier one of the same category.                    *)
LEMMA DiversityLists ==
    ASSUME NEW q, Listing(q), NEW t \in Nat \ {0}
    PROVE  /\ Listing(Recommend!diversifyResults(q, t))
           /\ Recommend!MinOf(t, Len(Recommend!diversifyResults(q, t))) = Recommend!MinOf(t, Len(q))
           /\ Recommend!Ids(Recommend!diversifyResults(q, t)) \subseteq Recommend!Ids(q)
           /\ \A k \in 1..Recommend!MinOf(t, Len(q)) :
                \E j \in 1..Recommend!MinOf(t, Len(q)) :
                    ware[Recommend!diversifyResults(q, t)[j].id].category = ware[q[k].id].category
<1>1. PICK n \in Nat : n = Len(q) /\ DOMAIN q = 1..n
  BY DEF Listing
<1>2. PICK d : d = Recommend!diversifyResults(q, t)
    OBVIOUS
<1>3. CASE n <= t
  <2>1. d = q
    BY Zenon, <1>1, <1>2, <1>3 DEF Recommend!diversifyResults
  <2> QED BY Zenon, <1>2, <2>1
<1>4. CASE ~(n <= t)
  <2>1. PICK picked : picked = Recommend!FirstPass(q, t)
      OBVIOUS
  <2>2. /\ picked \in SUBSET (1..n)
        /\ \A k \in 1..n : k \in picked <=> /\ Cardinality({m \in picked : m < k}) < t
                                            /\ Recommend!Fresh(q, k, {m \in picked : m < k})
    BY Zenon, <1>1, <2>1, FirstPassPicks
  <2>3. PICK R : R = {p \in (1..n) \X (1..n) :
                        IF p[1] \in picked <=> p[2] \in picked THEN p[1] < p[2] ELSE p[1] \in picked}
      OBVIOUS
  <2>4. PICK o : o = Recommend!InOrder(1..n, R)
      OBVIOUS
  <2>5. d = [k \in 1..t |-> q[o[k]]]
    BY Zenon, <1>1, <1>2, <1>4, <2>1, <2>3, <2>4 DEF Recommend!diversifyResults
  <2>6. \A j, k \in 1..n :
          <<j, k>> \in R <=>
              \/ j \in picked /\ k \in picked /\ j < k
              \/ j \notin picked /\ k \notin picked /\ j < k
              \/ j \in picked /\ k \notin picked
    BY <2>3
  <2>7. Orders(R, 1..n)
    <3>1. \A x \in 1..n : <<x, x>> \notin R
      BY <2>6
    <3>2. \A x, y \in 1..n : x = y \/ <<x, y>> \in R \/ <<y, x>> \in R
      <4>1. \A x, y \in 1..n : x = y \/ x < y \/ y < x
          OBVIOUS
      <4> QED BY Zenon, <2>6, <4>1
    <3>3. \A x, y, z \in 1..n : <<x, y>> \in R /\ <<y, z>> \in R => <<x, z>> \in R
      <4>1. \A x, y, z \in 1..n : x < y /\ y < z => x < z
          OBVIOUS
      <4> QED BY Zenon, <2>6, <4>1
    <3> QED BY Zenon, <3>1, <3>2, <3>3 DEF Orders
  <2>8. IsFiniteSet(1..n) /\ Cardinality(1..n) = n /\ Recommend!Cardinality(1..n) = n
    BY FS_Interval, SearchCounts
  <2>9. /\ (\A k \in 1..n : o[k] \in 1..n) => o \in [1..n -> 1..n]
        /\ \A k \in 1..n : o[k] = CHOOSE x \in 1..n : Cardinality({y \in 1..n : <<y, x>> \in R}) = k - 1
    <3>1. o = [k \in 1..n |-> CHOOSE x \in 1..n : Recommend!Cardinality({y \in 1..n : <<y, x>> \in R}) = k - 1]
      <4>1. o = [k \in 1..Recommend!Cardinality(1..n) |->
                   CHOOSE x \in 1..n : Recommend!Cardinality({y \in 1..n : <<y, x>> \in R}) = k - 1]
        BY Zenon, <2>4 DEF Recommend!InOrder
      <4> QED BY Zenon, <2>8, <4>1
    <3>2. \A k : (CHOOSE x \in 1..n : Cardinality({y \in 1..n : <<y, x>> \in R}) = k - 1)
               = (CHOOSE x \in 1..n : Recommend!Cardinality({y \in 1..n : <<y, x>> \in R}) = k - 1)
      BY SearchCounts
    <3>3. ASSUME NEW k \in 1..n
          PROVE  o[k] = CHOOSE x \in 1..n : Recommend!Cardinality({y \in 1..n : <<y, x>> \in R}) = k - 1
      BY <3>1
    <3>4. (\A k \in 1..n : o[k] \in 1..n) => o \in [1..n -> 1..n]
      BY <3>1
    <3> QED BY Zenon, <3>2, <3>3, <3>4
  <2>10. /\ Enumerates(o, 1..n, R)
         /\ \A k \in 1..n : Cardinality(Before(o[k], 1..n, R)) = k - 1
    <3>1. PICK S : S = 1..n
        OBVIOUS
    <3>2. IsFiniteSet(S) /\ Orders(R, S) /\ Cardinality(S) = n
      BY Zenon, <2>7, <2>8, <3>1
    <3>3. (\A k \in 1..Cardinality(S) : o[k] \in S) => o \in [1..Cardinality(S) -> S]
      BY Zenon, <2>9, <3>1, <3>2
    <3>4. \A k \in 1..Cardinality(S) :
            o[k] = CHOOSE x \in S : Cardinality({y \in S : <<y, x>> \in R}) = k - 1
      BY Zenon, <2>9, <3>1, <3>2
    <3>5. Enumerates(o, S, R) /\ \A k \in 1..Cardinality(S) : Cardinality(Before(o[k], S, R)) = k - 1
      <4>1. Enumerates(o, S, R)
        BY <3>2, <3>3, <3>4, InOrderEnumerates
      <4>2. \A k \in 1..Cardinality(S) : Cardinality(Before(o[k], S, R)) = k - 1
        BY <3>2, <3>3, <3>4, InOrderEnumerates
      <4> QED BY Zenon, <4>1, <4>2
    <3> QED BY Zenon, <3>1, <3>2, <3>5
  <2>11. /\ o \in [1..n -> 1..n] /\ \A m \in 1..n : \E k \in 1..n : o[k] = m
         /\ \A j, k \in 1..n : o[j] = o[k] => j = k
    BY Zenon, <2>8, <2>10 DEF Enumerates
  <2>12. \A k \in 1..t : k \in 1..n
    BY <1>4
  <2>13. d \in Seq(Result) /\ Len(d) = t /\ DOMAIN d = 1..t /\ \A k \in 1..t : d[k] = q[o[k]]
    <3>1. \A k \in 1..t : q[o[k]] \in Result
      <4>1. \A m \in 1..n : q[m] \in Result
        BY <1>1 DEF Listing
      <4>2. \A k \in 1..t : o[k] \in 1..n
        BY <2>11, <2>12
      <4> QED BY Zenon, <4>1, <4>2
    <3> QED BY <2>5, <3>1
  <2>14. Listing(d)
    <3>1. ASSUME NEW j \in 1..t, NEW k \in 1..t, d[j].id = d[k].id PROVE j = k
      <4>1. o[j] \in 1..n /\ o[k] \in 1..n /\ q[o[j]].id = q[o[k]].id
        BY <2>11, <2>12, <2>13, <3>1
      <4>2. o[j] = o[k]
        BY Zenon, <1>1, <4>1 DEF Listing
      <4> QED BY Zenon, <2>11, <2>12, <4>2
    <3> QED BY Zenon, <2>13, <3>1 DEF Listing
  <2>15. Recommend!Ids(d) \subseteq Recommend!Ids(q)
    <3>1. \A k \in 1..t : o[k] \in DOMAIN q /\ d[k].id = q[o[k]].id
      BY <1>1, <2>11, <2>12, <2>13
    <3> QED BY <2>13, <3>1 DEF Recommend!Ids
  <2>16. Recommend!MinOf(t, Len(q)) = t /\ Recommend!MinOf(t, Len(d)) = t
    BY <1>1, <1>4, <2>13 DEF Recommend!MinOf
  <2>17. ASSUME NEW k \in 1..t
         PROVE  \E m \in picked : m <= k /\ ware[q[m].id].category = ware[q[k].id].category
    <3>1. CASE k \in picked
      BY <3>1
    <3>2. CASE k \notin picked
      <4>1. PICK D : D = {m \in picked : m < k}
          OBVIOUS
      <4>2. D \in SUBSET (1..k - 1) /\ k - 1 \in Nat
        <5>1. \A m \in D : m \in 1..n /\ m < k
          BY <2>2, <4>1
        <5>2. \A m \in D : m \in 1..k - 1
          BY <5>1
        <5> QED BY <5>2
      <4>3. Cardinality(D) <= k - 1 /\ Cardinality(D) \in Nat
        BY Zenon, <4>2, AtMost
      <4>4. ~Recommend!Fresh(q, k, D)
        <5>1. Cardinality(D) < t
          BY <4>2, <4>3
        <5> QED BY Zenon, <2>2, <2>12, <3>2, <4>1, <5>1
      <4>5. PICK m \in D : ware[q[m].id].category = ware[q[k].id].category
        BY Zenon, <4>4 DEF Recommend!Fresh
      <4>6. m \in picked /\ m <= k
        BY <2>2, <4>1, <4>5
      <4> QED BY <4>5, <4>6
    <3> QED BY <3>1, <3>2
  <2>18. ASSUME NEW m \in picked, m <= t
         PROVE  \E j \in 1..t : d[j] = q[m]
    <3>1. PICK j \in 1..n : o[j] = m
      BY <2>2, <2>11
    <3>2. PICK B : B = Before(m, 1..n, R)
        OBVIOUS
    <3>3. B \in SUBSET (1..m - 1) /\ m - 1 \in Nat
      <4>1. \A y \in 1..n : <<y, m>> \in R => y < m
        BY Zenon, <2>2, <2>6
      <4>2. m \in 1..n
        BY <2>2
      <4> QED BY <3>2, <4>1, <4>2 DEF Before
    <3>4. Cardinality(B) <= m - 1
      BY Zenon, <3>3, AtMost
    <3>5. Cardinality(B) = j - 1
      BY Zenon, <2>10, <3>1, <3>2
    <3>6. j \in 1..t
      BY <2>2, <2>18, <3>4, <3>5
    <3> QED BY <2>13, <3>1, <3>6
  <2>19. ASSUME NEW k \in 1..t PROVE \E j \in 1..t : ware[d[j].id].category = ware[q[k].id].category
    <3>1. PICK m \in picked : m <= k /\ ware[q[m].id].category = ware[q[k].id].category
      BY Zenon, <2>17
    <3>2. m <= t
      BY <2>2, <3>1
    <3>3. PICK j \in 1..t : d[j] = q[m]
      BY Zenon, <2>18, <3>2
    <3> QED BY Zenon, <3>1, <3>3
  <2> QED BY Zenon, <1>2, <2>14, <2>15, <2>16, <2>19
<1> QED BY <1>3, <1>4

(* Scored, ranked and cut, some items become a list of them.               *)
LEMMA Recommends ==
    ASSUME NEW P, NEW T, Contestants(T), \A r \in T : r.id \in P, NEW E, NEW m \in Nat
    PROVE  /\ Listing(Recommend!Ranked(T, E)) /\ Recommend!Ids(Recommend!Ranked(T, E)) \subseteq P
           /\ Listing(Recommend!Cut(Recommend!Ranked(T, E), m))
           /\ Recommend!Ids(Recommend!Cut(Recommend!Ranked(T, E), m)) \subseteq P
<1>1. PICK q : q = Recommend!Ranked(T, E)
    OBVIOUS
<1>2. Listing(q) /\ \A k \in 1..Len(q) : q[k] \in T
  BY Zenon, <1>1, RankedLists
<1>3. DOMAIN q = 1..Len(q)
  BY <1>2 DEF Listing
<1>4. Recommend!Ids(q) \subseteq P
  BY Zenon, <1>2, <1>3 DEF Recommend!Ids
<1>5. Listing(Recommend!Cut(q, m)) /\ Recommend!Ids(Recommend!Cut(q, m)) \subseteq Recommend!Ids(q)
  BY Zenon, <1>2, CutLists
<1> QED BY Zenon, <1>1, <1>2, <1>4, <1>5

Features5 == {"tags", "colors", "occasions", "seasons", "styles"}
WareTypes ==
    /\ DOMAIN ware = Wares
    /\ \A i \in Wares :
         /\ DOMAIN ware[i] = {"category", "type", "features", "live"} /\ ware[i].live \in BOOLEAN
         /\ \A f \in Features5 : IsFiniteSet(ware[i].features[f])

(* Some of the wares can be counted, and so can some of the shoppers.      *)
LEMMA WaresCount ==
    /\ \A S \in SUBSET Wares : Recommend!Cardinality(S) \in Nat
    /\ \A S \in SUBSET Shoppers : Recommend!Cardinality(S) \in Nat
    /\ Wares \subseteq Nat /\ Limits \subseteq Nat \ {0} /\ MaxShopEvents \in Nat
<1>1. ASSUME NEW S, S \in SUBSET Wares \/ S \in SUBSET Shoppers PROVE Recommend!Cardinality(S) \in Nat
  <2>1. IsFiniteSet(S)
    BY <1>1, FS_Subset, WaresAssumption DEF WaresAssumption
  <2> QED BY <2>1, FS_CardinalityType, SearchCounts
<1> QED BY <1>1, IdsAssumption, SizesAssumption, BoundsAssumption
        DEF IdsAssumption, SizesAssumption, BoundsAssumption

(* A similarity is a number.                                               *)
LEMMA SimilarityCounts ==
    ASSUME WareTypes, NEW i \in Wares, NEW j \in Wares
    PROVE  Recommend!Similarity(ware[i], ware[j]) \in Int
<1>1. ASSUME NEW a, IsFiniteSet(a), NEW b, IsFiniteSet(b) PROVE Recommend!Overlap(a, b) \in Nat
  <2>1. CASE a = {} \/ b = {}
    BY <2>1 DEF Recommend!Overlap
  <2>2. CASE ~(a = {} \/ b = {})
    <3>1. PICK n \in Nat : n = Recommend!Cardinality(a \cap b)
      <4>1. a \cap b \in SUBSET a
          OBVIOUS
      <4> QED BY <1>1, <4>1, FS_Subset, FS_CardinalityType, SearchCounts
    <3>2. PICK x \in Nat \ {0} : x = Recommend!Cardinality(a)
      BY <1>1, <2>2, FS_EmptySet, FS_CardinalityType, SearchCounts
    <3>3. PICK y \in Nat \ {0} : y = Recommend!Cardinality(b)
      BY <1>1, <2>2, FS_EmptySet, FS_CardinalityType, SearchCounts
    <3>4. PICK z \in Nat \ {0} : z = IF x > y THEN x ELSE y
        OBVIOUS
    <3>5. Recommend!Overlap(a, b) = (6 * n) \div z
      BY Zenon, <2>2, <3>1, <3>2, <3>3, <3>4 DEF Recommend!Overlap
    <3>6. 6 * n \in Nat
        OBVIOUS
    <3> QED BY <3>5, <3>6, Quotient
  <2> QED BY <2>1, <2>2
<1>2. \A f \in Features5 : Recommend!Overlap(ware[i].features[f], ware[j].features[f]) \in Nat
  BY <1>1 DEF WareTypes
<1>3. /\ Recommend!Weight["tags"] = 20 /\ Recommend!Weight["colors"] = 15 /\ Recommend!Weight["occasions"] = 15
      /\ Recommend!Weight["seasons"] = 10 /\ Recommend!Weight["styles"] = 10
  BY DEF Recommend!Weight
<1>4. PICK f \in [Features5 -> Nat] :
        \A x \in Features5 :
            f[x] = Recommend!Overlap(ware[i].features[x], ware[j].features[x])
  <2>1. [x \in Features5 |-> Recommend!Overlap(ware[i].features[x], ware[j].features[x])] \in [Features5 -> Nat]
    BY <1>2
  <2> QED BY <2>1
<1>5. PICK c \in Nat : c = IF ware[i].category = ware[j].category THEN 6 * 30 ELSE 0
    OBVIOUS
<1>6. Recommend!Similarity(ware[i], ware[j]) =
        c + (f["tags"] * 20 + f["colors"] * 15 + f["occasions"] * 15 + f["seasons"] * 10 + f["styles"] * 10)
  BY Zenon, <1>3, <1>4, <1>5 DEF Recommend!Similarity, Features5
<1> QED BY <1>4, <1>6 DEF Features5

(* The queries list what may be sold: like the reference and not the       *)
(* reference, complementary, popular, liked by others and not yet liked.   *)
LEMMA SimilarLists ==
    ASSUME WareTypes, NEW ref \in Wares, NEW m \in Nat
    PROVE  /\ Listing(Recommend!calculateSimilarity(ref, m))
           /\ Recommend!Ids(Recommend!calculateSimilarity(ref, m)) \subseteq Recommend!Sellable \ {ref}
<1>1. PICK P : P = {j \in Recommend!Sellable \ {ref} : ware[j].type = ware[ref].type}
    OBVIOUS
<1>2. P \subseteq Recommend!Sellable \ {ref} /\ P \subseteq Wares
  BY <1>1 DEF Recommend!Sellable
<1>3. PICK f : f = [i \in P |-> Recommend!Similarity(ware[i], ware[ref])]
    OBVIOUS
<1>4. \A i \in P : f[i] = Recommend!Similarity(ware[i], ware[ref]) /\ f[i] \in Int
  BY <1>2, <1>3, SimilarityCounts
<1>5. PICK T : T = {[id |-> i, score |-> Recommend!Similarity(ware[i], ware[ref])] : i \in P}
    OBVIOUS
<1>6. T = {[id |-> i, score |-> f[i]] : i \in P}
  BY Zenon, <1>4, <1>5
<1>7. Recommend!calculateSimilarity(ref, m) = Recommend!Cut(Recommend!Ranked(T, {}), m)
  BY Zenon, <1>1, <1>5 DEF Recommend!calculateSimilarity
<1>8. /\ Listing(Recommend!Cut(Recommend!Ranked(T, {}), m))
      /\ Recommend!Ids(Recommend!Cut(Recommend!Ranked(T, {}), m)) \subseteq P
  <2>1. Contestants(T) /\ \A r \in T : r.id \in P
    BY <1>2, <1>4, <1>6 DEF Contestants, Result
  <2> QED BY Zenon, <2>1, Recommends
<1> QED BY Zenon, <1>2, <1>7, <1>8

(* What goes with an item is a listing of wares that are on sale.          *)
LEMMA ComplementaryLists ==
    ASSUME WareTypes, NEW ref \in Wares, NEW m \in Nat
    PROVE  /\ Listing(Recommend!findComplementaryItems(ref, m))
           /\ Recommend!Ids(Recommend!findComplementaryItems(ref, m)) \subseteq Recommend!Sellable
<1>1. PICK pool : pool = {i \in Recommend!Sellable :
                            ware[i].category \in Recommend!getComplementaryCategories(ware[ref].category)}
    OBVIOUS
<1>2. PICK P : P = {i \in pool : Recommend!Cardinality({j \in pool : j > i}) < 2 * m}
    OBVIOUS
<1>3. P \subseteq Recommend!Sellable /\ P \subseteq Wares
  BY <1>1, <1>2 DEF Recommend!Sellable
<1>4. PICK f : f = [i \in P |->
            50 + (IF ware[i].features["occasions"] \cap ware[ref].features["occasions"] # {} THEN 25 ELSE 0)
               + (IF ware[i].features["seasons"] \cap ware[ref].features["seasons"] # {} THEN 25 ELSE 0)]
    OBVIOUS
<1>5. \A i \in P : f[i] \in Int
  BY <1>4
<1>6. \A i \in P : f[i] =
            50 + (IF ware[i].features["occasions"] \cap ware[ref].features["occasions"] # {} THEN 25 ELSE 0)
               + (IF ware[i].features["seasons"] \cap ware[ref].features["seasons"] # {} THEN 25 ELSE 0)
  BY Zenon, <1>4
<1>7. PICK T : T = {[id |-> i, score |->
            50 + (IF ware[i].features["occasions"] \cap ware[ref].features["occasions"] # {} THEN 25 ELSE 0)
               + (IF ware[i].features["seasons"] \cap ware[ref].features["seasons"] # {} THEN 25 ELSE 0)] : i \in P}
    OBVIOUS
<1>8. T = {[id |-> i, score |-> f[i]] : i \in P}
  BY Zenon, <1>6, <1>7
<1>9. Recommend!findComplementaryItems(ref, m) = Recommend!Cut(Recommend!Ranked(T, {}), m)
  BY Zenon, <1>1, <1>2, <1>7 DEF Recommend!findComplementaryItems
<1>10. /\ Listing(Recommend!Cut(Recommend!Ranked(T, {}), m))
       /\ Recommend!Ids(Recommend!Cut(Recommend!Ranked(T, {}), m)) \subseteq P
  <2>1. Contestants(T) /\ \A r \in T : r.id \in P
    BY <1>3, <1>5, <1>8 DEF Contestants, Result
  <2> QED BY Zenon, <2>1, Recommends
<1> QED BY Zenon, <1>3, <1>9, <1>10

(* The most popular are a listing of the pool they are drawn from.         *)
LEMMA PopularLists ==
    ASSUME NEW pool, pool \subseteq Wares, NEW top \in Nat
    PROVE  /\ Listing(Recommend!ByPopularity(pool, top))
           /\ Recommend!Ids(Recommend!ByPopularity(pool, top)) \subseteq pool
<1>1. PICK f : f = [i \in pool |-> top - 2 * Recommend!Cardinality({j \in pool : j > i})]
    OBVIOUS
<1>2. \A i \in pool : f[i] = top - 2 * Recommend!Cardinality({j \in pool : j > i})
  BY Zenon, <1>1
<1>3. ASSUME NEW i \in pool PROVE f[i] \in Int
  <2>1. {j \in pool : j > i} \in SUBSET Wares
      OBVIOUS
  <2>2. PICK n \in Nat : n = Recommend!Cardinality({j \in pool : j > i})
    BY Zenon, <2>1, WaresCount
  <2>3. f[i] = top - 2 * n
    BY Zenon, <1>2, <2>2
  <2> QED BY <2>3
<1>4. PICK T : T = {[id |-> i, score |-> top - 2 * Recommend!Cardinality({j \in pool : j > i})] : i \in pool}
    OBVIOUS
<1>5. T = {[id |-> i, score |-> f[i]] : i \in pool}
  BY Zenon, <1>2, <1>4
<1>6. Recommend!ByPopularity(pool, top) = Recommend!Ranked(T, {})
  BY Zenon, <1>4 DEF Recommend!ByPopularity
<1>7. Listing(Recommend!Ranked(T, {})) /\ Recommend!Ids(Recommend!Ranked(T, {})) \subseteq pool
  <2>1. 0 \in Nat
      OBVIOUS
  <2>2. Contestants(T) /\ \A r \in T : r.id \in pool
    BY <1>3, <1>5 DEF Contestants, Result
  <2> QED BY Zenon, <2>1, <2>2, Recommends
<1> QED BY Zenon, <1>6, <1>7

(* What others like is a listing of wares on sale that are not favorites.  *)
LEMMA OthersLists ==
    ASSUME NEW m \in Nat
    PROVE  /\ Listing(Recommend!collaborativeFiltering(m))
           /\ Recommend!Ids(Recommend!collaborativeFiltering(m))
                \subseteq Recommend!Sellable \ Recommend!Favorites(me)
<1>1. PICK P : P = {j \in Recommend!Sellable \ Recommend!Favorites(me) :
                      \E u \in Recommend!similar_users : j \in Recommend!Favorites(u)}
    OBVIOUS
<1>2. P \subseteq Recommend!Sellable \ Recommend!Favorites(me) /\ P \subseteq Wares
  BY <1>1 DEF Recommend!Sellable
<1>3. PICK f : f = [i \in P |->
            10 * Recommend!Cardinality({u \in Recommend!similar_users : i \in Recommend!Favorites(u)})]
    OBVIOUS
<1>4. \A i \in P : f[i] =
            10 * Recommend!Cardinality({u \in Recommend!similar_users : i \in Recommend!Favorites(u)})
  BY Zenon, <1>3
<1>5. ASSUME NEW i \in P PROVE f[i] \in Int
  <2>1. {u \in Recommend!similar_users : i \in Recommend!Favorites(u)} \in SUBSET Shoppers
    BY DEF Recommend!similar_users
  <2>2. Recommend!Cardinality({u \in Recommend!similar_users : i \in Recommend!Favorites(u)}) \in Nat
    BY Zenon, <2>1, WaresCount
  <2> QED BY <1>4, <2>2
<1>6. PICK T : T = {[id |-> i, score |->
            10 * Recommend!Cardinality({u \in Recommend!similar_users : i \in Recommend!Favorites(u)})] : i \in P}
    OBVIOUS
<1>7. T = {[id |-> i, score |-> f[i]] : i \in P}
  BY Zenon, <1>4, <1>6
<1>8. Recommend!collaborativeFiltering(m) = Recommend!Cut(Recommend!Ranked(T, {}), m)
  BY Zenon, <1>1, <1>6 DEF Recommend!collaborativeFiltering
<1>9. /\ Listing(Recommend!Cut(Recommend!Ranked(T, {}), m))
      /\ Recommend!Ids(Recommend!Cut(Recommend!Ranked(T, {}), m)) \subseteq P
  <2>1. Contestants(T) /\ \A r \in T : r.id \in P
    BY <1>2, <1>5, <1>7 DEF Contestants, Result
  <2> QED BY Zenon, <2>1, Recommends
<1> QED BY Zenon, <1>2, <1>8, <1>9

(* What fits a taste is a listing of wares on sale that are not owned.     *)
LEMMA ContentLists ==
    ASSUME NEW owned, NEW taste, NEW m \in Nat
    PROVE  /\ Listing(Recommend!contentBasedFiltering(owned, taste, m))
           /\ Recommend!Ids(Recommend!contentBasedFiltering(owned, taste, m)) \subseteq Recommend!Sellable \ owned
<1>1. PICK P : P = {i \in Recommend!Sellable \ owned :
                      /\ taste[1] # {} => ware[i].category \in taste[1]
                      /\ taste[2] # {} => ware[i].features["tags"] \cap taste[2] # {}}
    OBVIOUS
<1>2. P \subseteq Recommend!Sellable \ owned /\ P \subseteq Wares
  BY <1>1 DEF Recommend!Sellable
<1>3. PICK f : f = [i \in P |-> 90 - Recommend!Cardinality({j \in P : j > i})]
    OBVIOUS
<1>4. \A i \in P : f[i] = 90 - Recommend!Cardinality({j \in P : j > i})
  BY Zenon, <1>3
<1>5. ASSUME NEW i \in P PROVE f[i] \in Int
  <2>1. {j \in P : j > i} \in SUBSET Wares
    BY <1>2
  <2>2. PICK n \in Nat : n = Recommend!Cardinality({j \in P : j > i})
    BY Zenon, <2>1, WaresCount
  <2>3. f[i] = 90 - n
    BY Zenon, <1>4, <2>2
  <2> QED BY <2>3
<1>6. PICK T : T = {[id |-> i, score |-> 90 - Recommend!Cardinality({j \in P : j > i})] : i \in P}
    OBVIOUS
<1>7. T = {[id |-> i, score |-> f[i]] : i \in P}
  BY Zenon, <1>4, <1>6
<1>8. Recommend!contentBasedFiltering(owned, taste, m) = Recommend!Cut(Recommend!Ranked(T, {}), m)
  BY Zenon, <1>1, <1>6 DEF Recommend!contentBasedFiltering
<1>9. /\ Listing(Recommend!Cut(Recommend!Ranked(T, {}), m))
      /\ Recommend!Ids(Recommend!Cut(Recommend!Ranked(T, {}), m)) \subseteq P
  <2>1. Contestants(T) /\ \A r \in T : r.id \in P
    BY <1>2, <1>5, <1>7 DEF Contestants, Result
  <2> QED BY Zenon, <2>1, Recommends
<1> QED BY Zenon, <1>2, <1>8, <1>9

(* The ensemble lists what one of the two lists had.                       *)
LEMMA EnsembleLists ==
    ASSUME NEW one, Listing(one), NEW other, Listing(other), NEW m \in Nat
    PROVE  /\ Listing(Recommend!ensembleRanking(one, other, m))
           /\ Recommend!Ids(Recommend!ensembleRanking(one, other, m))
                \subseteq Recommend!Ids(one) \cup Recommend!Ids(other)
<1>1. ASSUME NEW q, Listing(q)
      PROVE  /\ Recommend!Ids(q) \subseteq Wares
             /\ \A i : Recommend!ScoreIn(q, i) \in Int
  <2>1. /\ DOMAIN q = 1..Len(q)
        /\ \A k \in 1..Len(q) : q[k].id \in Wares /\ q[k].score \in Int
    <3>1. DOMAIN q = 1..Len(q) /\ \A k \in 1..Len(q) : q[k] \in Result
      BY <1>1 DEF Listing
    <3>2. \A r \in Result : r.id \in Wares /\ r.score \in Int
      BY DEF Result
    <3> QED BY Zenon, <3>1, <3>2
  <2>2. Recommend!Ids(q) \subseteq Wares
    BY <2>1 DEF Recommend!Ids
  <2>3. ASSUME NEW i PROVE Recommend!ScoreIn(q, i) \in Int
    <3>1. CASE i \in Recommend!Ids(q)
      <4>1. \E n \in DOMAIN q : q[n].id = i
        BY Zenon, <3>1 DEF Recommend!Ids
      <4>2. PICK k : k = CHOOSE n \in DOMAIN q : q[n].id = i
          OBVIOUS
      <4>3. k \in DOMAIN q
        BY Zenon, <4>1, <4>2
      <4>4. Recommend!ScoreIn(q, i) = q[k].score
        BY Zenon, <3>1, <4>2 DEF Recommend!ScoreIn
      <4> QED BY Zenon, <2>1, <4>3, <4>4
    <3>2. CASE i \notin Recommend!Ids(q)
      <4>1. Recommend!ScoreIn(q, i) = 0
        BY Zenon, <3>2 DEF Recommend!ScoreIn
      <4> QED BY <4>1
    <3> QED BY <3>1, <3>2
  <2> QED BY Zenon, <2>2, <2>3
<1>2. PICK P : P = Recommend!Ids(one) \cup Recommend!Ids(other)
    OBVIOUS
<1>3. P \subseteq Wares
  BY Zenon, <1>1, <1>2
<1>4. PICK f : f = [i \in P |-> 6 * Recommend!ScoreIn(one, i) + 4 * Recommend!ScoreIn(other, i)]
    OBVIOUS
<1>5. \A i \in P : f[i] = 6 * Recommend!ScoreIn(one, i) + 4 * Recommend!ScoreIn(other, i)
  BY Zenon, <1>4
<1>6. ASSUME NEW i \in P PROVE f[i] \in Int
  <2>1. PICK a \in Int : a = Recommend!ScoreIn(one, i)
    BY Zenon, <1>1
  <2>2. PICK b \in Int : b = Recommend!ScoreIn(other, i)
    BY Zenon, <1>1
  <2>3. f[i] = 6 * a + 4 * b
    BY Zenon, <1>5, <2>1, <2>2
  <2> QED BY <2>3
<1>7. PICK T : T = {[id |-> i, score |-> 6 * Recommend!ScoreIn(one, i) + 4 * Recommend!ScoreIn(other, i)] : i \in P}
    OBVIOUS
<1>8. T = {[id |-> i, score |-> f[i]] : i \in P}
  BY Zenon, <1>5, <1>7
<1>9. Recommend!ensembleRanking(one, other, m) = Recommend!Cut(Recommend!Ranked(T, Recommend!Ids(one)), m)
  BY Zenon, <1>2, <1>7 DEF Recommend!ensembleRanking
<1>10. /\ Listing(Recommend!Cut(Recommend!Ranked(T, Recommend!Ids(one)), m))
       /\ Recommend!Ids(Recommend!Cut(Recommend!Ranked(T, Recommend!Ids(one)), m)) \subseteq P
  <2>1. Contestants(T) /\ \A r \in T : r.id \in P
    BY <1>3, <1>6, <1>8 DEF Contestants, Result
  <2> QED BY Zenon, <2>1, Recommends
<1> QED BY Zenon, <1>2, <1>9, <1>10

-----------------------------------------------------------------------------
AskSteps == {"asked", "tastes", "others", "candidates", "scored", "answered", "refused"}
AskTypes ==
    /\ ask \in [kind : Recommend!Kinds, limit : Limits, item : Wares, diverse : BOOLEAN, step : AskSteps,
                owned : SUBSET Wares, found : Seq(Result), answer : Seq(Result), still : BOOLEAN]
    /\ favored \subseteq Shoppers \X Wares /\ shopEvents \in 0..MaxShopEvents
    /\ Listing(ask.found)

(* What the queries of a request have given, while nothing changed, is for *)
(* sale and not yet the user's.                                            *)
AskFollows ==
    /\ ask.step \in {"tastes", "others"} => ask.kind = "personalized"
    /\ ask.step \in {"candidates", "scored"} => ask.kind # "personalized"
    /\ ask.step = "scored" /\ ask.kind = "similar" => ask.item \notin Recommend!Ids(ask.found)
    /\ ask.still =>
         /\ ask.step \in {"others", "scored"} => Recommend!Ids(ask.found) \subseteq Recommend!Sellable
         /\ ask.step \in {"tastes", "others"} => ask.owned = Recommend!Favorites(me)
         /\ ask.step = "others" => Recommend!Ids(ask.found) \cap Recommend!Favorites(me) = {}
RecInv ==
    IF part = "recommend" THEN WareTypes /\ AskTypes /\ AskFollows /\ Recommend!AnswersAreSound
    ELSE ask.step = "asked"

(* The last step of a request: the answer is as sound as the list was.     *)
LEMMA RecAnswers ==
    ASSUME WareTypes, AskTypes, UNCHANGED <<ware, favored, shopEvents>>,
           NEW q, Listing(q), ask' = Recommend!Answer(q),
           ask.still =>
             /\ Recommend!Ids(q) \subseteq Recommend!Sellable
             /\ ask.kind = "similar" => ask.item \notin Recommend!Ids(q)
             /\ ask.kind = "personalized" => Recommend!Ids(q) \cap Recommend!Favorites(me) = {}
    PROVE  WareTypes' /\ AskTypes' /\ AskFollows' /\ Recommend!AnswersAreSound'
<1>1. PICK t \in Nat \ {0} : t = ask.limit
  BY WaresCount DEF AskTypes
<1>2. PICK d : d = IF ask.diverse THEN Recommend!diversifyResults(q, t) ELSE q
    OBVIOUS
<1>3. PICK l : l = Recommend!MinOf(t, Len(q))
    OBVIOUS
<1>4. /\ Listing(d) /\ Recommend!Ids(d) \subseteq Recommend!Ids(q) /\ Recommend!MinOf(t, Len(d)) = l
      /\ ask.diverse => \A k \in 1..l : \E j \in 1..l : ware[d[j].id].category = ware[q[k].id].category
  <2>1. CASE ask.diverse
    <3>1. d = Recommend!diversifyResults(q, t)
      BY Zenon, <1>2, <2>1
    <3>2. /\ Listing(Recommend!diversifyResults(q, t))
          /\ Recommend!MinOf(t, Len(Recommend!diversifyResults(q, t))) = Recommend!MinOf(t, Len(q))
          /\ Recommend!Ids(Recommend!diversifyResults(q, t)) \subseteq Recommend!Ids(q)
          /\ \A k \in 1..Recommend!MinOf(t, Len(q)) :
               \E j \in 1..Recommend!MinOf(t, Len(q)) :
                   ware[Recommend!diversifyResults(q, t)[j].id].category = ware[q[k].id].category
      BY DiversityLists
    <3> QED BY Zenon, <1>3, <3>1, <3>2
  <2>2. CASE ~ask.diverse
    BY Zenon, <1>2, <1>3, <2>2
  <2> QED BY Zenon, <2>1, <2>2
<1>5. PICK a : a = Recommend!Cut(d, t)
    OBVIOUS
<1>6. /\ Listing(a) /\ Len(a) = l /\ Recommend!Ids(a) \subseteq Recommend!Ids(q)
      /\ \A k \in 1..l : a[k] = d[k]
  <2>1. t \in Nat
      OBVIOUS
  <2>2. /\ Listing(a) /\ Len(a) = Recommend!MinOf(t, Len(d)) /\ Recommend!Ids(a) \subseteq Recommend!Ids(d)
        /\ \A k \in 1..Len(a) : a[k] = d[k]
    <3>1. /\ Listing(Recommend!Cut(d, t)) /\ Len(Recommend!Cut(d, t)) = Recommend!MinOf(t, Len(d))
          /\ \A k \in 1..Len(Recommend!Cut(d, t)) : k \in 1..Len(d) /\ Recommend!Cut(d, t)[k] = d[k]
          /\ Recommend!Ids(Recommend!Cut(d, t)) \subseteq Recommend!Ids(d)
      BY <1>4, <2>1, CutLists
    <3> QED BY Zenon, <1>5, <3>1
  <2> QED BY Zenon, <1>4, <2>2
<1>7. ask' = [ask EXCEPT !.step = "answered", !.found = q, !.answer = a]
  BY Zenon, <1>1, <1>2, <1>5 DEF Recommend!Answer
<1>8. /\ ask' \in [kind : Recommend!Kinds, limit : Limits, item : Wares, diverse : BOOLEAN, step : AskSteps,
                   owned : SUBSET Wares, found : Seq(Result), answer : Seq(Result), still : BOOLEAN]
      /\ ask'.step = "answered" /\ ask'.found = q /\ ask'.answer = a /\ ask'.limit = t
      /\ ask'.kind = ask.kind /\ ask'.item = ask.item /\ ask'.diverse = ask.diverse /\ ask'.still = ask.still
  <2>1. q \in Seq(Result) /\ a \in Seq(Result) /\ "answered" \in AskSteps
    BY <1>6 DEF Listing, AskSteps
  <2> QED BY <1>1, <1>7, <2>1 DEF AskTypes
<1>9. WareTypes' /\ AskTypes'
  BY Zenon, <1>8 DEF WareTypes, AskTypes
<1>10. AskFollows'
  BY <1>8 DEF AskFollows
<1>11. Recommend!Cardinality(Recommend!Ids(a)) = Recommend!MinOf(t, Len(q))
  BY Zenon, <1>3, <1>6, ListingCounts
<1>12. ASSUME ask.diverse
       PROVE  Recommend!CategoriesOf(Recommend!Cut(q, t)) \subseteq Recommend!CategoriesOf(a)
  <2>1. PICK c : c = Recommend!Cut(q, t)
      OBVIOUS
  <2>2. t \in Nat
      OBVIOUS
  <2>3. Listing(c) /\ Len(c) = l /\ \A k \in 1..l : c[k] = q[k]
    BY Zenon, <1>3, <2>1, <2>2, CutLists
  <2>4. DOMAIN c = 1..l /\ DOMAIN a = 1..l
    BY <1>6, <2>3 DEF Listing
  <2>5. ASSUME NEW k \in 1..l PROVE \E j \in 1..l : ware[a[j].id].category = ware[c[k].id].category
    <3>1. PICK j \in 1..l : ware[d[j].id].category = ware[q[k].id].category
      BY Zenon, <1>4, <1>12
    <3>2. a[j] = d[j] /\ c[k] = q[k]
      BY Zenon, <1>6, <2>3
    <3> QED BY Zenon, <3>1, <3>2
  <2>6. Recommend!CategoriesOf(c) \subseteq Recommend!CategoriesOf(a)
    BY Zenon, <2>4, <2>5 DEF Recommend!CategoriesOf, Recommend!Ids
  <2> QED BY Zenon, <2>1, <2>6
<1>13. Recommend!Sellable' = Recommend!Sellable /\ Recommend!Favorites(me)' = Recommend!Favorites(me)
  BY Zenon DEF Recommend!Sellable, Recommend!Favorites
<1>14. /\ Recommend!CategoriesOf(Recommend!Cut(ask.found, ask.limit))'
            = Recommend!CategoriesOf(Recommend!Cut(q, t))
       /\ Recommend!CategoriesOf(ask.answer)' = Recommend!CategoriesOf(a)
  <2>1. ware' = ware
      OBVIOUS
  <2>2. Recommend!CategoriesOf(Recommend!Cut(q, t))' = Recommend!CategoriesOf(Recommend!Cut(q, t))
    BY <2>1 DEF Recommend!CategoriesOf
  <2>3. Recommend!CategoriesOf(a)' = Recommend!CategoriesOf(a)
    BY <2>1 DEF Recommend!CategoriesOf
  <2>4. Recommend!CategoriesOf(Recommend!Cut(ask.found, ask.limit))' = Recommend!CategoriesOf(Recommend!Cut(q, t))'
    BY <1>8 DEF Recommend!CategoriesOf
  <2>5. Recommend!CategoriesOf(ask.answer)' = Recommend!CategoriesOf(a)'
    BY <1>8 DEF Recommend!CategoriesOf
  <2> QED BY Zenon, <2>2, <2>3, <2>4, <2>5
<1>15. Recommend!AnswersAreSound'
  <2>1. (Recommend!Cardinality(Recommend!Ids(ask.answer)) = Recommend!MinOf(ask.limit, Len(ask.found)))'
    BY Zenon, <1>8, <1>11
  <2>2. ask'.diverse => (Recommend!CategoriesOf(Recommend!Cut(ask.found, ask.limit))
                           \subseteq Recommend!CategoriesOf(ask.answer))'
    BY Zenon, <1>8, <1>12, <1>14
  <2>3. ask'.still =>
          /\ Recommend!Ids(ask'.answer) \subseteq Recommend!Sellable'
          /\ ask'.kind = "similar" => ask'.item \notin Recommend!Ids(ask'.answer)
          /\ ask'.kind = "personalized" => Recommend!Ids(ask'.answer) \cap Recommend!Favorites(me)' = {}
    <3> SUFFICES ASSUME ask'.still
                 PROVE  /\ Recommend!Ids(ask'.answer) \subseteq Recommend!Sellable'
                        /\ ask'.kind = "similar" => ask'.item \notin Recommend!Ids(ask'.answer)
                        /\ ask'.kind = "personalized" =>
                             Recommend!Ids(ask'.answer) \cap Recommend!Favorites(me)' = {}
        OBVIOUS
    <3>1. ask.still
      BY Zenon, <1>8
    <3>2. /\ Recommend!Ids(q) \subseteq Recommend!Sellable
          /\ ask.kind = "similar" => ask.item \notin Recommend!Ids(q)
          /\ ask.kind = "personalized" => Recommend!Ids(q) \cap Recommend!Favorites(me) = {}
      BY Zenon, <3>1
    <3>3. /\ Recommend!Ids(a) \subseteq Recommend!Sellable
          /\ ask.kind = "similar" => ask.item \notin Recommend!Ids(a)
          /\ ask.kind = "personalized" => Recommend!Ids(a) \cap Recommend!Favorites(me) = {}
      BY Zenon, <1>6, <3>2
    <3> QED BY Zenon, <1>8, <1>13, <3>3
  <2> QED BY Zenon, <2>1, <2>2, <2>3 DEF Recommend!AnswersAreSound
<1> QED BY Zenon, <1>9, <1>10, <1>15

(* Every catalog types the wares.                                          *)
LEMMA CatalogsType ==
    ASSUME ware \in Catalogs \cup {PersonalCatalog}
    PROVE  WareTypes
BY Zenon, WaresAssumption DEF WaresAssumption, WareTypes, Features5

(* A conversation starts with nothing answered.                            *)
LEMMA RecInit == Init => RecInv
<1> SUFFICES ASSUME Init PROVE RecInv
    OBVIOUS
<1>1. CASE part = "recommend"
  <2>1. Recommend!Init
    BY Zenon, <1>1 DEF Init
  <2>2. PICK kd \in Recommend!Kinds, limit \in Limits, item \in Wares, diverse \in BOOLEAN :
          /\ ask = [kind |-> kd, limit |-> limit, item |-> item, diverse |-> diverse,
                    step |-> "asked", owned |-> {}, found |-> <<>>, answer |-> <<>>, still |-> TRUE]
          /\ IF kd = "personalized"
             THEN favored \in SUBSET (Shoppers \X Wares) /\ ware = PersonalCatalog
             ELSE favored = {} /\ ware \in Catalogs
    BY Zenon, <2>1 DEF Recommend!Init
  <2>3. favored \subseteq Shoppers \X Wares /\ ware \in Catalogs \cup {PersonalCatalog}
    BY Zenon, <2>2
  <2>4. WareTypes
    BY Zenon, <2>3, CatalogsType
  <2>5. <<>> \in Seq(Result) /\ "asked" \in AskSteps /\ Len(<<>>) = 0
    BY DEF AskSteps
  <2>6. shopEvents \in 0..MaxShopEvents
    BY <2>1, WaresCount DEF Recommend!Init
  <2>7. /\ ask \in [kind : Recommend!Kinds, limit : Limits, item : Wares, diverse : BOOLEAN, step : AskSteps,
                    owned : SUBSET Wares, found : Seq(Result), answer : Seq(Result), still : BOOLEAN]
        /\ ask.step = "asked" /\ ask.found = <<>>
    BY <2>2, <2>5
  <2>8. Listing(<<>>)
    BY <2>5 DEF Listing
  <2>9. AskTypes
    BY Zenon, <2>3, <2>6, <2>7, <2>8 DEF AskTypes
  <2>10. AskFollows /\ Recommend!AnswersAreSound
    BY <2>7 DEF AskFollows, Recommend!AnswersAreSound
  <2> QED BY Zenon, <1>1, <2>4, <2>9, <2>10 DEF RecInv
<1>2. CASE part # "recommend"
  <2>1. ask = [kind |-> "popular", limit |-> 1, item |-> 1, diverse |-> TRUE, step |-> "asked",
               owned |-> {}, found |-> <<>>, answer |-> <<>>, still |-> TRUE]
    BY Zenon, <1>2 DEF Init
  <2> QED BY <1>2, <2>1 DEF RecInv
<1> QED BY <1>1, <1>2

(* A query that answers.                                                   *)
LEMMA RecGives ==
    ASSUME part = "recommend", part' = part, RecInv,
           \/ Recommend!GetPopular \/ Recommend!GetNewArrivals \/ Recommend!FindByIds
           \/ Recommend!GetComplementary \/ Recommend!GetPersonalized
    PROVE  RecInv'
<1>1. WareTypes /\ AskTypes /\ AskFollows
  BY DEF RecInv
<1>2. UNCHANGED <<ware, favored, shopEvents>>
  BY DEF Recommend!GetPopular, Recommend!GetNewArrivals, Recommend!FindByIds,
         Recommend!GetComplementary, Recommend!GetPersonalized
<1>3. PICK t \in Nat \ {0} : t = ask.limit
  BY <1>1, WaresCount DEF AskTypes
<1>4. ask.item \in Wares /\ Listing(ask.found) /\ Recommend!Sellable \subseteq Wares
  BY <1>1 DEF AskTypes, Recommend!Sellable
<1>5. SUFFICES (WareTypes /\ AskTypes /\ AskFollows /\ Recommend!AnswersAreSound)'
  BY Zenon DEF RecInv
<1>6. ASSUME NEW q, Listing(q), ask' = Recommend!Answer(q), Recommend!Ids(q) \subseteq Recommend!Sellable,
             ask.kind \notin {"similar", "personalized"}
      PROVE  (WareTypes /\ AskTypes /\ AskFollows /\ Recommend!AnswersAreSound)'
  BY Zenon, <1>1, <1>2, <1>6, RecAnswers
<1>7. CASE Recommend!GetPopular
  <2>1. PICK q : q = Recommend!ByPopularity(Recommend!Sellable, 100)
      OBVIOUS
  <2>2. Listing(q) /\ Recommend!Ids(q) \subseteq Recommend!Sellable
    BY Zenon, <1>4, <2>1, PopularLists
  <2>3. 2 * t \in Nat
      OBVIOUS
  <2>4. /\ Listing(Recommend!Cut(q, 2 * t))
        /\ Recommend!Ids(Recommend!Cut(q, 2 * t)) \subseteq Recommend!Sellable
    BY Zenon, <2>2, <2>3, CutLists
  <2>5. ask' = Recommend!Answer(Recommend!Cut(q, 2 * t)) /\ ask.kind = "popular"
    BY Zenon, <1>3, <1>7, <2>1 DEF Recommend!GetPopular, Recommend!getPopular
  <2> QED BY <1>6, <2>4, <2>5
<1>8. CASE Recommend!GetNewArrivals
  <2>1. PICK since \in Wares :
          ask' = Recommend!Answer(Recommend!Cut(
                   Recommend!ByPopularity({i \in Recommend!Sellable : i >= since}, 100), 2 * ask.limit))
    BY Zenon, <1>8 DEF Recommend!GetNewArrivals
  <2>2. PICK pool : pool = {i \in Recommend!Sellable : i >= since}
      OBVIOUS
  <2>3. pool \subseteq Recommend!Sellable /\ pool \subseteq Wares
    BY <1>4, <2>2
  <2>4. PICK q : q = Recommend!ByPopularity(pool, 100)
      OBVIOUS
  <2>5. Listing(q) /\ Recommend!Ids(q) \subseteq Recommend!Sellable
    BY Zenon, <2>3, <2>4, PopularLists
  <2>6. 2 * t \in Nat
      OBVIOUS
  <2>7. /\ Listing(Recommend!Cut(q, 2 * t))
        /\ Recommend!Ids(Recommend!Cut(q, 2 * t)) \subseteq Recommend!Sellable
    BY Zenon, <2>5, <2>6, CutLists
  <2>8. ask' = Recommend!Answer(Recommend!Cut(q, 2 * t))
    BY Zenon, <1>3, <2>1, <2>2, <2>4
  <2>9. ask.kind = "new"
    BY Zenon, <1>8 DEF Recommend!GetNewArrivals
  <2> QED BY <1>6, <2>7, <2>8, <2>9
<1>9. CASE Recommend!GetComplementary
  <2>1. PICK q : q = Recommend!findComplementaryItems(ask.item, 2 * t)
      OBVIOUS
  <2>2. 2 * t \in Nat
      OBVIOUS
  <2>3. PICK ref \in Wares : ref = ask.item
    BY <1>4
  <2>4. Listing(q) /\ Recommend!Ids(q) \subseteq Recommend!Sellable
    BY Zenon, <1>1, <2>1, <2>2, <2>3, ComplementaryLists
  <2>5. ask' = Recommend!Answer(q) /\ ask.kind = "complementary"
    BY Zenon, <1>3, <1>9, <2>1 DEF Recommend!GetComplementary
  <2> QED BY <1>6, <2>4, <2>5
<1>10. CASE Recommend!FindByIds
  <2>1. ask.step = "scored" /\ ask.kind # "personalized"
    BY <1>1, <1>10 DEF Recommend!FindByIds, AskFollows
  <2>2. CASE ask' = Recommend!Answer(ask.found)
    <3>1. PICK q : q = ask.found
        OBVIOUS
    <3>2. ask.still => Recommend!Ids(q) \subseteq Recommend!Sellable
      BY Zenon, <1>1, <2>1, <3>1 DEF AskFollows
    <3>3. ask.kind = "similar" => ask.item \notin Recommend!Ids(q)
      BY Zenon, <1>1, <2>1, <3>1 DEF AskFollows
    <3> QED BY Zenon, <1>1, <1>2, <1>4, <2>1, <2>2, <3>1, <3>2, <3>3, RecAnswers
  <2>3. CASE ask' = [ask EXCEPT !.step = "refused"]
    <3>1. /\ ask' \in [kind : Recommend!Kinds, limit : Limits, item : Wares, diverse : BOOLEAN,
                       step : AskSteps, owned : SUBSET Wares, found : Seq(Result),
                       answer : Seq(Result), still : BOOLEAN]
          /\ ask'.step = "refused" /\ ask'.found = ask.found
      BY <1>1, <2>3 DEF AskTypes, AskSteps
    <3>2. WareTypes' /\ AskTypes'
      BY Zenon, <1>1, <1>2, <3>1 DEF WareTypes, AskTypes
    <3> QED BY <3>1, <3>2 DEF AskFollows, Recommend!AnswersAreSound
  <2> QED BY Zenon, <1>10, <2>2, <2>3 DEF Recommend!FindByIds
<1>11. CASE Recommend!GetPersonalized
  <2>1. ask.step = "others"
    BY <1>11 DEF Recommend!GetPersonalized
  <2>2. PICK taste, m : /\ m = (3 * t + 1) \div 2
                        /\ ask' = Recommend!Answer(Recommend!ensembleRanking(ask.found,
                                    Recommend!contentBasedFiltering(ask.owned, taste, m), 2 * t))
    BY Zenon, <1>3, <1>11 DEF Recommend!GetPersonalized
  <2>3. m \in Nat /\ 2 * t \in Nat
    <3>1. 3 * t + 1 \in Nat /\ 2 \in Nat \ {0} /\ 2 * t \in Nat
        OBVIOUS
    <3> QED BY <2>2, <3>1, Quotient
  <2>4. PICK c : c = Recommend!contentBasedFiltering(ask.owned, taste, m)
      OBVIOUS
  <2>5. Listing(c) /\ Recommend!Ids(c) \subseteq Recommend!Sellable \ ask.owned
    <3>1. PICK o : o = ask.owned
        OBVIOUS
    <3> QED BY Zenon, <2>3, <2>4, <3>1, ContentLists
  <2>6. PICK f : f = ask.found
      OBVIOUS
  <2>7. PICK q : q = Recommend!ensembleRanking(f, c, 2 * t)
      OBVIOUS
  <2>8. Listing(q) /\ Recommend!Ids(q) \subseteq Recommend!Ids(f) \cup Recommend!Ids(c)
    BY Zenon, <1>4, <2>3, <2>5, <2>6, <2>7, EnsembleLists
  <2>9. ask.still => Recommend!Ids(q) \subseteq Recommend!Sellable
                     /\ Recommend!Ids(q) \cap Recommend!Favorites(me) = {}
    <3> SUFFICES ASSUME ask.still PROVE Recommend!Ids(q) \subseteq Recommend!Sellable
                                        /\ Recommend!Ids(q) \cap Recommend!Favorites(me) = {}
        OBVIOUS
    <3>1. /\ Recommend!Ids(f) \subseteq Recommend!Sellable /\ ask.owned = Recommend!Favorites(me)
          /\ Recommend!Ids(f) \cap Recommend!Favorites(me) = {}
      BY Zenon, <1>1, <2>1, <2>6 DEF AskFollows
    <3> QED BY Zenon, <2>5, <2>8, <3>1
  <2>10. ask.kind # "similar"
    BY <1>1, <2>1 DEF AskFollows
  <2>11. ask' = Recommend!Answer(q)
    BY Zenon, <2>2, <2>4, <2>6, <2>7
  <2> QED BY Zenon, <1>1, <1>2, <2>8, <2>9, <2>10, <2>11, RecAnswers
<1> QED BY <1>7, <1>8, <1>9, <1>10, <1>11

(* A query that goes on to the next, or is refused.                        *)
LEMMA RecAsks ==
    ASSUME part = "recommend", part' = part, RecInv,
           \/ Recommend!GetTrending \/ Recommend!FindReference \/ Recommend!GetSimilar
           \/ Recommend!ExtractUserPreferences \/ Recommend!CollaborativeFiltering
    PROVE  RecInv'
<1>1. WareTypes /\ AskTypes /\ AskFollows
  BY DEF RecInv
<1>2. UNCHANGED <<ware, favored, shopEvents>>
  BY DEF Recommend!GetTrending, Recommend!FindReference, Recommend!GetSimilar,
         Recommend!ExtractUserPreferences, Recommend!CollaborativeFiltering
<1>3. PICK t \in Nat \ {0} : t = ask.limit
  BY <1>1, WaresCount DEF AskTypes
<1>4. /\ ask \in [kind : Recommend!Kinds, limit : Limits, item : Wares, diverse : BOOLEAN, step : AskSteps,
                  owned : SUBSET Wares, found : Seq(Result), answer : Seq(Result), still : BOOLEAN]
      /\ Listing(ask.found)
  BY <1>1 DEF AskTypes
<1>5. Recommend!Sellable' = Recommend!Sellable /\ Recommend!Favorites(me)' = Recommend!Favorites(me)
  BY Zenon, <1>2 DEF Recommend!Sellable, Recommend!Favorites
<1>6. SUFFICES AskTypes' /\ AskFollows' /\ ask'.step # "answered"
  <2>1. WareTypes'
    BY Zenon, <1>1, <1>2 DEF WareTypes
  <2> QED BY Zenon, <2>1 DEF RecInv, Recommend!AnswersAreSound
<1>7. CASE \E s \in {"candidates", "refused"} :
             /\ ask' = [ask EXCEPT !.step = s]
             /\ s = "candidates" => ask.kind # "personalized"
  <2>1. PICK s \in {"candidates", "refused"} :
          ask' = [ask EXCEPT !.step = s] /\ (s = "candidates" => ask.kind # "personalized")
    BY Zenon, <1>7
  <2>2. /\ ask' \in [kind : Recommend!Kinds, limit : Limits, item : Wares, diverse : BOOLEAN,
                     step : AskSteps, owned : SUBSET Wares, found : Seq(Result),
                     answer : Seq(Result), still : BOOLEAN]
        /\ ask'.step = s /\ ask'.found = ask.found /\ ask'.kind = ask.kind
    BY <1>4, <2>1 DEF AskSteps
  <2>3. AskTypes'
    BY Zenon, <1>1, <1>2, <2>2 DEF AskTypes
  <2> QED BY <2>1, <2>2, <2>3 DEF AskFollows
<1>8. CASE Recommend!GetTrending \/ Recommend!FindReference
  <2>1. CASE Recommend!GetTrending
    BY <1>7, <2>1 DEF Recommend!GetTrending
  <2>2. CASE Recommend!FindReference
    BY <1>7, <2>2 DEF Recommend!FindReference
  <2> QED BY <1>8, <2>1, <2>2
<1>9. CASE Recommend!GetSimilar
  <2>1. PICK m : m = (IF ask.kind = "similar" THEN 3 ELSE 6) * t
      OBVIOUS
  <2>2. m \in Nat
    BY <2>1
  <2>3. PICK ref \in Wares : ref = ask.item
    BY <1>4
  <2>4. PICK q : q = Recommend!calculateSimilarity(ref, m)
      OBVIOUS
  <2>5. Listing(q) /\ Recommend!Ids(q) \subseteq Recommend!Sellable \ {ref}
    BY Zenon, <1>1, <2>2, <2>4, SimilarLists
  <2>6. ask' = [ask EXCEPT !.step = "scored", !.found = q] /\ ask.step = "candidates"
    BY Zenon, <1>3, <1>9, <2>1, <2>3, <2>4 DEF Recommend!GetSimilar
  <2>7. q \in Seq(Result)
    BY <2>5 DEF Listing
  <2>8. /\ ask' \in [kind : Recommend!Kinds, limit : Limits, item : Wares, diverse : BOOLEAN,
                     step : AskSteps, owned : SUBSET Wares, found : Seq(Result),
                     answer : Seq(Result), still : BOOLEAN]
        /\ ask'.step = "scored" /\ ask'.found = q /\ ask'.kind = ask.kind /\ ask'.item = ref
    BY <1>4, <2>3, <2>6, <2>7 DEF AskSteps
  <2>9. AskTypes'
    BY Zenon, <1>1, <1>2, <2>5, <2>8 DEF AskTypes
  <2>10. ask.kind # "personalized"
    BY <1>1, <2>6 DEF AskFollows
  <2>11. Recommend!Ids(ask'.found) \subseteq Recommend!Sellable' /\ ask'.item \notin Recommend!Ids(ask'.found)
    BY Zenon, <1>5, <2>5, <2>8
  <2> QED BY <2>8, <2>9, <2>10, <2>11 DEF AskFollows
<1>10. CASE Recommend!ExtractUserPreferences
  <2>1. PICK o \in SUBSET Wares : o = Recommend!Favorites(me)
    BY DEF Recommend!Favorites
  <2>2. ask' = [ask EXCEPT !.step = "tastes", !.owned = o] /\ ask.kind = "personalized"
    BY Zenon, <1>10, <2>1 DEF Recommend!ExtractUserPreferences
  <2>3. /\ ask' \in [kind : Recommend!Kinds, limit : Limits, item : Wares, diverse : BOOLEAN,
                     step : AskSteps, owned : SUBSET Wares, found : Seq(Result),
                     answer : Seq(Result), still : BOOLEAN]
        /\ ask'.step = "tastes" /\ ask'.found = ask.found /\ ask'.kind = "personalized" /\ ask'.owned = o
    BY <1>4, <2>2 DEF AskSteps
  <2>4. AskTypes'
    BY Zenon, <1>1, <1>2, <2>3 DEF AskTypes
  <2>5. ask'.owned = Recommend!Favorites(me)'
    BY Zenon, <1>5, <2>1, <2>3
  <2> QED BY <2>3, <2>4, <2>5 DEF AskFollows
<1>11. CASE Recommend!CollaborativeFiltering
  <2>1. PICK m : m = (3 * t + 1) \div 2
      OBVIOUS
  <2>2. m \in Nat
    <3>1. 3 * t + 1 \in Nat /\ 2 \in Nat \ {0}
        OBVIOUS
    <3> QED BY <2>1, <3>1, Quotient
  <2>3. PICK q : q = Recommend!collaborativeFiltering(m)
      OBVIOUS
  <2>4. Listing(q) /\ Recommend!Ids(q) \subseteq Recommend!Sellable \ Recommend!Favorites(me)
    BY Zenon, <2>2, <2>3, OthersLists
  <2>5. ask' = [ask EXCEPT !.step = "others", !.found = q] /\ ask.step = "tastes"
    BY Zenon, <1>3, <1>11, <2>1, <2>3 DEF Recommend!CollaborativeFiltering
  <2>6. q \in Seq(Result)
    BY <2>4 DEF Listing
  <2>7. /\ ask' \in [kind : Recommend!Kinds, limit : Limits, item : Wares, diverse : BOOLEAN,
                     step : AskSteps, owned : SUBSET Wares, found : Seq(Result),
                     answer : Seq(Result), still : BOOLEAN]
        /\ ask'.step = "others" /\ ask'.found = q /\ ask'.kind = ask.kind /\ ask'.owned = ask.owned
        /\ ask'.still = ask.still
    BY <1>4, <2>5, <2>6 DEF AskSteps
  <2>8. AskTypes'
    BY Zenon, <1>1, <1>2, <2>4, <2>7 DEF AskTypes
  <2>9. ask.kind = "personalized" /\ (ask.still => ask.owned = Recommend!Favorites(me))
    BY <1>1, <2>5 DEF AskFollows
  <2>10. /\ Recommend!Ids(ask'.found) \subseteq Recommend!Sellable'
         /\ Recommend!Ids(ask'.found) \cap Recommend!Favorites(me)' = {}
    BY Zenon, <1>5, <2>4, <2>7
  <2>11. ask'.still => ask'.owned = Recommend!Favorites(me)'
    BY Zenon, <1>5, <2>7, <2>9
  <2> QED BY <2>7, <2>8, <2>9, <2>10, <2>11 DEF AskFollows
<1> QED BY <1>8, <1>9, <1>10, <1>11

(* An item goes, or a favorite comes: the request is no longer still.      *)
LEMMA RecDisturbed ==
    ASSUME part = "recommend", part' = part, RecInv, Recommend!DeleteWare \/ Recommend!AddFavorite
    PROVE  RecInv'
<1>1. WareTypes /\ AskTypes /\ AskFollows
  BY DEF RecInv
<1>2. /\ ask \in [kind : Recommend!Kinds, limit : Limits, item : Wares, diverse : BOOLEAN, step : AskSteps,
                  owned : SUBSET Wares, found : Seq(Result), answer : Seq(Result), still : BOOLEAN]
      /\ Listing(ask.found) /\ favored \subseteq Shoppers \X Wares
  BY <1>1 DEF AskTypes
<1>3. /\ ask' = [ask EXCEPT !.still = FALSE] /\ ask.step # "answered"
      /\ shopEvents < MaxShopEvents /\ shopEvents' = shopEvents + 1
  BY DEF Recommend!DeleteWare, Recommend!AddFavorite
<1>4. /\ ask'.step = ask.step /\ ask'.kind = ask.kind /\ ask'.item = ask.item /\ ask'.found = ask.found
      /\ ask'.still = FALSE
  BY <1>2, <1>3
<1>5. ask' \in [kind : Recommend!Kinds, limit : Limits, item : Wares, diverse : BOOLEAN, step : AskSteps,
                owned : SUBSET Wares, found : Seq(Result), answer : Seq(Result), still : BOOLEAN]
  <2>1. PICK s \in BOOLEAN : s = FALSE
    BY Zenon
  <2>2. ask' = [ask EXCEPT !.still = s]
    BY <1>3, <2>1
  <2> QED BY <1>2, <2>2
<1>6. shopEvents' \in 0..MaxShopEvents
  BY <1>1, <1>3, WaresCount DEF AskTypes
<1>7. favored' \subseteq Shoppers \X Wares
  BY <1>2, SizesAssumption DEF Recommend!DeleteWare, Recommend!AddFavorite, SizesAssumption
<1>8. AskTypes'
  BY Zenon, <1>2, <1>4, <1>5, <1>6, <1>7 DEF AskTypes
<1>9. AskFollows' /\ Recommend!AnswersAreSound'
  BY <1>1, <1>3, <1>4 DEF AskFollows, Recommend!AnswersAreSound
<1>10. WareTypes'
  <2>1. CASE Recommend!AddFavorite
    BY Zenon, <1>1, <2>1 DEF Recommend!AddFavorite, WareTypes
  <2>2. CASE Recommend!DeleteWare
    <3>1. PICK i \in Wares : ware' = [ware EXCEPT ![i].live = FALSE]
      BY <2>2 DEF Recommend!DeleteWare, Recommend!Sellable
    <3>2. /\ DOMAIN ware = Wares
          /\ \A j \in Wares :
               /\ DOMAIN ware[j] = {"category", "type", "features", "live"} /\ ware[j].live \in BOOLEAN
               /\ \A f \in Features5 : IsFiniteSet(ware[j].features[f])
      BY Zenon, <1>1 DEF WareTypes
    <3>3. PICK w : w = [ware[i] EXCEPT !.live = FALSE]
        OBVIOUS
    <3>4. DOMAIN w = {"category", "type", "features", "live"} /\ w.features = ware[i].features
      BY <3>2, <3>3
    <3>5. w.live \in BOOLEAN
      <4>1. w.live = FALSE
        BY <3>2, <3>3
      <4> QED BY Zenon, <4>1
    <3>6. DOMAIN ware' = Wares /\ ware'[i] = w /\ \A j \in Wares : j # i => ware'[j] = ware[j]
      BY <3>1, <3>2, <3>3
    <3>7. \A j \in Wares : ware'[j] = w \/ ware'[j] = ware[j]
      BY Zenon, <3>6
    <3>8. ASSUME NEW j \in Wares
          PROVE  /\ DOMAIN ware'[j] = {"category", "type", "features", "live"} /\ ware'[j].live \in BOOLEAN
                 /\ \A f \in Features5 : IsFiniteSet(ware'[j].features[f])
      BY Zenon, <3>2, <3>4, <3>5, <3>7
    <3> QED BY Zenon, <3>6, <3>8 DEF WareTypes
  <2> QED BY <2>1, <2>2
<1> QED BY Zenon, <1>8, <1>9, <1>10 DEF RecInv

(* What a step of any service is for the recommendations.                  *)
LEMMA RecMoves ==
    [Next]_vars =>
        \/ UNCHANGED <<recommendationVars, part>>
        \/ /\ part = "recommend" /\ part' = part
           /\ \/ Recommend!GetNewArrivals \/ Recommend!GetTrending \/ Recommend!GetPopular
              \/ Recommend!FindReference \/ Recommend!GetSimilar \/ Recommend!FindByIds
              \/ Recommend!GetComplementary \/ Recommend!ExtractUserPreferences
              \/ Recommend!CollaborativeFiltering \/ Recommend!GetPersonalized
              \/ Recommend!DeleteWare \/ Recommend!AddFavorite
BY Zenon DEF Next, vars, OnItem, OnCache, OnCollection, OnBrand, OnIndex, OnRecommend, OnInteract, OnSearch

(* The invariant of the recommendations.                                   *)
LEMMA RecHolds == Spec => []RecInv
<1>1. RecInv /\ [Next]_vars => RecInv'
  <2> SUFFICES ASSUME RecInv, [Next]_vars PROVE RecInv'
      OBVIOUS
  <2>1. CASE UNCHANGED <<recommendationVars, part>>
    <3>1. ware' = ware /\ favored' = favored /\ ask' = ask /\ shopEvents' = shopEvents /\ part' = part
      BY <2>1 DEF recommendationVars
    <3>2. WareTypes' = WareTypes /\ AskTypes' = AskTypes
      BY Zenon, <3>1 DEF WareTypes, AskTypes
    <3>3. Recommend!Sellable' = Recommend!Sellable /\ Recommend!Favorites(me)' = Recommend!Favorites(me)
      BY Zenon, <3>1 DEF Recommend!Sellable, Recommend!Favorites
    <3>4. AskFollows => AskFollows'
      BY Zenon, <3>1, <3>3 DEF AskFollows
    <3>5. Recommend!AnswersAreSound => Recommend!AnswersAreSound'
      <4>1. /\ Recommend!CategoriesOf(Recommend!Cut(ask.found, ask.limit))'
                 = Recommend!CategoriesOf(Recommend!Cut(ask.found, ask.limit))
            /\ Recommend!CategoriesOf(ask.answer)' = Recommend!CategoriesOf(ask.answer)
        BY <3>1 DEF Recommend!CategoriesOf
      <4> QED BY Zenon, <3>1, <3>3, <4>1 DEF Recommend!AnswersAreSound
    <3> QED BY Zenon, <3>1, <3>2, <3>4, <3>5 DEF RecInv
  <2>2. CASE ~UNCHANGED <<recommendationVars, part>>
    BY Zenon, <2>2, RecMoves, RecGives, RecAsks, RecDisturbed
  <2> QED BY Zenon, <2>1, <2>2
<1> QED BY <1>1, RecInit, PTL DEF Spec

(* What the catalog answers is what was asked for, whatever happens        *)
(* meanwhile: a page walk over an unchanged index finds every hit once;    *)
(* recommendations are as many different items as there can be, diverse    *)
(* ones with every category of the best, and if nothing changed under the  *)
(* request all for sale, none the item asked about or already a favorite.  *)
THEOREM AnswersSound == Spec => []AnswersAreSound
<1>1. RecInv /\ SearchInv => AnswersAreSound
  <2>1. RecInv => Recommend!AnswersAreSound
    BY DEF RecInv, Recommend!AnswersAreSound
  <2> QED BY Zenon, <2>1, SearchComplete DEF AnswersAreSound
<1> QED BY <1>1, RecHolds, SearchHolds, PTL

-----------------------------------------------------------------------------
(***************************************************************************)
(* The types of all services.                                              *)
(***************************************************************************)
Parts == {"item", "cache", "coll", "partner", "reindex", "recommend", "interact", "search"}

PartInv == part \in Parts

(* A behaviour exercises one service, and the same one for ever.           *)
LEMMA PartStays == Spec => []PartInv
<1>1. Init => PartInv
  BY DEF Init, PartInv, Parts
<1>2. PartInv /\ [Next]_vars => PartInv'
  <2>1. [Next]_vars => part' = part
    BY Zenon DEF Next, vars, OnItem, OnCache, OnCollection, OnBrand, OnIndex, OnRecommend,
             OnInteract, OnSearch
  <2> QED BY Zenon, <2>1 DEF PartInv
<1> QED BY <1>1, <1>2, PTL DEF Spec

(* What has two members never has one at most; each service counts alike.  *)
LEMMA SmallCounts ==
    ASSUME NEW S, Small(S)
    PROVE  /\ Cardinality(S) <= 1 /\ IsFiniteSet(S)
           /\ Item!Cardinality(S) = Cardinality(S) /\ Cache!Cardinality(S) = Cardinality(S)
           /\ Brand!Cardinality(S) = Cardinality(S) /\ Collection!Cardinality(S) = Cardinality(S)
           /\ Index!Cardinality(S) = Cardinality(S) /\ Search!Cardinality(S) = Cardinality(S)
<1>1. Cardinality(S) <= 1 /\ IsFiniteSet(S)
  <2>1. CASE S = {}
    BY <2>1, FS_EmptySet
  <2>2. CASE S # {}
    <3>1. PICK x : x \in S
      BY <2>2
    <3>2. S = {x}
      <4>1. \A y \in S : y = x
        BY <3>1 DEF Small
      <4> QED BY <3>1, <4>1
    <3>3. IsFiniteSet({x}) /\ Cardinality({x}) = 1
      BY Zenon, FS_Singleton
    <3> QED BY <3>2, <3>3
  <2> QED BY <2>1, <2>2
<1>2. /\ Item!Cardinality(S) = Cardinality(S) /\ Cache!Cardinality(S) = Cardinality(S)
      /\ Brand!Cardinality(S) = Cardinality(S) /\ Collection!Cardinality(S) = Cardinality(S)
      /\ Index!Cardinality(S) = Cardinality(S) /\ Search!Cardinality(S) = Cardinality(S)
  BY DEF Item!Cardinality, Cache!Cardinality, Brand!Cardinality, Collection!Cardinality,
         Index!Cardinality, Search!Cardinality, Cardinality
<1> QED BY <1>1, <1>2

(* The items are well typed, by what their invariant says.                 *)
LEMMA ItemTyped == ItemInv => Item!TypeOK
<1> SUFFICES ASSUME ItemInv PROVE Item!TypeOK
    OBVIOUS
<1>1. \A i \in Items : memo[i] \subseteq Item!Copies /\ Item!Cardinality(memo[i]) <= 1
  BY SmallCounts DEF ItemInv, ItemTypes, ItemCopies
<1>2. \A c \in Calls :
         /\ call[c].op \in {"none", "create", "get", "update", "delete", "list"}
         /\ call[c].copy \subseteq Item!Copies
  BY DEF ItemInv, ItemTypes, ItemCall, ItemOps
<1>3. Item!Stored \subseteq Items /\ \A i \in Item!Stored : row[i] \in Item!Copies
  BY DEF ItemInv, ItemTypes, Item!Stored
<1> QED BY <1>1, <1>2, <1>3 DEF ItemInv, ItemTypes, Item!TypeOK, Item!CatalogFlexible

(* The layered cache, from its invariant.                                  *)
LEMMA CacheTyped == CacheInv => Cache!TypeOK
<1> SUFFICES ASSUME CacheInv PROVE Cache!TypeOK
    OBVIOUS
<1>1. \A i \in Items : Cache!Cardinality(l1[i]) <= 1 /\ Cache!Cardinality(l2[i]) <= 1
  BY SmallCounts DEF CacheInv, CacheCopies
<1>2. \A c \in Readers : reader[c].step \in {"idle", "l2", "l3", "set", "setex", "del"}
  BY DEF CacheInv, CacheTypes, CacheCall, CacheSteps
<1> QED BY <1>1, <1>2 DEF CacheInv, CacheTypes, Published, Cache!TypeOK

(* The partners, from theirs.                                              *)
LEMMA BrandTyped == BrandInv => Brand!TypeOK
<1> SUFFICES ASSUME BrandInv PROVE Brand!TypeOK
    OBVIOUS
<1>1. \A k \in Brand!CacheKeys : Brand!Cardinality(kept[k]) <= 1
  BY SmallCounts DEF BrandInv, BrandPaths
<1>2. \A c \in PartnerCalls : pcall[c].dto \subseteq Brand!Dto
  BY DEF BrandInv, BrandTypes, BrandCall
<1>3. \A p \in DOMAIN partner : partner[p] \in Brand!BrandPartner
  BY DEF BrandInv, BrandTypes
<1> QED BY <1>1, <1>2, <1>3 DEF BrandInv, BrandTypes, Brand!TypeOK

(* The search, from its own.                                               *)
LEMMA SearchTyped == SearchInv => Search!TypeOK
<1> SUFFICES ASSUME SearchInv PROVE Search!TypeOK
    OBVIOUS
<1>1. \A p \in Search!PageNumbers : Search!Cardinality(answers[p]) <= 1
  BY SmallCounts DEF SearchInv, SearchTypes, Small
<1> QED BY <1>1 DEF SearchInv, SearchTypes, Search!TypeOK

(* The recommendations, where they are asked for.                          *)
LEMMA RecTyped == part = "recommend" /\ RecInv => Recommend!TypeOK
<1> SUFFICES ASSUME part = "recommend", RecInv PROVE Recommend!TypeOK
    OBVIOUS
<1>1. WareTypes /\ AskTypes
  BY Zenon DEF RecInv
<1>2. Recommend!Ids(ask.found) \subseteq Wares
  <2>1. PICK q \in Seq(Result) : q = ask.found
    BY <1>1 DEF AskTypes
  <2>2. \A n \in DOMAIN q : q[n] \in Result
      OBVIOUS
  <2> QED BY <2>1, <2>2 DEF Recommend!Ids, Result
<1>3. \A i \in Wares : ware[i].live \in BOOLEAN
  BY <1>1 DEF WareTypes
<1> QED BY <1>1, <1>2, <1>3 DEF AskTypes, AskSteps, Recommend!TypeOK

-----------------------------------------------------------------------------
(* Whatever is still to be counted has been tracked, and the counters have *)
(* not counted more than the rest.                                         *)
Counters ==
    /\ kind \in Seq(Interact!InteractionTypes) /\ Len(kind) <= MaxTracked
    /\ counting \subseteq 1..Len(kind)
    /\ viewCount \in Nat /\ viewCount + Cardinality(counting) <= Len(kind)
    /\ useCount \in Nat /\ useCount + Cardinality(counting) <= Len(kind)
    /\ cleared \in BOOLEAN /\ flushFaults \in 0..MaxFlushFaults

(* What is to be counted can be.                                           *)
LEMMA CountersFinite ==
    ASSUME Counters
    PROVE  /\ Len(kind) \in Nat /\ IsFiniteSet(counting) /\ Cardinality(counting) \in Nat
           /\ \A n : /\ n \notin counting => Cardinality(counting \cup {n}) = Cardinality(counting) + 1
                     /\ n \in counting => Cardinality(counting \ {n}) = Cardinality(counting) - 1
<1>1. Len(kind) \in Nat
  BY DEF Counters
<1>2. IsFiniteSet(1..Len(kind))
  BY <1>1, FS_Interval
<1>3. IsFiniteSet(counting)
  BY <1>2, FS_Subset DEF Counters
<1> QED BY <1>1, <1>3, FS_CardinalityType, FS_AddElement, FS_RemoveElement

(* Tracking one makes room for one more to count.                          *)
LEMMA CountersTrack == Counters /\ Interact!TrackInteraction => Counters'
<1> SUFFICES ASSUME Counters, Interact!TrackInteraction PROVE Counters'
    OBVIOUS
<1>1. PICK q \in Seq(Interact!InteractionTypes) : q = kind
  BY DEF Counters
<1>2. PICK t \in Interact!InteractionTypes : kind' = Append(q, t)
  BY <1>1 DEF Interact!TrackInteraction
<1>3. kind' \in Seq(Interact!InteractionTypes) /\ Len(kind') = Len(q) + 1 /\ Len(q) \in Nat
  BY <1>2
<1>4. Len(q) < MaxTracked /\ counting' = counting \cup {Len(q) + 1}
      /\ viewCount' = viewCount /\ useCount' = useCount /\ cleared' = cleared /\ flushFaults' = flushFaults
  BY <1>1 DEF Interact!TrackInteraction
<1>5. counting \subseteq 1..Len(q)
  BY <1>1 DEF Counters
<1>6. Len(q) + 1 \notin counting
  BY <1>3, <1>5
<1>7. Cardinality(counting') = Cardinality(counting) + 1 /\ Cardinality(counting) \in Nat
  BY <1>4, <1>6, CountersFinite
<1>8. counting' \subseteq 1..Len(kind')
  <2>1. \A n \in Nat : counting \subseteq 1..n => counting \cup {n + 1} \subseteq 1..(n + 1)
      OBVIOUS
  <2> QED BY <1>3, <1>4, <1>5, <2>1
<1>9. MaxTracked \in Nat
  BY BoundsAssumption
<1> QED BY <1>1, <1>3, <1>4, <1>7, <1>8, <1>9 DEF Counters

(* Counting one takes it from those to count.                              *)
LEMMA CountersCount ==
    ASSUME Counters, NEW n, Interact!UpdateItemCounters(n)
    PROVE  Counters'
<1>1. n \in counting /\ counting' = counting \ {n} /\ kind' = kind /\ cleared' = cleared /\ flushFaults' = flushFaults
  BY DEF Interact!UpdateItemCounters
<1>2. /\ viewCount' \in {viewCount, viewCount + 1}
      /\ useCount' \in {useCount, useCount + 1}
  BY DEF Interact!UpdateItemCounters, Counters
<1>3. Cardinality(counting') = Cardinality(counting) - 1 /\ Cardinality(counting) \in Nat /\ Len(kind) \in Nat
  BY <1>1, CountersFinite
<1> QED BY <1>1, <1>2, <1>3 DEF Counters

(* The flushes count nothing; at most a fault.                             *)
LEMMA CountersHold == Spec => []Counters
<1>1. Init => Counters
  <2> SUFFICES ASSUME Init PROVE Counters
      OBVIOUS
  <2>1. kind = <<>> /\ counting = {} /\ viewCount = 0 /\ useCount = 0 /\ cleared = FALSE /\ flushFaults = 0
    BY DEF Init, Interact!Init
  <2>2. <<>> \in Seq(Interact!InteractionTypes) /\ Len(<<>>) = 0
      OBVIOUS
  <2>3. Cardinality({}) = 0
    BY FS_EmptySet
  <2>4. MaxTracked \in Nat /\ MaxFlushFaults \in Nat
    BY BoundsAssumption
  <2>5. kind \in Seq(Interact!InteractionTypes) /\ Len(kind) = 0
    BY Zenon, <2>1, <2>2
  <2>6. Cardinality(counting) = 0
    BY Zenon, <2>1, <2>3
  <2>7. FALSE \in BOOLEAN
    BY Zenon
  <2>8. cleared \in BOOLEAN
    BY Zenon, <2>1, <2>7
  <2>9. viewCount = 0 /\ useCount = 0 /\ flushFaults = 0 /\ counting = {}
    BY <2>1
  <2> QED BY <2>4, <2>5, <2>6, <2>8, <2>9 DEF Counters
<1>2. Counters /\ [Next]_vars => Counters'
  <2>1. ASSUME Counters, UNCHANGED <<kind, counting, viewCount, useCount>>,
               cleared' \in BOOLEAN, flushFaults' \in 0..MaxFlushFaults
        PROVE  Counters'
    BY <2>1 DEF Counters
  <2>2. ASSUME Counters, Interact!FlushInterval \/ Interact!ClearBuffer PROVE Counters'
    BY <2>1, <2>2 DEF Counters, Interact!FlushInterval, Interact!ClearBuffer
  <2>3. ASSUME Counters, NEW f, Interact!InsertBatch(f) \/ Interact!FlushFails(f) PROVE Counters'
    <3>1. MaxFlushFaults \in Nat
      BY BoundsAssumption
    <3> QED BY <2>1, <2>3, <3>1 DEF Counters, Interact!InsertBatch, Interact!FlushFails
  <2>4. Counters /\ UNCHANGED interactionVars => Counters'
    BY <2>1 DEF Counters, interactionVars
  <2> QED BY Zenon, <2>2, <2>3, <2>4, InteractMoves, CountersTrack, CountersCount
<1> QED BY <1>1, <1>2, PTL DEF Spec

(* The interactions are well typed.                                        *)
LEMMA InteractTyped == InteractInv /\ Counters => Interact!TypeOK
<1> SUFFICES ASSUME InteractInv, Counters PROVE Interact!TypeOK
    OBVIOUS
<1>1. DOMAIN kind = 1..Len(kind) /\ Len(kind) \in Nat
  BY DEF Counters
<1>2. Cardinality(counting) \in Nat
  BY CountersFinite
<1>3. Batch(buffer) \subseteq 1..Len(kind) /\ Batch(stored) \subseteq 1..Len(kind)
  BY DEF InteractInv, All
<1>4. \A f \in Flushes : Batch(flush[f]) \subseteq 1..Len(kind)
  BY DEF InteractInv, All, UnderWay
<1>5. \A s : Interact!Range(s) = Batch(s)
  BY DEF Batch, Interact!Range
<1> QED BY <1>1, <1>2, <1>3, <1>4, <1>5 DEF Counters, Interact!TypeOK, Interact!Tracked

-----------------------------------------------------------------------------
(* One reindexing at most is in progress, and the flag says whether.       *)
Busy(j) == job[j].step \in {"count", "fetch", "bulk"}
Flagged ==
    /\ isReindexing \in BOOLEAN /\ \A j \in Jobs : Busy(j) => isReindexing
    /\ isReindexing => \E j \in Jobs : Busy(j)
    /\ \A j, k \in Jobs : Busy(j) /\ Busy(k) => j = k

(* A call that takes a step alone may start only when none is in progress, *)
(* and sets the flag to whether it is in progress itself, if one was not.  *)
LEMMA FlagMoves ==
    ASSUME Flagged, NEW j \in Jobs, \A k \in Jobs \ {j} : Busy(k)' = Busy(k), isReindexing' \in BOOLEAN,
           Busy(j) \/ ~isReindexing => (isReindexing' <=> Busy(j)'),
           ~Busy(j) /\ isReindexing => isReindexing' /\ ~Busy(j)'
    PROVE  Flagged'
<1> DEFINE B == {k \in Jobs : Busy(k)}
           C == {k \in Jobs : Busy(k)'}
<1>1. /\ \A k \in B : isReindexing /\ \A m \in B : k = m
      /\ isReindexing => B # {}
      /\ B \ {j} = C \ {j} /\ (j \in B <=> Busy(j)) /\ (j \in C <=> Busy(j)')
  <2>1. \A k \in Jobs : k \in B <=> Busy(k)
    BY Zenon
  <2>2. \A k \in Jobs : k \in C <=> Busy(k)'
    BY Zenon
  <2>3. B \ {j} = C \ {j}
    BY Zenon, <2>1, <2>2
  <2>4. \A k \in B : isReindexing /\ \A m \in B : k = m
    BY Zenon, <2>1 DEF Flagged
  <2>5. isReindexing => B # {}
    BY Zenon, <2>1 DEF Flagged
  <2> QED BY Zenon, <2>1, <2>2, <2>3, <2>4, <2>5
<1>2. PICK b \in SUBSET Jobs, c \in SUBSET Jobs : b = B /\ c = C
  BY Zenon
<1>3. /\ j \in b \/ ~isReindexing => (isReindexing' <=> j \in c)
      /\ j \notin b /\ isReindexing => isReindexing' /\ j \notin c
      /\ \A k \in b : isReindexing /\ \A m \in b : k = m
      /\ isReindexing => b # {}
      /\ b \ {j} = c \ {j}
  BY Zenon, <1>1, <1>2
<1>4. \A k \in c : isReindexing' /\ \A m \in c : k = m
  BY <1>3
<1>5. isReindexing' => c # {}
  BY <1>3
<1>6. \A k \in Jobs : k \in c <=> Busy(k)'
  BY Zenon, <1>2
<1> QED BY Zenon, <1>4, <1>5, <1>6 DEF Flagged

(* What disturbs other jobs, or replaces one, keeps where the others are.  *)
LEMMA OthersStay ==
    ASSUME IndexTypes, NEW j, NEW x,
           job' = [job EXCEPT ![j] = x] \/ job' = [Index!Disturbed(j) EXCEPT ![j] = x]
    PROVE  /\ \A k \in Jobs \ {j} : /\ Busy(k)' = Busy(k) /\ job'[k].total = job[k].total
                                    /\ job'[k].batch = job[k].batch
           /\ j \in Jobs => job'[j] = x
<1>1. job \in [Jobs -> IndexJob]
  BY DEF IndexTypes
<1>2. \A k \in Jobs \ {j} : job'[k] = job[k] \/ job'[k] = [job[k] EXCEPT !.quiet = FALSE]
  BY <1>1 DEF Index!Disturbed
<1>3. ASSUME NEW y \in IndexJob
      PROVE  /\ [y EXCEPT !.quiet = FALSE].step = y.step /\ [y EXCEPT !.quiet = FALSE].total = y.total
             /\ [y EXCEPT !.quiet = FALSE].batch = y.batch
  BY DEF IndexJob
<1>4. \A k \in Jobs \ {j} : /\ job'[k].step = job[k].step /\ job'[k].total = job[k].total
                            /\ job'[k].batch = job[k].batch
  BY <1>1, <1>2, <1>3
<1>5. j \in Jobs => job'[j] = x
  BY <1>1 DEF Index!Disturbed
<1> QED BY <1>4, <1>5 DEF Busy

(* The others' writes disturb all jobs, and stop none.                     *)
LEMMA AllStay ==
    ASSUME IndexTypes, job' = Index!Disturbed(0)
    PROVE  \A k \in Jobs : /\ Busy(k)' = Busy(k) /\ job'[k].total = job[k].total
                           /\ job'[k].batch = job[k].batch
<1>1. job \in [Jobs -> IndexJob]
  BY DEF IndexTypes
<1>2. \A k \in Jobs : job'[k] = job[k] \/ job'[k] = [job[k] EXCEPT !.quiet = FALSE]
  BY <1>1 DEF Index!Disturbed
<1>3. ASSUME NEW y \in IndexJob
      PROVE  /\ [y EXCEPT !.quiet = FALSE].step = y.step /\ [y EXCEPT !.quiet = FALSE].total = y.total
             /\ [y EXCEPT !.quiet = FALSE].batch = y.batch
  BY DEF IndexJob
<1>4. \A k \in Jobs : /\ job'[k].step = job[k].step /\ job'[k].total = job[k].total
                      /\ job'[k].batch = job[k].batch
  BY <1>1, <1>2, <1>3
<1> QED BY <1>4 DEF Busy

(* Every step of a reindexing keeps the flag.                              *)
LEMMA FlagKept ==
    ASSUME IndexTypes, Flagged, NEW j \in Jobs,
           \/ Index!ReindexAll(j) \/ Index!CountItems(j) \/ Index!FetchBatch(j)
           \/ Index!BulkIndex(j) \/ Index!ReindexThrows(j) \/ Index!RebuildIndex(j)
           \/ Index!DeleteIndex(j) \/ Index!CreateIndex(j) \/ Index!RebuildThrows(j)
    PROVE  Flagged'
<1>1. job \in [Jobs -> IndexJob] /\ job[j] \in IndexJob /\ isReindexing \in BOOLEAN /\ (Busy(j) => isReindexing)
  BY DEF IndexTypes, Flagged
<1>2. ASSUME NEW x \in IndexJob, job' = [job EXCEPT ![j] = x] \/ job' = [Index!Disturbed(j) EXCEPT ![j] = x],
             isReindexing' \in BOOLEAN,
             Busy(j) => (isReindexing' <=> x.step \in {"count", "fetch", "bulk"}),
             ~Busy(j) => IF isReindexing THEN isReindexing' /\ x.step \notin {"count", "fetch", "bulk"}
                         ELSE isReindexing' <=> x.step \in {"count", "fetch", "bulk"}
      PROVE  Flagged'
  <2>1. \A k \in Jobs \ {j} : Busy(k)' = Busy(k)
    BY <1>2, OthersStay
  <2>2. job'[j] = x
    BY <1>2, OthersStay
  <2>3. Busy(j)' <=> x.step \in {"count", "fetch", "bulk"}
    BY <2>2 DEF Busy
  <2>4. /\ Busy(j) \/ ~isReindexing => (isReindexing' <=> Busy(j)')
        /\ ~Busy(j) /\ isReindexing => isReindexing' /\ ~Busy(j)'
    BY <1>2, <2>3
  <2> QED BY <1>2, <2>1, <2>4, FlagMoves
<1>3. ASSUME NEW s \in IndexSteps, job' = [job EXCEPT ![j].step = s], isReindexing' \in BOOLEAN,
             Busy(j) => (isReindexing' <=> s \in {"count", "fetch", "bulk"}),
             ~Busy(j) => IF isReindexing THEN isReindexing' /\ s \notin {"count", "fetch", "bulk"}
                         ELSE isReindexing' <=> s \in {"count", "fetch", "bulk"}
      PROVE  Flagged'
  <2>1. PICK x \in IndexJob : x = [job[j] EXCEPT !.step = s]
    BY <1>1 DEF IndexJob
  <2>2. x.step = s /\ job' = [job EXCEPT ![j] = x]
    BY <1>1, <1>3, <2>1 DEF IndexJob
  <2> QED BY <1>2, <1>3, <2>2
<1>4. CASE Index!ReindexAll(j)
  <2>1. PICK scope \in SUBSET Shown : job' = [job EXCEPT ![j].step = "count", ![j].scope = scope]
    BY <1>4 DEF Index!ReindexAll
  <2>2. PICK x \in IndexJob : x = [job[j] EXCEPT !.step = "count", !.scope = scope]
    BY <1>1 DEF IndexJob, IndexSteps
  <2>3. x.step = "count" /\ job' = [job EXCEPT ![j] = x]
    BY <1>1, <2>1, <2>2 DEF IndexJob
  <2>4. isReindexing' = TRUE /\ ~isReindexing /\ ~Busy(j)
    BY <1>4 DEF Index!ReindexAll, Busy
  <2> QED BY <1>2, <2>3, <2>4
<1>5. CASE Index!CountItems(j)
  <2>1. PICK n \in Nat, s \in {"done", "fetch"} :
          /\ job' = [job EXCEPT ![j].total = n, ![j].page = 1, ![j].step = s]
          /\ isReindexing' = (s = "fetch")
    <3>1. PICK n \in Nat : n = Index!Cardinality(Index!Active(job[j].scope))
      <4>1. Index!Active(job[j].scope) \in SUBSET Shown
        BY <1>1 DEF Index!Active, IndexJob
      <4> QED BY <4>1, CountsAgree
    <3>2. PICK s \in {"done", "fetch"} : s = IF n = 0 THEN "done" ELSE "fetch"
        OBVIOUS
    <3>3. job' = [job EXCEPT ![j].total = n, ![j].page = 1, ![j].step = s]
      BY <1>5, <3>1, <3>2 DEF Index!CountItems
    <3>4. isReindexing' = (s = "fetch")
      BY <1>5, <3>1, <3>2 DEF Index!CountItems
    <3> QED BY Zenon, <3>1, <3>2, <3>3, <3>4
  <2>2. PICK x \in IndexJob : x = [job[j] EXCEPT !.total = n, !.page = 1, !.step = s]
    BY <1>1, <2>1 DEF IndexJob, IndexSteps
  <2>3. x.step = s /\ job' = [job EXCEPT ![j] = x]
    BY <1>1, <2>1, <2>2 DEF IndexJob
  <2>4. Busy(j)
    BY <1>5 DEF Index!CountItems, Busy
  <2> QED BY <1>2, <2>1, <2>3, <2>4
<1>6. CASE Index!FetchBatch(j)
  <2>1. PICK b : job' = [job EXCEPT ![j].step = "bulk", ![j].batch = b] /\ isReindexing' = isReindexing
    BY <1>6 DEF Index!FetchBatch
  <2>2. Busy(j) /\ isReindexing
    BY <1>1, <1>6 DEF Index!FetchBatch, Busy
  <2>3. \A k \in Jobs : job'[k].step = IF k = j THEN "bulk" ELSE job[k].step
    BY <1>1, <2>1 DEF IndexJob
  <2>4. (\A k \in Jobs \ {j} : Busy(k)' = Busy(k)) /\ Busy(j)'
    BY <2>3 DEF Busy
  <2> QED BY <2>1, <2>2, <2>4, <1>1, FlagMoves
<1>7. CASE Index!BulkIndex(j)
  <2>1. PICK bad : Index!NextPage(j, bad)
    BY <1>7 DEF Index!BulkIndex
  <2>2. PICK s \in {"done", "fetch"} :
          /\ s = IF job[j].page >= Index!Ceil(job[j].total, BatchSize) THEN "done" ELSE "fetch"
          /\ isReindexing' = (s = "fetch")
    BY <2>1 DEF Index!NextPage
  <2>3. \A k \in Jobs : job'[k].step = IF k = j THEN s ELSE job[k].step
    <3>1. PICK ok, failed, page :
            job' = [Index!Disturbed(j) EXCEPT ![j].ok = ok, ![j].failed = failed, ![j].page = page,
                                              ![j].step = s]
      BY <2>1, <2>2 DEF Index!NextPage
    <3>2. DOMAIN Index!Disturbed(j) = Jobs /\ Index!Disturbed(j)[j] = job[j]
          /\ \A k \in Jobs \ {j} : Index!Disturbed(j)[k] = [job[k] EXCEPT !.quiet = FALSE]
      BY DEF Index!Disturbed
    <3>3. \A k \in Jobs \ {j} : job'[k].step = job[k].step
      BY <1>1, <3>1, <3>2 DEF IndexJob
    <3>4. job'[j].step = s
      BY <1>1, <3>1, <3>2 DEF IndexJob
    <3> QED BY <3>3, <3>4
  <2>4. Busy(j)
    BY <1>7 DEF Index!BulkIndex, Busy
  <2>5. (\A k \in Jobs \ {j} : Busy(k)' = Busy(k)) /\ (Busy(j)' <=> s = "fetch")
    BY <2>2, <2>3 DEF Busy
  <2> QED BY <2>2, <2>4, <2>5, FlagMoves
<1>8. CASE Index!ReindexThrows(j)
  <2>1. job' = [job EXCEPT ![j].step = "threw"] /\ isReindexing' = FALSE /\ Busy(j)
    BY <1>8 DEF Index!ReindexThrows, Index!Goto, Busy
  <2> QED BY <1>3, <2>1 DEF IndexSteps
<1>9. CASE Index!RebuildIndex(j)
  <2>1. job' = [job EXCEPT ![j].step = "delete", ![j].scope = Shown] /\ isReindexing' = isReindexing /\ ~Busy(j)
    BY <1>9 DEF Index!RebuildIndex, Busy
  <2>2. PICK x \in IndexJob : x = [job[j] EXCEPT !.step = "delete", !.scope = Shown]
    BY <1>1 DEF IndexJob, IndexSteps
  <2>3. x.step = "delete" /\ job' = [job EXCEPT ![j] = x]
    BY <1>1, <2>1, <2>2 DEF IndexJob
  <2> QED BY <1>1, <1>2, <2>1, <2>3
<1>10. CASE Index!DeleteIndex(j)
  <2>1. job' = [Index!Disturbed(j) EXCEPT ![j].step = "create"] /\ isReindexing' = isReindexing /\ ~Busy(j)
    BY <1>10 DEF Index!DeleteIndex, Busy
  <2>2. PICK x \in IndexJob : x = [job[j] EXCEPT !.step = "create"]
    BY <1>1 DEF IndexJob, IndexSteps
  <2>3. x.step = "create" /\ job' = [Index!Disturbed(j) EXCEPT ![j] = x]
    BY <1>1, <2>1, <2>2 DEF IndexJob, Index!Disturbed
  <2> QED BY <1>1, <1>2, <2>1, <2>3
<1>11. CASE Index!CreateIndex(j)
  <2>1. PICK s \in {"threw", "count"} : s = IF exists \/ isReindexing THEN "threw" ELSE "count"
      OBVIOUS
  <2>2. job' = [job EXCEPT ![j].step = s] /\ isReindexing' = (isReindexing \/ ~exists) /\ ~Busy(j)
    BY <1>11, <2>1 DEF Index!CreateIndex, Index!Goto, Busy
  <2> QED BY <1>1, <1>3, <2>1, <2>2 DEF IndexSteps
<1>12. CASE Index!RebuildThrows(j)
  <2>1. job' = [job EXCEPT ![j].step = "threw"] /\ isReindexing' = isReindexing /\ ~Busy(j)
    BY <1>12 DEF Index!RebuildThrows, Index!Goto, Busy
  <2> QED BY <1>1, <1>3, <2>1 DEF IndexSteps
<1> QED BY <1>4, <1>5, <1>6, <1>7, <1>8, <1>9, <1>10, <1>11, <1>12

-----------------------------------------------------------------------------
(* What is indexed, and what a bulk carries, is one revision of an item,   *)
(* and none that has not been written; there are no documents without the  *)
(* index, and no more items to show than there are.                        *)
Written == 1..shopWrites + 1
Carried(b) == \A x, y \in b : x[2] \in Written /\ (x[1] = y[1] => x[2] = y[2])
IndexFits ==
    /\ shopWrites \in 0..MaxShopWrites /\ esFaults \in 0..MaxEsFaults /\ exists \in BOOLEAN
    /\ \A i \in Shown : shop[i].rev \in Written /\ docs[i] \subseteq Written /\ Small(docs[i])
    /\ ~exists => \A i \in Shown : docs[i] = {}
    /\ \A j \in Jobs : job[j].total <= Cardinality(Shown) /\ Carried(job[j].batch)

(* A step that writes no row and no document, but may count or fetch.      *)
LEMMA FitsMoves ==
    ASSUME IndexFits, UNCHANGED <<shop, docs, shopWrites>>, esFaults' \in 0..MaxEsFaults,
           exists' = exists \/ exists' = TRUE,
           \A k \in Jobs : job'[k].total <= Cardinality(Shown) /\ Carried(job'[k].batch)
    PROVE  IndexFits'
<1>1. exists' \in BOOLEAN /\ (~exists' => ~exists)
  BY DEF IndexFits
<1>2. Written' = Written /\ \A b : Carried(b)' <=> Carried(b)
  BY DEF Written, Carried
<1> QED BY <1>1, <1>2 DEF IndexFits, Written, Carried

(* What a fault adds to the faults stays within their bound.               *)
LEMMA FaultFits == IndexFits /\ (Index!Fault \/ UNCHANGED esFaults) => esFaults' \in 0..MaxEsFaults
BY BoundsAssumption DEF IndexFits, Index!Fault

(* The steps of a reindexing that write no document.                       *)
LEMMA FitsRuns ==
    ASSUME IndexTypes, IndexFits, NEW j \in Jobs,
           \/ Index!ReindexAll(j) \/ Index!CountItems(j) \/ Index!FetchBatch(j)
           \/ Index!ReindexThrows(j) \/ Index!RebuildIndex(j) \/ Index!CreateIndex(j)
           \/ Index!RebuildThrows(j)
    PROVE  IndexFits'
<1>1. job \in [Jobs -> IndexJob] /\ job[j] \in IndexJob
  BY DEF IndexTypes
<1>2. UNCHANGED <<shop, docs, shopWrites>>
  BY DEF Index!ReindexAll, Index!CountItems, Index!FetchBatch, Index!ReindexThrows,
      Index!RebuildIndex, Index!CreateIndex, Index!RebuildThrows
<1>3. exists' = exists \/ exists' = TRUE
  BY DEF Index!ReindexAll, Index!CountItems, Index!FetchBatch, Index!ReindexThrows,
      Index!RebuildIndex, Index!CreateIndex, Index!RebuildThrows
<1>4. Index!Fault \/ UNCHANGED esFaults
  BY DEF Index!ReindexAll, Index!CountItems, Index!FetchBatch, Index!ReindexThrows,
      Index!RebuildIndex, Index!CreateIndex, Index!RebuildThrows
<1>5. \A k \in Jobs : job[k].total <= Cardinality(Shown) /\ Carried(job[k].batch)
  BY DEF IndexFits
<1>6. ASSUME NEW s, \/ job' = [job EXCEPT ![j].step = s]
                    \/ \E c : job' = [job EXCEPT ![j].step = s, ![j].scope = c]
      PROVE  \A k \in Jobs : job'[k].total = job[k].total /\ job'[k].batch = job[k].batch
  BY <1>1, <1>6 DEF IndexJob
<1>7. CASE Index!CountItems(j)
  <2>1. PICK n \in Nat : n = Index!Cardinality(Index!Active(job[j].scope)) /\ n <= Cardinality(Shown)
    <3>1. Index!Active(job[j].scope) \in SUBSET Shown /\ Shown \in SUBSET Shown
      BY <1>1 DEF Index!Active, IndexJob
    <3> QED BY <3>1, CountsAgree, FS_Subset
  <2>2. PICK s \in {"done", "fetch"} : s = IF n = 0 THEN "done" ELSE "fetch"
      OBVIOUS
  <2>3. job' = [job EXCEPT ![j].total = n, ![j].page = 1, ![j].step = s]
    BY <1>7, <2>1, <2>2 DEF Index!CountItems
  <2>4. \A k \in Jobs : job'[k].total \in {job[k].total, n} /\ job'[k].batch = job[k].batch
    BY <1>1, <2>3 DEF IndexJob
  <2>5. \A k \in Jobs : job'[k].total <= Cardinality(Shown) /\ Carried(job'[k].batch)
    BY <1>5, <2>1, <2>4
  <2> QED BY Zenon, <1>2, <1>3, <1>4, <2>5, FitsMoves, FaultFits
<1>8. CASE Index!FetchBatch(j)
  <2>1. PICK b : b = {<<i, shop[i].rev>> : i \in Index!findAllPaginated(job[j].page, job[j].scope)}
      OBVIOUS
  <2>2. Index!findAllPaginated(job[j].page, job[j].scope) \subseteq Shown
    BY <1>1 DEF Index!findAllPaginated, Index!Active, IndexJob
  <2>3. Carried(b)
    BY <2>1, <2>2 DEF Carried, IndexFits
  <2>4. job' = [job EXCEPT ![j].step = "bulk", ![j].batch = b]
    BY <1>8, <2>1 DEF Index!FetchBatch
  <2>5. \A k \in Jobs : job'[k].total = job[k].total /\ job'[k].batch \in {job[k].batch, b}
    BY <1>1, <2>4 DEF IndexJob
  <2>6. \A k \in Jobs : job'[k].total <= Cardinality(Shown) /\ Carried(job'[k].batch)
    BY <1>5, <2>3, <2>5
  <2> QED BY Zenon, <1>2, <1>3, <1>4, <2>6, FitsMoves, FaultFits
<1>9. CASE \/ Index!ReindexAll(j) \/ Index!ReindexThrows(j) \/ Index!RebuildIndex(j)
           \/ Index!CreateIndex(j) \/ Index!RebuildThrows(j)
  <2>1. \E s : \/ job' = [job EXCEPT ![j].step = s]
               \/ \E c : job' = [job EXCEPT ![j].step = s, ![j].scope = c]
    BY <1>9 DEF Index!ReindexAll, Index!ReindexThrows, Index!RebuildIndex, Index!CreateIndex,
        Index!RebuildThrows, Index!Goto
  <2>2. \A k \in Jobs : job'[k].total = job[k].total /\ job'[k].batch = job[k].batch
    BY <1>6, <2>1
  <2>3. \A k \in Jobs : job'[k].total <= Cardinality(Shown) /\ Carried(job'[k].batch)
    BY <1>5, <2>2
  <2> QED BY Zenon, <1>2, <1>3, <1>4, <2>3, FitsMoves, FaultFits
<1> QED BY <1>7, <1>8, <1>9

(* A bulk replaces the document of an item by the revision it carries.     *)
LEMMA FitsBulks ==
    ASSUME IndexTypes, IndexFits, NEW j \in Jobs, Index!BulkIndex(j)
    PROVE  IndexFits'
<1>1. job \in [Jobs -> IndexJob] /\ shop' = shop /\ shopWrites' = shopWrites /\ exists' = TRUE
  BY DEF IndexTypes, Index!BulkIndex
<1>2. PICK batch : batch = job[j].batch
    OBVIOUS
<1>3. PICK bad :
        /\ IF bad = {} THEN UNCHANGED esFaults ELSE Index!Fault
        /\ docs' = [i \in Shown |-> IF i \in bad THEN docs[i]
                                    ELSE {x[2] : x \in {y \in batch : y[1] = i}} \cup
                                         {n \in docs[i] : \A y \in batch : y[1] # i}]
        /\ Index!NextPage(j, bad)
  BY <1>2 DEF Index!BulkIndex
<1>4. esFaults' \in 0..MaxEsFaults
  BY <1>3, FaultFits
<1>5. Carried(batch) /\ \A i \in Shown : docs[i] \subseteq Written /\ Small(docs[i]) /\ shop[i].rev \in Written
  BY <1>2 DEF IndexFits
<1>6. ASSUME NEW i \in Shown PROVE docs'[i] \subseteq Written /\ Small(docs'[i])
  <2>1. CASE i \in bad
    <3>1. docs'[i] = docs[i]
      BY <1>3, <2>1
    <3> QED BY Zenon, <1>5, <3>1
  <2>2. CASE i \notin bad
    <3>1. PICK new : new = {x[2] : x \in {y \in batch : y[1] = i}}
        OBVIOUS
    <3>2. PICK old : old = {n \in docs[i] : \A y \in batch : y[1] # i}
        OBVIOUS
    <3>3. docs'[i] = new \cup old
      BY <1>3, <2>2, <3>1, <3>2
    <3>4. new \subseteq Written /\ Small(new)
      BY <1>5, <3>1 DEF Carried, Small
    <3>5. old \subseteq docs[i] /\ (new # {} => old = {})
      BY <3>1, <3>2
    <3> QED BY <1>5, <3>3, <3>4, <3>5 DEF Small
  <2> QED BY <2>1, <2>2
<1>7. \A k \in Jobs : job'[k].total = job[k].total /\ job'[k].batch = job[k].batch
  <2>1. PICK ok, failed, page, s :
          job' = [Index!Disturbed(j) EXCEPT ![j].ok = ok, ![j].failed = failed, ![j].page = page,
                                            ![j].step = s]
    BY <1>3 DEF Index!NextPage
  <2>2. DOMAIN Index!Disturbed(j) = Jobs /\ Index!Disturbed(j)[j] = job[j]
        /\ \A k \in Jobs \ {j} : Index!Disturbed(j)[k] = [job[k] EXCEPT !.quiet = FALSE]
    BY DEF Index!Disturbed
  <2>3. \A k \in Jobs \ {j} : job'[k].total = job[k].total /\ job'[k].batch = job[k].batch
    BY <1>1, <2>1, <2>2 DEF IndexJob
  <2>4. job'[j].total = job[j].total /\ job'[j].batch = job[j].batch
    BY <1>1, <2>1, <2>2 DEF IndexJob
  <2> QED BY <2>3, <2>4
<1>8. Written' = Written /\ \A b : Carried(b)' <=> Carried(b)
  BY <1>1 DEF Written, Carried
<1>9. \A k \in Jobs : job'[k].total <= Cardinality(Shown) /\ Carried(job'[k].batch)
  BY <1>7 DEF IndexFits
<1>10. \A i \in Shown : shop'[i].rev \in Written' /\ docs'[i] \subseteq Written' /\ Small(docs'[i])
  BY <1>1, <1>5, <1>6, <1>8
<1>11. shopWrites' \in 0..MaxShopWrites /\ exists' \in BOOLEAN /\ exists'
  BY <1>1 DEF IndexFits
<1> QED BY <1>4, <1>8, <1>9, <1>10, <1>11 DEF IndexFits, Carried

(* The documents go with the index.                                        *)
LEMMA FitsEmpties ==
    ASSUME IndexTypes, IndexFits, NEW j \in Jobs, Index!DeleteIndex(j)
    PROVE  IndexFits'
<1>1. /\ job \in [Jobs -> IndexJob] /\ shop' = shop /\ shopWrites' = shopWrites /\ exists' = FALSE
      /\ esFaults' = esFaults /\ \A i \in Shown : docs'[i] = {}
      /\ job' = [Index!Disturbed(j) EXCEPT ![j].step = "create"]
  BY DEF IndexTypes, Index!DeleteIndex
<1>2. PICK x : x = [job[j] EXCEPT !.step = "create"]
    OBVIOUS
<1>3. job' = [Index!Disturbed(j) EXCEPT ![j] = x] /\ x.total = job[j].total /\ x.batch = job[j].batch
  BY <1>1, <1>2 DEF Index!Disturbed, IndexJob
<1>4. \A k \in Jobs : job'[k].total = job[k].total /\ job'[k].batch = job[k].batch
  <2>1. job'[j] = x /\ \A k \in Jobs \ {j} : job'[k].total = job[k].total /\ job'[k].batch = job[k].batch
    BY Zenon, <1>3, OthersStay
  <2> QED BY <1>3, <2>1
<1>5. Written' = Written /\ \A b : Carried(b)' <=> Carried(b)
  BY <1>1 DEF Written, Carried
<1>6. \A k \in Jobs : job'[k].total <= Cardinality(Shown) /\ Carried(job'[k].batch)
  BY <1>4 DEF IndexFits
<1>7. \A i \in Shown : shop'[i].rev \in Written' /\ docs'[i] \subseteq Written' /\ Small(docs'[i])
  BY <1>1, <1>5 DEF IndexFits, Small
<1>8. exists' \in BOOLEAN /\ shopWrites' \in 0..MaxShopWrites /\ esFaults' \in 0..MaxEsFaults
  BY <1>1 DEF IndexFits
<1> QED BY <1>1, <1>5, <1>6, <1>7, <1>8 DEF IndexFits, Carried

(* Another write makes a revision more, which is indexed at once.          *)
LEMMA FitsWrites ==
    ASSUME IndexTypes, IndexFits, Index!WriteItem
    PROVE  IndexFits'
<1>1. PICK w \in Nat : w = shopWrites /\ w + 1 \in 0..MaxShopWrites /\ shopWrites' = w + 1
  BY BoundsAssumption DEF IndexFits, Index!WriteItem
<1>2. Written = 1..w + 1 /\ Written' = 1..w + 2
  BY <1>1 DEF Written
<1>3. shop \in [Shown -> IndexShop] /\ docs \in [Shown -> SUBSET Nat] /\ job' = Index!Disturbed(0)
      /\ esFaults' = esFaults
  BY DEF IndexTypes, Index!WriteItem
<1>4. \A i \in Shown : shop[i].rev \in 1..w + 1 /\ docs[i] \subseteq 1..w + 1 /\ Small(docs[i])
  BY <1>2 DEF IndexFits
<1>5. PICK i \in Shown :
        \/ /\ shop' = [shop EXCEPT ![i].rev = @ + 1] /\ exists' = TRUE
           /\ docs' = [docs EXCEPT ![i] = {shop[i].rev + 1}]
        \/ /\ \/ shop' = [shop EXCEPT ![i].active = FALSE]
              \/ shop' = [shop EXCEPT ![i].score = @ + 1]
           /\ docs' = docs /\ exists' = exists
  BY DEF Index!WriteItem
<1>6. \A k \in Shown : shop'[k].rev \in 1..w + 2
  BY <1>3, <1>4, <1>5 DEF IndexShop
<1>7. \A k \in Shown : docs'[k] \subseteq 1..w + 2 /\ Small(docs'[k])
  <2>1. shop[i].rev + 1 \in 1..w + 2
    BY <1>4
  <2>2. \A k \in Shown : docs'[k] = docs[k] \/ docs'[k] = {shop[i].rev + 1}
    BY <1>3, <1>5
  <2>3. 1..w + 1 \subseteq 1..w + 2
      OBVIOUS
  <2> QED BY <1>4, <2>1, <2>2, <2>3 DEF Small
<1>8. exists' \in BOOLEAN /\ (~exists' => \A k \in Shown : docs'[k] = {})
  BY <1>5 DEF IndexFits
<1>9. \A k \in Jobs : job'[k].total = job[k].total /\ job'[k].batch = job[k].batch
  BY <1>3, AllStay
<1>10. \A k \in Jobs : \A x, y \in job[k].batch : x[2] \in 1..w + 1 /\ (x[1] = y[1] => x[2] = y[2])
  BY <1>2 DEF IndexFits, Carried
<1>11. \A k \in Jobs : /\ job'[k].total <= Cardinality(Shown)
                        /\ \A x, y \in job'[k].batch : x[2] \in 1..w + 2 /\ (x[1] = y[1] => x[2] = y[2])
  BY <1>9, <1>10 DEF IndexFits
<1>12. shopWrites' \in 0..MaxShopWrites /\ esFaults' \in 0..MaxEsFaults
  BY <1>1, <1>3 DEF IndexFits
<1> QED BY <1>2, <1>6, <1>7, <1>8, <1>11, <1>12 DEF IndexFits, Carried

(* The types of the reindexing.                                            *)
LEMMA IndexFitsHolds == Spec => [](Flagged /\ IndexFits)
<1>1. Init => Flagged /\ IndexFits
  <2> SUFFICES ASSUME Init PROVE Flagged /\ IndexFits
      OBVIOUS
  <2>1. /\ shop = [i \in Shown |-> [rev |-> 1, active |-> TRUE, score |-> 0]]
        /\ docs = [i \in Shown |-> {}] /\ exists = TRUE /\ isReindexing = FALSE
        /\ job = [j \in Jobs |-> Index!New] /\ shopWrites = 0 /\ esFaults = 0
    BY DEF Init, Index!Init
  <2>2. \A j \in Jobs : job[j].step = "new" /\ job[j].total = 0 /\ job[j].batch = {}
    BY <2>1 DEF Index!New
  <2>3. Flagged
    BY <2>1, <2>2 DEF Flagged, Busy
  <2>4. 0 <= Cardinality(Shown) /\ MaxShopWrites \in Nat /\ MaxEsFaults \in Nat
    BY CountsAgree, BoundsAssumption
  <2>5. \A i \in Shown : shop[i].rev \in 1..0 + 1 /\ docs[i] = {}
    BY <2>1
  <2>6. Carried({})
    BY DEF Carried
  <2>7. exists \in BOOLEAN /\ exists
    BY <2>1
  <2>8. Written = 1..0 + 1
    BY <2>1 DEF Written
  <2>9. \A i \in Shown : shop[i].rev \in Written /\ docs[i] \subseteq Written /\ Small(docs[i])
    BY <2>5, <2>8 DEF Small
  <2>10. \A j \in Jobs : job[j].total <= Cardinality(Shown) /\ Carried(job[j].batch)
    BY <2>2, <2>4, <2>6
  <2>11. shopWrites \in 0..MaxShopWrites /\ esFaults \in 0..MaxEsFaults
    BY <2>1, <2>4
  <2> QED BY <2>3, <2>7, <2>9, <2>10, <2>11 DEF IndexFits
<1>2. IndexInv /\ Flagged /\ IndexFits /\ [Next]_vars => Flagged' /\ IndexFits'
  <2> SUFFICES ASSUME IndexTypes, Flagged, IndexFits, [Next]_vars PROVE Flagged' /\ IndexFits'
    BY DEF IndexInv
  <2>1. Index!WriteItem => Flagged'
    <3> SUFFICES ASSUME Index!WriteItem PROVE Flagged'
        OBVIOUS
    <3>1. isReindexing' = isReindexing /\ \A k \in Jobs : Busy(k)' = Busy(k)
      BY AllStay DEF Index!WriteItem
    <3> QED BY <3>1 DEF Flagged
  <2>2. UNCHANGED reindexVars => Flagged' /\ IndexFits'
    BY DEF reindexVars, Flagged, Busy, IndexFits, Written, Carried
  <2> QED BY Zenon, <2>1, <2>2, IndexMovesOn, FlagKept, FitsRuns, FitsBulks, FitsEmpties, FitsWrites
<1> QED BY <1>1, <1>2, IndexHolds, PTL DEF Spec

(* The reindexing is well typed.                                           *)
LEMMA IndexTyped == IndexInv /\ Flagged /\ IndexFits => Index!TypeOK
<1> SUFFICES ASSUME IndexInv, Flagged, IndexFits PROVE Index!TypeOK
    OBVIOUS
<1>1. shop \in [Shown -> IndexShop] /\ job \in [Jobs -> IndexJob]
  BY DEF IndexInv, IndexTypes
<1>2. Written \subseteq 1..MaxShopWrites + 1
  BY BoundsAssumption DEF IndexFits, Written
<1>3. \A i \in Shown : /\ shop[i].rev \in 1..MaxShopWrites + 1 /\ shop[i].active \in BOOLEAN
                       /\ docs[i] \subseteq 1..MaxShopWrites + 1 /\ Index!Cardinality(docs[i]) <= 1
  BY <1>1, <1>2, SmallCounts DEF IndexFits, IndexShop
<1>4. \A j \in Jobs : /\ job[j].step \in IndexSteps
                      /\ job[j].total \in 0..Index!Cardinality(Shown)
  BY <1>1, CountsAgree DEF IndexFits, IndexJob
<1>5. isReindexing = \E j \in Jobs : job[j].step \in {"count", "fetch", "bulk"}
  BY DEF Flagged, Busy
<1> QED BY <1>3, <1>4, <1>5 DEF IndexFits, Flagged, IndexSteps, Index!TypeOK

-----------------------------------------------------------------------------
(* Every addition may go one place further, and those that have still to   *)
(* ask for their place have their going before them.                       *)
Asking == {"verify", "exists", "order"}
Awaiting == {c \in CollCalls : ccall[c].op = "add" /\ ccall[c].step \in Asking /\ ccall[c].order = {}}
Room == Cardinality(Items) + ctaken - Cardinality(Awaiting)
RoomLeft ==
    /\ IsFiniteSet(Awaiting) /\ Cardinality(Awaiting) <= ctaken
    /\ \A m \in member : m.coll \in DOMAIN coll /\ m.order <= Room
    /\ \A c \in CollCalls : \A o \in ccall[c].order : o <= Room
    /\ \A c \in CollCalls : ccall[c].step = "order" => ccall[c].order = {}

(* The numbers it is about.                                                *)
LEMMA RoomNumbers ==
    ASSUME CollTypes, RoomLeft
    PROVE  /\ Cardinality(Items) \in Nat /\ ctaken \in Nat /\ Cardinality(Awaiting) \in Nat
           /\ Room \in Nat
<1>1. Cardinality(Items) \in Nat /\ ctaken \in Nat /\ Cardinality(Awaiting) \in Nat
  BY IdsAssumption, BoundsAssumption, FS_CardinalityType DEF CollTypes, RoomLeft
<1> QED BY <1>1 DEF Room, RoomLeft

(* A call that goes on, is over, or begins with nothing to place.          *)
Goes(c) ==
    /\ \A d \in CollCalls \ {c} : ccall'[d] = ccall[d]
    /\ \/ ccall'[c].order = {} /\ ccall'[c].step \notin Asking
       \/ /\ ccall'[c].op = ccall[c].op /\ ccall'[c].order = ccall[c].order
          /\ ccall'[c].step \in Asking => ccall[c].step \in Asking
          /\ ccall'[c].step = "order" => ccall'[c].order = {}

(* No more calls wait for a place than did, and places stay in the room.   *)
LEMMA RoomMoves ==
    ASSUME CollTypes, CollTypes', RoomLeft, NEW c \in CollCalls, Goes(c), ctaken' >= ctaken,
           DOMAIN coll \subseteq DOMAIN coll',
           \A m \in member' : m.coll \in DOMAIN coll' /\ m.order <= Room
    PROVE  RoomLeft'
<1>1. PICK a, b : a = Awaiting /\ b = Awaiting'
    OBVIOUS
<1>2. b \subseteq a
  BY <1>1 DEF Awaiting, Goes
<1>3. IsFiniteSet(a) /\ Cardinality(a) <= ctaken
  BY <1>1 DEF RoomLeft
<1>4. IsFiniteSet(b) /\ Cardinality(b) <= Cardinality(a) /\ Cardinality(b) \in Nat /\ Cardinality(a) \in Nat
  BY <1>2, <1>3, FS_Subset, FS_CardinalityType
<1>5. Cardinality(Items) \in Nat /\ ctaken \in Nat /\ ctaken' \in Nat
  BY IdsAssumption, BoundsAssumption, FS_CardinalityType DEF CollTypes
<1>6. Room' = Cardinality(Items) + ctaken' - Cardinality(b) /\ Room = Cardinality(Items) + ctaken - Cardinality(a)
  BY <1>1 DEF Room
<1>7. Room' >= Room /\ Room' \in Int /\ Room \in Int /\ Cardinality(b) <= ctaken'
  BY <1>3, <1>4, <1>5, <1>6
<1>8. \A d \in CollCalls : \A o \in ccall'[d].order : o <= Room /\ o \in Nat
  <2>1. \A d \in CollCalls : ccall'[d].order \subseteq Nat
    BY DEF CollTypes, CollCall
  <2>2. \A d \in CollCalls : ccall'[d].order \subseteq ccall[d].order
    BY DEF Goes
  <2> QED BY <2>1, <2>2 DEF RoomLeft
<1>9. \A d \in CollCalls : \A o \in ccall'[d].order : o <= Room'
  BY <1>7, <1>8
<1>10. \A m \in member' : m.coll \in DOMAIN coll' /\ m.order <= Room'
  <2>1. \A m \in member' : m.order \in Nat
    BY DEF CollTypes, CollMember
  <2> QED BY <1>7, <2>1
<1>11. IsFiniteSet(Awaiting') /\ Cardinality(Awaiting') <= ctaken'
  BY <1>1, <1>4, <1>7
<1>12. \A d \in CollCalls : ccall'[d].step = "order" => ccall'[d].order = {}
  BY DEF Goes, RoomLeft
<1> QED BY <1>9, <1>10, <1>11, <1>12 DEF RoomLeft

(* What the steps of a call do to it.                                      *)
LEMMA CallGoes ==
    ASSUME CollTypes, NEW c \in CollCalls,
           \/ Collection!Find(c) \/ Collection!PutInCache(c)
           \/ Collection!VerifyCollection(c) \/ Collection!CheckName(c)
           \/ Collection!CreateCollection(c) \/ Collection!UpdateCollection(c)
           \/ Collection!DeleteCollection(c) \/ Collection!CheckItem(c)
           \/ Collection!AddItem(c) \/ Collection!FindMember(c) \/ Collection!RemoveItem(c)
           \/ Collection!FindMembers(c) \/ Collection!ReorderItems(c) \/ Collection!ClearCaches(c)
    PROVE  Goes(c) /\ ctaken' = ctaken
<1>1. ccall \in [CollCalls -> CollCall] /\ ccall[c] \in CollCall
  BY DEF CollTypes
<1>2. ctaken' = ctaken
  BY DEF Collection!Find, Collection!PutInCache, Collection!VerifyCollection, Collection!CheckName,
      Collection!CreateCollection, Collection!UpdateCollection, Collection!DeleteCollection,
      Collection!CheckItem, Collection!AddItem, Collection!FindMember, Collection!RemoveItem,
      Collection!FindMembers, Collection!ReorderItems, Collection!ClearCaches, Collection!Quiet
<1>3. Collection!Leave(c) => Goes(c)
  BY <1>1 DEF Collection!Leave, Collection!Idle, Goes, Asking
<1>4. ASSUME NEW s, s \notin Asking \/ ccall[c].step \in Asking, s = "order" => ccall[c].order = {},
             \/ ccall' = [ccall EXCEPT ![c].step = s]
             \/ \E r : ccall' = [ccall EXCEPT ![c].step = s, ![c].row = r]
             \/ \E t : ccall' = [ccall EXCEPT ![c].step = s, ![c].dto = t]
      PROVE  Goes(c)
  <2>1. /\ \A d \in CollCalls \ {c} : ccall'[d] = ccall[d]
        /\ ccall'[c].step = s /\ ccall'[c].op = ccall[c].op /\ ccall'[c].order = ccall[c].order
    BY <1>1, <1>4 DEF CollCall
  <2> QED BY <1>4, <2>1 DEF Goes
<1>5. ASSUME NEW s, s \notin Asking \/ ccall[c].step \in Asking,
             s = "order" => ccall[c].order = {}, Collection!Goto(c, s)
      PROVE  Goes(c)
  BY <1>4, <1>5 DEF Collection!Goto
<1>6. CASE Collection!Find(c)
  <2>1. Collection!Leave(c) \/ \E t : ccall' = [ccall EXCEPT ![c].step = "found", ![c].dto = t]
    BY <1>6 DEF Collection!Find
  <2>2. "found" \notin Asking
    BY DEF Asking
  <2> QED BY <1>2, <1>3, <1>4, <2>1, <2>2
<1>7. CASE Collection!PutInCache(c) \/ Collection!ClearCaches(c)
  BY <1>2, <1>3, <1>7 DEF Collection!PutInCache, Collection!ClearCaches
<1>8. CASE Collection!VerifyCollection(c)
  <2>1. /\ ccall[c].step \in Asking
        /\ \/ Collection!Leave(c)
           \/ \E s \in {"name", "save", "exists"} : \E r :
                ccall' = [ccall EXCEPT ![c].step = s, ![c].row = r]
    BY <1>8 DEF Collection!VerifyCollection, Asking
  <2> QED BY <1>2, <1>3, <1>4, <2>1
<1>9. CASE Collection!CheckName(c)
  BY <1>2, <1>3, <1>5, <1>9 DEF Collection!CheckName, Asking
<1>10. CASE Collection!CreateCollection(c) \/ Collection!UpdateCollection(c)
  <2>1. \E r : ccall' = [ccall EXCEPT ![c].step = "clear", ![c].row = r]
    BY <1>10 DEF Collection!CreateCollection, Collection!UpdateCollection
  <2>2. "clear" \notin Asking
    BY DEF Asking
  <2> QED BY <1>2, <1>4, <2>1, <2>2
<1>11. CASE Collection!DeleteCollection(c) \/ Collection!RemoveItem(c) \/ Collection!ReorderItems(c)
  BY <1>2, <1>5, <1>11 DEF Collection!DeleteCollection, Collection!RemoveItem, Collection!ReorderItems, Asking
<1>12. CASE Collection!CheckItem(c)
  BY <1>2, <1>3, <1>5, <1>12 DEF Collection!CheckItem, Collection!At, Asking
<1>13. CASE Collection!AddItem(c) \/ Collection!FindMember(c) \/ Collection!FindMembers(c)
  BY <1>2, <1>3, <1>5, <1>13 DEF Collection!AddItem, Collection!FindMember, Collection!FindMembers, Asking
<1> QED BY <1>2, <1>6, <1>7, <1>8, <1>9, <1>10, <1>11, <1>12, <1>13

(* A call that comes in makes room for one place more.                     *)
LEMMA RoomTakes ==
    ASSUME CollInv, CollTypes', RoomLeft, NEW c \in CollCalls, Collection!Take(c)
    PROVE  RoomLeft'
<1>1. /\ ccall \in [CollCalls -> CollCall] /\ ccall[c].step = "idle" /\ ctaken' = ctaken + 1
      /\ coll' = coll /\ member' = member /\ CollTypes
  BY DEF CollInv, CollTypes, Collection!Take
<1>2. Room \in Nat /\ ctaken \in Nat /\ Cardinality(Awaiting) \in Nat /\ Cardinality(Items) \in Nat
  BY <1>1, RoomNumbers
<1>3. \A m \in member' : m.coll \in DOMAIN coll' /\ m.order <= Room
  BY <1>1 DEF RoomLeft
<1>4. ASSUME Goes(c) PROVE RoomLeft'
  BY <1>1, <1>2, <1>3, <1>4, RoomMoves
<1>5. CASE \E k \in Collection!Keys :
             ccall' = IF shelf[k] # {} THEN ccall
                      ELSE [ccall EXCEPT ![c] = [Collection!Idle EXCEPT !.op = "read", !.step = "find", !.coll = k]]
  <2>1. Goes(c)
    BY <1>1, <1>5 DEF Goes, Asking, Collection!Idle
  <2> QED BY <2>1, <1>4
<1>6. CASE \E dto \in [name : Names, featured : BOOLEAN, deleted : {FALSE}] :
             ccall' = [ccall EXCEPT ![c] = [Collection!Idle EXCEPT !.op = "create", !.step = "name", !.dto = {dto}]]
  <2>1. Goes(c)
    BY <1>1, <1>6 DEF Goes, Asking, Collection!Idle
  <2> QED BY <2>1, <1>4
<1>7. CASE /\ \A d \in CollCalls \ {c} : ccall'[d] = ccall[d]
           /\ ccall'[c].step = "verify" /\ ccall'[c].order \in {{}, {0}, {1}}
  <2>1. PICK a, b : a = Awaiting /\ b = Awaiting'
      OBVIOUS
  <2>2. c \notin a /\ (b = a \/ (b = a \cup {c} /\ ccall'[c].order = {}))
    BY <1>1, <1>7, <2>1 DEF Awaiting, Asking
  <2>3. IsFiniteSet(a) /\ Cardinality(a) <= ctaken /\ Cardinality(a) \in Nat
    BY <1>2, <2>1 DEF RoomLeft
  <2>4. IsFiniteSet(b) /\ (b = a => Cardinality(b) = Cardinality(a))
        /\ (b # a => Cardinality(b) = Cardinality(a) + 1)
    BY <2>2, <2>3, FS_AddElement
  <2>5. Cardinality(b) <= ctaken' /\ Cardinality(b) \in Nat
    BY <1>1, <1>2, <2>3, <2>4
  <2>6. /\ Room = Cardinality(Items) + ctaken - Cardinality(a)
        /\ Room' = Cardinality(Items) + ctaken' - Cardinality(b)
    BY <2>1 DEF Room
  <2>7. /\ Room' >= Room /\ Room' \in Nat
        /\ ccall'[c].order # {} => Room' >= 1
    BY <1>1, <1>2, <2>2, <2>3, <2>4, <2>5, <2>6
  <2>8. \A d \in CollCalls : \A o \in ccall'[d].order : o <= Room'
    <3>1. \A o \in ccall'[c].order : o <= Room'
      BY <1>7, <2>7
    <3>2. \A d \in CollCalls \ {c} : \A o \in ccall'[d].order : o \in Nat /\ o <= Room
      BY <1>1, <1>7 DEF RoomLeft, CollCall
    <3> QED BY <1>2, <2>7, <3>1, <3>2
  <2>9. \A m \in member' : m.coll \in DOMAIN coll' /\ m.order <= Room'
    <3>1. \A m \in member' : m.order \in Nat
      BY <1>1 DEF CollTypes, CollMember
    <3> QED BY <1>2, <1>3, <2>7, <3>1
  <2>10. \A d \in CollCalls : ccall'[d].step = "order" => ccall'[d].order = {}
    BY <1>7 DEF RoomLeft
  <2> QED BY <2>1, <2>4, <2>5, <2>8, <2>9, <2>10 DEF RoomLeft
<1> DEFINE Came(k, op, dto, i, o) ==
        /\ ccall' = [ccall EXCEPT ![c] =
              [Collection!Idle EXCEPT !.op = op, !.step = "verify", !.coll = k, !.dto = dto, !.item = i, !.order = o]]
        /\ placed' = (placed \/ o # {})
<1>8. ASSUME NEW op, NEW k, NEW dto, NEW i, NEW o \in {{}, {0}, {1}}, Came(k, op, dto, i, o)
      PROVE  RoomLeft'
  <2>1. ccall'[c].step = "verify" /\ ccall'[c].order = o
    BY <1>1, <1>8 DEF Collection!Idle
  <2>2. \A d \in CollCalls \ {c} : ccall'[d] = ccall[d]
    BY <1>1, <1>8
  <2> QED BY <1>7, <2>1, <2>2
<1>9. CASE \E k \in DOMAIN coll : \E op \in {"update", "delete", "add", "remove", "reorder"} :
          \E dto \in IF op = "update" THEN {{d} : d \in [name : Names, featured : BOOLEAN, deleted : {FALSE}]} ELSE {{}} :
          \E i \in IF op \in {"add", "remove", "reorder"} THEN {{x} : x \in Items} ELSE {{}} :
          \E o \in CASE op = "add" -> {{}, {1}} [] op = "reorder" -> {{0}, {1}} [] OTHER -> {{}} :
            Came(k, op, dto, i, o)
  <2> HIDE DEF Came
  <2>1. PICK k \in DOMAIN coll, op \in {"update", "delete", "add", "remove", "reorder"} :
        \E dto \in IF op = "update" THEN {{d} : d \in [name : Names, featured : BOOLEAN, deleted : {FALSE}]} ELSE {{}} :
        \E i \in IF op \in {"add", "remove", "reorder"} THEN {{x} : x \in Items} ELSE {{}} :
        \E o \in CASE op = "add" -> {{}, {1}} [] op = "reorder" -> {{0}, {1}} [] OTHER -> {{}} :
          Came(k, op, dto, i, o)
    BY <1>9
  <2>2. PICK dto \in IF op = "update" THEN {{d} : d \in [name : Names, featured : BOOLEAN, deleted : {FALSE}]} ELSE {{}} :
        \E i \in IF op \in {"add", "remove", "reorder"} THEN {{x} : x \in Items} ELSE {{}} :
        \E o \in CASE op = "add" -> {{}, {1}} [] op = "reorder" -> {{0}, {1}} [] OTHER -> {{}} :
          Came(k, op, dto, i, o)
    BY <2>1
  <2>3. PICK i \in IF op \in {"add", "remove", "reorder"} THEN {{x} : x \in Items} ELSE {{}} :
        \E o \in CASE op = "add" -> {{}, {1}} [] op = "reorder" -> {{0}, {1}} [] OTHER -> {{}} :
          Came(k, op, dto, i, o)
    BY <2>2
  <2>4. (CASE op = "add" -> {{}, {1}} [] op = "reorder" -> {{0}, {1}} [] OTHER -> {{}}) \subseteq {{}, {0}, {1}}
      OBVIOUS
  <2>5. PICK o \in {{}, {0}, {1}} : Came(k, op, dto, i, o)
    BY <2>3, <2>4
  <2> QED BY <1>8, <2>5
<1> QED BY <1>5, <1>6, <1>9 DEF Collection!Take

(* An addition asks for its place: it gets one beyond the others, and is   *)
(* no longer among those that wait for one.                                *)
LEMMA RoomPlaces ==
    ASSUME CollTypes, CollTypes', RoomLeft, NEW c \in CollCalls, Collection!GetMaxOrder(c)
    PROVE  RoomLeft'
<1>1. /\ ccall \in [CollCalls -> CollCall] /\ ccall[c] \in CollCall /\ ccall[c].op = "add" /\ ccall[c].step = "order"
      /\ coll' = coll /\ member' = member /\ ctaken' = ctaken
  BY DEF CollTypes, Collection!GetMaxOrder, Collection!At, Collection!Quiet
<1>2. Room \in Nat /\ ctaken \in Nat /\ Cardinality(Awaiting) \in Nat /\ Cardinality(Items) \in Nat
  BY RoomNumbers
<1> DEFINE S == {0} \cup {m.order : m \in Collection!In(ccall[c].coll)}
<1>3. S \in SUBSET (0..Room) /\ S # {}
  BY <1>2 DEF RoomLeft, CollTypes, CollMember, Collection!In
<1>4. PICK g \in Nat : g = Collection!Max(S) /\ g <= Room
  <2> HIDE DEF S
  <2>1. \E x \in S : \A y \in S : x >= y
    BY <1>2, <1>3, Greatest
  <2>2. Collection!Max(S) \in S
    BY <2>1 DEF Collection!Max
  <2>3. PICK g \in S : g = Collection!Max(S)
    BY <2>2
  <2> QED BY <1>2, <1>3, <2>3
<1>5. ccall' = [ccall EXCEPT ![c].step = "insert", ![c].order = {g + 1}]
  BY <1>4 DEF Collection!GetMaxOrder
<1>6. /\ ccall'[c].step = "insert" /\ ccall'[c].order = {g + 1}
      /\ \A d \in CollCalls \ {c} : ccall'[d] = ccall[d]
  BY <1>1, <1>5 DEF CollCall
<1>7. PICK a, b : a = Awaiting /\ b = Awaiting'
    OBVIOUS
<1>8. c \in a /\ b = a \ {c}
  <2>1. c \in CollCalls /\ c \in Awaiting
    BY <1>1 DEF Awaiting, Asking, RoomLeft
  <2>2. ccall'[c].step \notin Asking
    BY <1>6 DEF Asking
  <2>3. Awaiting' \subseteq Awaiting \ {c}
    BY Zenon, <1>6, <2>2 DEF Awaiting
  <2>4. Awaiting \ {c} \subseteq Awaiting'
    BY Zenon, <1>6 DEF Awaiting
  <2> QED BY <1>7, <2>1, <2>3, <2>4
<1>9. IsFiniteSet(a) /\ Cardinality(a) <= ctaken /\ Cardinality(a) \in Nat
  BY <1>2, <1>7 DEF RoomLeft
<1>10. IsFiniteSet(b) /\ Cardinality(b) = Cardinality(a) - 1 /\ Cardinality(b) <= ctaken'
  BY <1>1, <1>2, <1>8, <1>9, FS_RemoveElement
<1>11. Room' = Room + 1
  <2>1. /\ Room = Cardinality(Items) + ctaken - Cardinality(a)
        /\ Room' = Cardinality(Items) + ctaken' - Cardinality(b)
    BY <1>7 DEF Room
  <2> QED BY <1>1, <1>2, <1>9, <1>10, <2>1
<1>12. \A d \in CollCalls : \A o \in ccall'[d].order : o <= Room'
  <2>1. \A o \in ccall'[c].order : o <= Room'
    BY <1>2, <1>4, <1>6, <1>11
  <2>2. \A d \in CollCalls \ {c} : \A o \in ccall'[d].order : o \in Nat /\ o <= Room
    BY <1>1, <1>6 DEF RoomLeft, CollCall
  <2> QED BY <1>2, <1>11, <2>1, <2>2
<1>13. \A m \in member' : m.coll \in DOMAIN coll' /\ m.order <= Room'
  <2>1. \A m \in member' : m.order \in Nat /\ m.order <= Room /\ m.coll \in DOMAIN coll
    BY <1>1 DEF CollTypes, CollMember, RoomLeft
  <2> QED BY <1>1, <1>2, <1>11, <2>1
<1>14. \A d \in CollCalls : ccall'[d].step = "order" => ccall'[d].order = {}
  BY <1>6 DEF RoomLeft
<1> QED BY <1>7, <1>10, <1>12, <1>13, <1>14 DEF RoomLeft

(* What is written to a collection is a place of a call.                   *)
LEMMA MembersPlaced ==
    ASSUME CollInv, RoomLeft, NEW c \in CollCalls,
           \/ Collection!Find(c) \/ Collection!PutInCache(c)
           \/ Collection!VerifyCollection(c) \/ Collection!CheckName(c)
           \/ Collection!CreateCollection(c) \/ Collection!UpdateCollection(c)
           \/ Collection!DeleteCollection(c) \/ Collection!CheckItem(c)
           \/ Collection!AddItem(c) \/ Collection!FindMember(c) \/ Collection!RemoveItem(c)
           \/ Collection!FindMembers(c) \/ Collection!ReorderItems(c) \/ Collection!ClearCaches(c)
    PROVE  /\ DOMAIN coll \subseteq DOMAIN coll'
           /\ \A m \in member' : m.coll \in DOMAIN coll' /\ m.order <= Room
<1>1. /\ \A m \in member : m \in CollMember /\ m.coll \in DOMAIN coll /\ m.order <= Room
      /\ ccall[c] \in CollCall /\ CollPath(ccall[c]) /\ \A o \in ccall[c].order : o <= Room
  BY DEF CollInv, CollTypes, CollPaths, RoomLeft
<1>2. DOMAIN coll \subseteq DOMAIN coll'
  BY DEF Collection!Find, Collection!PutInCache, Collection!VerifyCollection, Collection!CheckName,
      Collection!CreateCollection, Collection!UpdateCollection, Collection!DeleteCollection,
      Collection!CheckItem, Collection!AddItem, Collection!FindMember, Collection!RemoveItem,
      Collection!FindMembers, Collection!ReorderItems, Collection!ClearCaches
<1>3. CASE member' \subseteq member
  BY <1>1, <1>2, <1>3
<1>4. CASE Collection!AddItem(c) /\ ~(member' \subseteq member)
  <2>1. member' = member \cup [coll : {ccall[c].coll}, item : ccall[c].item, order : ccall[c].order]
        /\ ccall[c].op = "add"
    BY <1>4 DEF Collection!AddItem, Collection!At
  <2>2. ccall[c].coll \in DOMAIN coll
    BY <1>1, <2>1 DEF CollPath, CollChanges
  <2>3. \A m \in member' \ member : m.coll = ccall[c].coll /\ m.order \in ccall[c].order
    BY <2>1
  <2> QED BY <1>1, <1>2, <2>2, <2>3
<1>5. CASE Collection!ReorderItems(c)
  <2>1. PICK o \in ccall[c].order :
          member' = {IF m.coll = ccall[c].coll /\ m.item \in ccall[c].item THEN [m EXCEPT !.order = o] ELSE m :
                       m \in member}
    BY <1>5 DEF Collection!ReorderItems
  <2>2. ASSUME NEW m \in member
        PROVE  [m EXCEPT !.order = o].coll = m.coll /\ [m EXCEPT !.order = o].order = o
    BY <1>1 DEF CollMember
  <2>3. \A m \in member' : \E n \in member : m.coll = n.coll /\ m.order \in {o, n.order}
    BY <2>1, <2>2
  <2> QED BY <1>1, <1>2, <2>3
<1>6. \/ member' \subseteq member \/ Collection!AddItem(c) \/ Collection!ReorderItems(c)
  BY DEF Collection!Find, Collection!PutInCache, Collection!VerifyCollection, Collection!CheckName,
      Collection!CreateCollection, Collection!UpdateCollection, Collection!DeleteCollection,
      Collection!CheckItem, Collection!FindMember, Collection!RemoveItem,
      Collection!FindMembers, Collection!ClearCaches
<1> QED BY <1>3, <1>4, <1>5, <1>6

(* The room there is for places, in every behaviour.                       *)
LEMMA RoomHolds == Spec => []RoomLeft
<1>1. Init => RoomLeft
  <2> SUFFICES ASSUME Init PROVE RoomLeft
      OBVIOUS
  <2>1. ctaken = 0 /\ \A c \in CollCalls : ccall[c] = Collection!Idle
    BY DEF Init, Collection!Init
  <2>2. Awaiting = {} /\ \A c \in CollCalls : ccall[c].step # "order" /\ ccall[c].order = {}
    BY <2>1 DEF Awaiting, Collection!Idle
  <2>3. IsFiniteSet(Awaiting) /\ Cardinality(Awaiting) = 0
    BY Zenon, <2>2, FS_EmptySet
  <2>4. Room = Cardinality(Items) /\ Cardinality(Items) \in Nat
    BY <2>1, <2>3, IdsAssumption, FS_CardinalityType DEF Room
  <2>5. \A m \in member : m.coll \in DOMAIN coll /\ m.order <= Cardinality(Items)
    <3>1. CASE part # "coll"
      BY <3>1 DEF Init
    <3>2. CASE part = "coll"
      <4>1. \A S : Collection!Cardinality(S) = Cardinality(S)
        BY DEF Collection!Cardinality, Cardinality
      <4>2. PICK k \in Colls : \E place \in [Items -> 1..Cardinality(Items)] :
              /\ coll \in [{k} -> {r \in Collection!Collection : ~r.deleted}]
              /\ member = {[coll |-> k, item |-> i, order |-> place[i]] : i \in Items}
        BY <3>2, <4>1 DEF Init, Collection!Init
      <4>3. PICK place \in [Items -> 1..Cardinality(Items)] :
              /\ coll \in [{k} -> {r \in Collection!Collection : ~r.deleted}]
              /\ member = {[coll |-> k, item |-> i, order |-> place[i]] : i \in Items}
        BY <4>2
      <4>4. \A i \in Items : place[i] <= Cardinality(Items)
        BY <2>4
      <4>5. DOMAIN coll = {k}
        BY <4>3
      <4> QED BY <4>3, <4>4, <4>5
    <3> QED BY <3>1, <3>2
  <2> QED BY <2>1, <2>2, <2>3, <2>4, <2>5 DEF RoomLeft
<1>2. CollInv /\ CollInv' /\ RoomLeft /\ [Next]_vars => RoomLeft'
  <2> SUFFICES ASSUME CollInv, CollInv', RoomLeft, [Next]_vars PROVE RoomLeft'
      OBVIOUS
  <2>1. CollTypes /\ CollTypes'
    BY DEF CollInv
  <2>2. ASSUME NEW c \in CollCalls, \/ Collection!Find(c) \/ Collection!PutInCache(c)
         \/ Collection!VerifyCollection(c) \/ Collection!CheckName(c)
         \/ Collection!CreateCollection(c) \/ Collection!UpdateCollection(c)
         \/ Collection!DeleteCollection(c) \/ Collection!CheckItem(c)
         \/ Collection!AddItem(c) \/ Collection!FindMember(c) \/ Collection!RemoveItem(c)
         \/ Collection!FindMembers(c) \/ Collection!ReorderItems(c) \/ Collection!ClearCaches(c)
        PROVE  RoomLeft'
    <3>1. Goes(c) /\ ctaken' = ctaken
      BY Zenon, <2>1, <2>2, CallGoes
    <3>2. /\ DOMAIN coll \subseteq DOMAIN coll'
          /\ \A m \in member' : m.coll \in DOMAIN coll' /\ m.order <= Room
      BY Zenon, <2>2, MembersPlaced
    <3>3. ctaken' >= ctaken
      BY <2>1, <3>1, RoomNumbers
    <3> QED BY Zenon, <2>1, <3>1, <3>2, <3>3, RoomMoves
  <2>3. UNCHANGED collVars \/ Collection!ExpireShelf => RoomLeft'
    BY DEF collVars, Collection!ExpireShelf, Collection!Quiet, RoomLeft, Room, Awaiting
  <2>5. ASSUME Collection!ItemChanges PROVE RoomLeft'
    <3>1. UNCHANGED <<coll, member, ccall>> /\ ctaken' = ctaken + 1
      BY <2>5 DEF Collection!ItemChanges
    <3>2. PICK a : a = Awaiting /\ a = Awaiting'
      BY <3>1 DEF Awaiting
    <3>3. /\ Cardinality(Items) \in Nat /\ ctaken \in Nat /\ Cardinality(a) \in Nat
          /\ IsFiniteSet(a) /\ Cardinality(a) <= ctaken
      BY <2>1, <3>2, RoomNumbers DEF RoomLeft
    <3>4. Room' = Room + 1 /\ Room \in Nat /\ Cardinality(a) <= ctaken'
      BY <2>1, <3>1, <3>2, <3>3, RoomNumbers DEF Room
    <3>5. \A m \in member : m.order \in Nat /\ m.coll \in DOMAIN coll /\ m.order <= Room
      BY <2>1 DEF CollTypes, CollMember, RoomLeft
    <3>6. \A c \in CollCalls : \A o \in ccall[c].order : o \in Nat /\ o <= Room
      BY <2>1 DEF CollTypes, CollCall, RoomLeft
    <3>7. /\ \A m \in member : m.order <= Room'
          /\ \A c \in CollCalls : \A o \in ccall[c].order : o <= Room'
      BY <3>4, <3>5, <3>6
    <3> QED BY <3>1, <3>2, <3>3, <3>4, <3>5, <3>7 DEF RoomLeft
  <2>4. \/ UNCHANGED collVars
        \/ \E c \in CollCalls :
              \/ Collection!Take(c) \/ Collection!Find(c) \/ Collection!PutInCache(c)
              \/ Collection!VerifyCollection(c) \/ Collection!CheckName(c)
              \/ Collection!CreateCollection(c) \/ Collection!UpdateCollection(c)
              \/ Collection!DeleteCollection(c) \/ Collection!CheckItem(c) \/ Collection!GetMaxOrder(c)
              \/ Collection!AddItem(c) \/ Collection!FindMember(c) \/ Collection!RemoveItem(c)
              \/ Collection!FindMembers(c) \/ Collection!ReorderItems(c) \/ Collection!ClearCaches(c)
        \/ Collection!ExpireShelf \/ Collection!ItemChanges
    BY Zenon DEF Next, vars, OnItem, OnCache, OnCollection, OnBrand, OnIndex, OnRecommend,
             OnInteract, OnSearch
  <2> QED BY Zenon, <2>1, <2>2, <2>3, <2>4, <2>5, RoomTakes, RoomPlaces
<1> QED BY <1>1, <1>2, CollHolds, PTL DEF Spec

(* The collections are well typed: there is room for every place.          *)
LEMMA CollTyped == CollInv /\ RoomLeft => Collection!TypeOK
<1> SUFFICES ASSUME CollInv, RoomLeft PROVE Collection!TypeOK
    OBVIOUS
<1>1. CollTypes /\ \A k \in Collection!Keys : Collection!Cardinality(shelf[k]) <= 1
  BY SmallCounts DEF CollInv, CollPaths
<1>2. Collection!Cardinality(Items) = Cardinality(Items)
  BY DEF Collection!Cardinality, Cardinality
<1>3. Room <= MaxCollTaken + Cardinality(Items) /\ MaxCollTaken \in Nat /\ Room \in Nat /\ Cardinality(Items) \in Nat
  <2>1. ctaken <= MaxCollTaken /\ MaxCollTaken \in Nat
    BY <1>1, BoundsAssumption DEF CollTypes
  <2> QED BY <1>1, <2>1, RoomNumbers DEF Room
<1>4. \A m \in member : m \in Collection!CollectionItem /\ m.coll \in DOMAIN coll
  <2>1. \A m \in member : m \in CollMember /\ m.coll \in DOMAIN coll /\ m.order <= Room
    BY <1>1 DEF CollTypes, RoomLeft
  <2>2. \A m \in member : m.order \in 0..MaxCollTaken + Cardinality(Items)
    BY <1>3, <2>1 DEF CollMember
  <2> QED BY <1>2, <2>1, <2>2 DEF CollMember, Collection!CollectionItem
<1>5. \A c \in CollCalls : ccall[c].row \subseteq Collection!Collection
  BY <1>1 DEF CollTypes, CollCall
<1>6. \A k \in DOMAIN coll : coll[k] \in Collection!Collection
  BY <1>1 DEF CollTypes
<1>7. DOMAIN shelf = Collection!Keys /\ member \subseteq Collection!CollectionItem
  BY <1>1, <1>4 DEF CollTypes
<1>8. stock \in [Items -> 0..MaxCollTaken]
  BY <1>1, BoundsAssumption DEF CollTypes
<1> QED BY <1>1, <1>4, <1>5, <1>6, <1>7, <1>8 DEF CollTypes, Collection!TypeOK

-----------------------------------------------------------------------------
(* The state of every service is well typed whatever comes in: entries are *)
(* single, nobody is counted twice, one reindexing is in progress at most, *)
(* and places never exceed what was added.                                 *)
THEOREM CatalogTypes == Spec => []TypeOK
<1>1. /\ PartInv /\ ItemInv /\ CacheInv /\ CollInv /\ RoomLeft /\ BrandInv
      /\ IndexInv /\ Flagged /\ IndexFits /\ RecInv /\ InteractInv /\ Counters /\ SearchInv
      => TypeOK
  <2>1. PartInv /\ Item!TypeOK /\ Cache!TypeOK /\ Collection!TypeOK /\ Brand!TypeOK /\ Index!TypeOK
        /\ (part = "recommend" => Recommend!TypeOK) /\ Interact!TypeOK /\ Search!TypeOK => TypeOK
    BY DEF PartInv, Parts, TypeOK
  <2> QED BY Zenon, <2>1, ItemTyped, CacheTyped, CollTyped, BrandTyped, IndexTyped, RecTyped, InteractTyped,
          SearchTyped
<1> QED BY <1>1, PartStays, ItemHolds, CacheHolds, CollHolds, RoomHolds, BrandHolds, IndexHolds,
        IndexFitsHolds, RecHolds, InteractHolds, CountersHold, SearchHolds, PTL

=============================================================================
