-------------------------------- MODULE Reindex --------------------------------
(***************************************************************************)
(* catalog-reindex.service.ts with the index operations it uses from       *)
(* elasticsearch.service.ts: the active items are read page by page, the   *)
(* most popular first, and written to the index in bulk, while items are   *)
(* written, viewed and indexed by others between two awaits.               *)
(***************************************************************************)
EXTENDS Integers, FiniteSets

CONSTANTS
    Shown,         \* ids of catalog items, a set of naturals: newer ones are larger
    TypeOf,        \* TypeOf[i]: the catalog type of an item
    BatchSize,
    Jobs,          \* calls of the service
    MaxShopWrites, \* bound on the writes of others
    MaxEsFaults    \* bound on requests to Elasticsearch that reject or fail in part

VARIABLES
    shop,         \* rows: revision, active, popularity
    docs,         \* docs[i]: the revision in the index, if any
    exists,       \* the index exists
    isReindexing,
    job,          \* job[j]: the call j
    shopWrites, esFaults

reindexVars == <<shop, docs, exists, isReindexing, job, shopWrites, esFaults>>

-----------------------------------------------------------------------------
New == [step |-> "new", scope |-> {}, total |-> 0, page |-> 0, batch |-> {}, ok |-> 0,
        failed |-> {}, quiet |-> TRUE]
Active(scope) == {i \in scope : shop[i].active}
Ceil(n, d) == (n + d - 1) \div d

(* findAllPaginated: by popularity, then by age; page p of them.           *)
Before(i, j) == shop[i].score > shop[j].score \/ (shop[i].score = shop[j].score /\ i > j)
Position(i, scope) == Cardinality({j \in Active(scope) : Before(j, i)})
findAllPaginated(p, scope) ==
    {i \in Active(scope) : Position(i, scope) \div BatchSize = p - 1}

TypeOK ==
    /\ \A i \in Shown : shop[i].rev \in 1..MaxShopWrites + 1 /\ shop[i].active \in BOOLEAN
    /\ \A i \in Shown : docs[i] \subseteq 1..MaxShopWrites + 1 /\ Cardinality(docs[i]) <= 1
    /\ exists \in BOOLEAN /\ (~exists => \A i \in Shown : docs[i] = {})
    /\ isReindexing \in BOOLEAN
    /\ \A j \in Jobs :
         /\ job[j].step \in {"new", "delete", "create", "count", "fetch", "bulk", "done", "threw"}
         /\ job[j].total \in 0..Cardinality(Shown)
    /\ isReindexing = \E j \in Jobs : job[j].step \in {"count", "fetch", "bulk"}
    /\ shopWrites \in 0..MaxShopWrites /\ esFaults \in 0..MaxEsFaults

Init ==
    /\ shop = [i \in Shown |-> [rev |-> 1, active |-> TRUE, score |-> 0]]
    /\ docs = [i \in Shown |-> {}] /\ exists = TRUE
    /\ isReindexing = FALSE
    /\ job = [j \in Jobs |-> New]
    /\ shopWrites = 0 /\ esFaults = 0

Goto(j, s) == job' = [job EXCEPT ![j].step = s]
Fault == esFaults < MaxEsFaults /\ esFaults' = esFaults + 1

(* What another call does to the index or the rows disturbs those running. *)
Disturbed(by) == [k \in Jobs |-> IF k = by THEN job[k] ELSE [job[k] EXCEPT !.quiet = FALSE]]

-----------------------------------------------------------------------------
(* reindexAll, or reindexByType; one in progress makes it throw.           *)
ReindexAll(j) ==
    /\ job[j].step = "new" /\ ~isReindexing
    /\ isReindexing' = TRUE
    /\ \E scope \in {Shown} \cup {{i \in Shown : TypeOf[i] = t} : t \in {TypeOf[i] : i \in Shown}} :
         job' = [job EXCEPT ![j].step = "count", ![j].scope = scope]
    /\ UNCHANGED <<shop, docs, exists, shopWrites, esFaults>>

CountItems(j) ==
    /\ job[j].step = "count"
    /\ LET n == Cardinality(Active(job[j].scope)) IN
         /\ job' = [job EXCEPT ![j].total = n, ![j].page = 1, ![j].step = IF n = 0 THEN "done" ELSE "fetch"]
         /\ isReindexing' = (n # 0)
    /\ UNCHANGED <<shop, docs, exists, shopWrites, esFaults>>

FetchBatch(j) ==
    /\ job[j].step = "fetch"
    /\ job' = [job EXCEPT ![j].step = "bulk",
                 ![j].batch = {<<i, shop[i].rev>> : i \in findAllPaginated(job[j].page, job[j].scope)}]
    /\ UNCHANGED <<shop, docs, exists, isReindexing, shopWrites, esFaults>>

(* Mutant: the number of pages is rounded down.                            *)
NextWholePage(j, bad) ==
    LET last == job[j].page >= job[j].total \div BatchSize IN
    /\ job' = [Disturbed(j) EXCEPT
                 ![j].ok = @ + Cardinality(job[j].batch) - Cardinality(bad),
                 ![j].failed = @ \cup bad, ![j].page = @ + 1,
                 ![j].step = IF last THEN "done" ELSE "fetch"]
    /\ isReindexing' = ~last

(* Mutant: the flag stays up after the last page.                          *)
NextPageBusy(j, bad) ==
    LET last == job[j].page >= Ceil(job[j].total, BatchSize) IN
    /\ job' = [Disturbed(j) EXCEPT
                 ![j].ok = @ + Cardinality(job[j].batch) - Cardinality(bad),
                 ![j].failed = @ \cup bad, ![j].page = @ + 1,
                 ![j].step = IF last THEN "done" ELSE "fetch"]
    /\ UNCHANGED isReindexing

(* bulkIndex: an empty bulk is refused, and any request may reject: the    *)
(* call throws and the flag is put back.  Single documents may fail.  An   *)
(* index that does not exist is created by the first write.                *)
NextPage(j, bad) ==
    LET last == job[j].page >= Ceil(job[j].total, BatchSize) IN
    /\ job' = [Disturbed(j) EXCEPT
                 ![j].ok = @ + Cardinality(job[j].batch) - Cardinality(bad),
                 ![j].failed = @ \cup bad, ![j].page = @ + 1,
                 ![j].step = IF last THEN "done" ELSE "fetch"]
    /\ isReindexing' = ~last

BulkIndex(j) ==
    /\ job[j].step = "bulk" /\ job[j].batch # {}
    /\ \E bad \in SUBSET {x[1] : x \in job[j].batch} :
         /\ IF bad = {} THEN UNCHANGED esFaults ELSE Fault
         /\ docs' = [i \in Shown |-> IF i \in bad THEN docs[i]
                                     ELSE {x[2] : x \in {y \in job[j].batch : y[1] = i}} \cup
                                          {n \in docs[i] : \A y \in job[j].batch : y[1] # i}]
         /\ NextPage(j, bad)
    /\ exists' = TRUE
    /\ UNCHANGED <<shop, shopWrites>>

ReindexThrows(j) ==
    /\ job[j].step \in {"count", "fetch", "bulk"}
    /\ IF job[j].step = "bulk" /\ job[j].batch = {} THEN UNCHANGED esFaults ELSE Fault
    /\ Goto(j, "threw") /\ isReindexing' = FALSE
    /\ UNCHANGED <<shop, docs, exists, shopWrites>>

-----------------------------------------------------------------------------
(* rebuildIndex deletes and creates the index first, and only then does    *)
(* reindexAll see whether a reindexing is in progress.                     *)
RebuildIndex(j) ==
    /\ job[j].step = "new"
    /\ job' = [job EXCEPT ![j].step = "delete", ![j].scope = Shown]
    /\ UNCHANGED <<shop, docs, exists, isReindexing, shopWrites, esFaults>>

DeleteIndex(j) ==
    /\ job[j].step = "delete"
    /\ docs' = [i \in Shown |-> {}] /\ exists' = FALSE
    /\ job' = [Disturbed(j) EXCEPT ![j].step = "create"]
    /\ UNCHANGED <<shop, isReindexing, shopWrites, esFaults>>

CreateIndex(j) ==
    /\ job[j].step = "create"
    /\ exists' = TRUE
    /\ isReindexing' = (isReindexing \/ ~exists)
    /\ Goto(j, IF exists \/ isReindexing THEN "threw" ELSE "count")
    /\ UNCHANGED <<shop, docs, shopWrites, esFaults>>

RebuildThrows(j) ==
    /\ job[j].step \in {"delete", "create"} /\ Fault
    /\ Goto(j, "threw")
    /\ UNCHANGED <<shop, docs, exists, isReindexing, shopWrites>>

-----------------------------------------------------------------------------
(* Others: a write with the indexing that follows it, a deactivation, and  *)
(* a view that makes an item more popular.                                 *)
WriteItem ==
    /\ shopWrites < MaxShopWrites /\ shopWrites' = shopWrites + 1
    /\ \E i \in Shown :
         \/ /\ shop' = [shop EXCEPT ![i].rev = @ + 1] /\ exists' = TRUE
            /\ docs' = [docs EXCEPT ![i] = {shop[i].rev + 1}]
         \/ /\ shop' = [shop EXCEPT ![i].active = FALSE] /\ UNCHANGED <<docs, exists>>
         \/ /\ shop' = [shop EXCEPT ![i].score = @ + 1] /\ UNCHANGED <<docs, exists>>
    /\ job' = Disturbed(0)
    /\ UNCHANGED <<isReindexing, esFaults>>

-----------------------------------------------------------------------------
Next ==
    \/ \E j \in Jobs :
        \/ ReindexAll(j) \/ CountItems(j) \/ FetchBatch(j) \/ BulkIndex(j) \/ ReindexThrows(j)
        \/ RebuildIndex(j) \/ DeleteIndex(j) \/ CreateIndex(j) \/ RebuildThrows(j)
    \/ WriteItem

Spec == Init /\ [][Next]_reindexVars

-----------------------------------------------------------------------------
(* A reindexing that nobody disturbed and that did not throw has put every *)
(* active item of its scope into the index at its revision, except those   *)
(* it reports as failed, and its numbers add up to the total.              *)
ReindexCovers ==
    \A j \in Jobs :
        job[j].step = "done" /\ job[j].quiet =>
            /\ job[j].ok + Cardinality(job[j].failed) = job[j].total
            /\ \A i \in Active(job[j].scope) \ job[j].failed : docs[i] = {shop[i].rev}
=============================================================================
