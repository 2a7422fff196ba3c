----------------------------- MODULE CatalogItems -----------------------------
(***************************************************************************)
(* catalog-management.service.ts: items of one name, as PostgreSQL rows    *)
(* with documents in MongoDB and Elasticsearch, behind the service's own   *)
(* in-memory caches of items and lists.  Calls interleave at their awaits; *)
(* what they start and do not await (indexing, counting a view) is posted. *)
(***************************************************************************)
EXTENDS Naturals, FiniteSets

CONSTANTS
    Items,     \* ids of rows
    Calls,     \* calls that may be in flight at once
    MaxRevs,   \* bound on the revisions ever written
    MaxTaken,  \* bound on the calls that come in
    MaxFaults  \* bound on queries that reject

VARIABLES
    row,        \* the committed rows: revision, soft deletion, views, views in the score
    flex,       \* flex[i]: revisions in the MongoDB document, none without one
    memo,       \* memo[i]: the cached copy of a row, if any
    listed,     \* the cached list: a set of at most one list of copies
    index,      \* index[i]: the revision Elasticsearch holds, if any
    call,       \* call[c]: the call c is in
    posts,      \* started and not awaited
    revs,       \* revisions ever written, the last one's number
    committed,  \* (item, revision) of every commit so far
    brand,      \* the brand partner is active
    crossed,    \* calls have overlapped, or indexings of one item have
    taken, faults

itemVars == <<row, flex, memo, listed, index, call, posts, revs, committed, brand, crossed,
              taken, faults>>

-----------------------------------------------------------------------------
Nowhere == "none"
Free == [op |-> "none", step |-> "idle", item |-> Nowhere, copy |-> {}, writes |-> {}, rev |-> 0]
Stored == DOMAIN row
Live == {i \in Stored : ~row[i].deleted}
CatalogFlexible == SUBSET (1..MaxRevs)
Copies == [rev : 0..MaxRevs, deleted : BOOLEAN, views : Nat, scored : Nat]

TypeOK ==
    /\ Stored \subseteq Items /\ \A i \in Stored : row[i] \in Copies
    /\ \A i \in Items : flex[i] \in CatalogFlexible /\ index[i] \subseteq 1..MaxRevs
    /\ \A i \in Items : memo[i] \subseteq Copies /\ Cardinality(memo[i]) <= 1
    /\ \A c \in Calls :
         /\ call[c].op \in {"none", "create", "get", "update", "delete", "list"}
         /\ call[c].copy \subseteq Copies
    /\ revs \in 0..MaxRevs /\ taken \in 0..MaxTaken /\ faults \in 0..MaxFaults
    /\ brand \in BOOLEAN /\ crossed \in BOOLEAN

Init ==
    /\ row = [i \in {} |-> 0]
    /\ flex = [i \in Items |-> {}] /\ memo = [i \in Items |-> {}] /\ listed = {}
    /\ index = [i \in Items |-> {}]
    /\ call = [c \in Calls |-> Free] /\ posts = {}
    /\ revs = 0 /\ committed = {} /\ brand = TRUE /\ crossed = FALSE
    /\ taken = 0 /\ faults = 0

Step(c, s) == call[c].step = s
Goto(c, s) == call' = [call EXCEPT ![c].step = s]
Leave(c) == call' = [call EXCEPT ![c] = Free]
Busy == \E c \in Calls : ~Step(c, "idle")
Rest == UNCHANGED <<revs, committed, brand, taken, faults>>

(* Posting an indexing while one for the same item is under way: the two   *)
(* may be answered in either order.                                        *)
Posted(kind, i, n) == [kind |-> kind, item |-> i, rev |-> n]
Indexing(i) == {p \in posts : p.item = i /\ p.kind \in {"index", "unindex"}}
Crossing(i) == crossed \/ Indexing(i) # {}

-----------------------------------------------------------------------------
(* getFromCache is synchronous: a call that finds a copy goes on with it.  *)
NextOf(op) == CASE op = "update" -> "brand" [] op = "delete" -> "softDelete"

Take(c) ==
    /\ Step(c, "idle") /\ taken < MaxTaken
    /\ taken' = taken + 1
    /\ crossed' = (crossed \/ Busy)
    /\ \/ call' = [call EXCEPT ![c] = [Free EXCEPT !.op = "create", !.step = "names"]]
       \/ \E op \in {"get", "update", "delete"}, i \in Items :
            LET came == [Free EXCEPT !.op = op, !.item = i] IN
            IF memo[i] = {} THEN call' = [call EXCEPT ![c] = [came EXCEPT !.step = "find"]]
            ELSE IF op = "get" THEN call' = call
            ELSE call' = [call EXCEPT ![c] = [came EXCEPT !.step = NextOf(op), !.copy = memo[i]]]
       \/ IF listed = {} THEN call' = [call EXCEPT ![c] = [Free EXCEPT !.op = "list", !.step = "find"]]
          ELSE call' = call
    /\ UNCHANGED <<row, flex, memo, listed, index, posts, revs, committed, brand, faults>>

(* findByIdWithRelations of an item that is not deleted, or NotFound.      *)
Find(c) ==
    /\ Step(c, "find") /\ call[c].op # "list"
    /\ IF call[c].item \in Live
       THEN call' = [call EXCEPT ![c].step = "found", ![c].copy = {row[call[c].item]}]
       ELSE Leave(c)
    /\ UNCHANGED <<row, flex, memo, listed, index, posts, crossed>> /\ Rest

(* The view is counted some time later; the copy is cached.                *)
GetCatalogItem(c) ==
    /\ Step(c, "found") /\ call[c].op # "list"
    /\ posts' = posts \cup {Posted("view", call[c].item, 0)}
    /\ memo' = [memo EXCEPT ![call[c].item] = call[c].copy]
    /\ IF call[c].op = "get" THEN Leave(c) ELSE Goto(c, NextOf(call[c].op))
    /\ UNCHANGED <<row, flex, listed, index, crossed>> /\ Rest

FindAllPaginated(c) ==
    /\ Step(c, "find") /\ call[c].op = "list"
    /\ call' = [call EXCEPT ![c].step = "found", ![c].writes = {<<i, row[i].rev>> : i \in Live}]
    /\ UNCHANGED <<row, flex, memo, listed, index, posts, crossed>> /\ Rest

ListCatalogItems(c) ==
    /\ Step(c, "found") /\ call[c].op = "list"
    /\ listed' = {call[c].writes}
    /\ Leave(c)
    /\ UNCHANGED <<row, flex, memo, index, posts, crossed>> /\ Rest

-----------------------------------------------------------------------------
(* validateCatalogItem: no other item of the name, an active brand.        *)
ValidateCatalogItem(c) ==
    /\ Step(c, "names")
    /\ IF Live = {} THEN Goto(c, "brand") ELSE Leave(c)
    /\ UNCHANGED <<row, flex, memo, listed, index, posts, crossed>> /\ Rest

CheckBrand(c) ==
    /\ Step(c, "brand")
    /\ \/ Goto(c, "save")
       \/ ~brand /\ Leave(c)
    /\ UNCHANGED <<row, flex, memo, listed, index, posts, crossed>> /\ Rest

(* manager.save in the transaction.  An update selects the row and writes  *)
(* the columns in which it differs from the copy: the counters it read, or *)
(* had cached, go back to what they were, and a deletion is undone.        *)
Differs(i, copy) == {f \in {"deleted", "views", "scored"} : row[i][f] # copy[f]}

SaveItem(c) ==
    /\ Step(c, "save") /\ revs < MaxRevs
    /\ revs' = revs + 1
    /\ IF call[c].op = "create"
       THEN \E i \in Items :
              /\ i \notin Stored /\ \A d \in Calls : call[d].item # i
              /\ call' = [call EXCEPT ![c].step = "flex", ![c].rev = revs + 1, ![c].item = i,
                            ![c].copy = {[rev |-> 0, deleted |-> FALSE, views |-> 0, scored |-> 0]}]
       ELSE \E copy \in call[c].copy :
              call' = [call EXCEPT ![c].step = "flex", ![c].rev = revs + 1,
                            ![c].writes = Differs(call[c].item, copy)]
    /\ UNCHANGED <<row, flex, memo, listed, index, posts, committed, brand, crossed, taken, faults>>

(* Mutant: the index is told before the commit.                            *)
WriteFlexibleAndIndex(c) ==
    /\ Step(c, "flex")
    /\ Goto(c, "commit")
    /\ flex' = [flex EXCEPT ![call[c].item] = {call[c].rev}]
    /\ index' = [index EXCEPT ![call[c].item] = {call[c].rev}]
    /\ UNCHANGED <<row, memo, listed, posts, crossed>> /\ Rest

(* The document in MongoDB, which no transaction covers; it may be left out. *)
WriteFlexible(c) ==
    /\ Step(c, "flex")
    /\ Goto(c, "commit")
    /\ \/ UNCHANGED flex
       \/ /\ call[c].op = "create" \/ flex[call[c].item] # {}
          /\ flex' = [flex EXCEPT ![call[c].item] = {call[c].rev}]
    /\ UNCHANGED <<row, memo, listed, index, posts, crossed>> /\ Rest

Written(c) ==
    LET copy == CHOOSE x \in call[c].copy : TRUE
        i == call[c].item
        Column(f) == IF i \in Stored /\ f \notin call[c].writes THEN row[i][f] ELSE copy[f]
    IN [rev |-> call[c].rev, deleted |-> Column("deleted"), views |-> Column("views"),
        scored |-> Column("scored")]

(* Mutant: the caches are cleared and the index is left alone.             *)
CommitUnindexed(c) ==
    /\ Step(c, "commit")
    /\ LET i == call[c].item IN
         /\ row' = [j \in Stored \cup {i} |-> IF j = i THEN Written(c) ELSE row[j]]
         /\ committed' = committed \cup {<<i, call[c].rev>>}
         /\ memo' = IF call[c].op = "update" THEN [memo EXCEPT ![i] = {}] ELSE memo
         /\ UNCHANGED <<posts, crossed>>
    /\ listed' = {}
    /\ Leave(c)
    /\ UNCHANGED <<flex, index, revs, brand, taken, faults>>

Commit(c) ==
    /\ Step(c, "commit")
    /\ LET i == call[c].item IN
         /\ row' = [j \in Stored \cup {i} |-> IF j = i THEN Written(c) ELSE row[j]]
         /\ committed' = committed \cup {<<i, call[c].rev>>}
         /\ memo' = IF call[c].op = "update" THEN [memo EXCEPT ![i] = {}] ELSE memo
         /\ posts' = posts \cup {Posted("index", i, call[c].rev)}
         /\ crossed' = Crossing(i)
    /\ listed' = {}
    /\ Leave(c)
    /\ UNCHANGED <<flex, index, revs, brand, taken, faults>>

(* softDelete, seen at once by other calls, and what follows it.           *)
SoftDelete(c) ==
    /\ Step(c, "softDelete")
    /\ row' = [row EXCEPT ![call[c].item].deleted = TRUE]
    /\ Goto(c, "deleted")
    /\ UNCHANGED <<flex, memo, listed, index, posts, crossed>> /\ Rest

DeleteCatalogItem(c) ==
    /\ Step(c, "deleted")
    /\ memo' = [memo EXCEPT ![call[c].item] = {}] /\ listed' = {}
    /\ posts' = posts \cup {Posted("unindex", call[c].item, 0)}
    /\ crossed' = Crossing(call[c].item)
    /\ Leave(c)
    /\ UNCHANGED <<row, flex, index>> /\ Rest

(* A query rejects: the catch rolls back, and what MongoDB has stays.      *)
CallFails(c) ==
    /\ ~Step(c, "idle") /\ ~Step(c, "found") /\ ~Step(c, "deleted") /\ faults < MaxFaults
    /\ faults' = faults + 1
    /\ Leave(c)
    /\ UNCHANGED <<row, flex, memo, listed, index, posts, revs, committed, brand, crossed, taken>>

-----------------------------------------------------------------------------
(* indexDocument and deleteDocument, where a missing document is no error. *)
IndexDocument ==
    /\ \E p \in posts :
         /\ p.kind \in {"index", "unindex"}
         /\ index' = [index EXCEPT ![p.item] = IF p.kind = "index" THEN {p.rev} ELSE {}]
         /\ posts' = posts \ {p}
    /\ UNCHANGED <<row, flex, memo, listed, call, crossed>> /\ Rest

(* incrementViewCount: one UPDATE adds, the next one rescores.             *)
IncrementViewCount ==
    /\ \E p \in posts :
         /\ p.kind = "view"
         /\ row' = [row EXCEPT ![p.item].views = @ + 1]
         /\ posts' = (posts \ {p}) \cup {Posted("score", p.item, 0)}
    /\ UNCHANGED <<flex, memo, listed, index, call, crossed>> /\ Rest

UpdatePopularityScore ==
    /\ \E p \in posts :
         /\ p.kind = "score"
         /\ row' = [row EXCEPT ![p.item].scored = row[p.item].views]
         /\ posts' = posts \ {p}
    /\ UNCHANGED <<flex, memo, listed, index, call, crossed>> /\ Rest

(* Nobody awaits a post: its rejection is logged and nothing else happens. *)
PostFails ==
    /\ faults < MaxFaults /\ faults' = faults + 1
    /\ \E p \in posts : posts' = posts \ {p}
    /\ UNCHANGED <<row, flex, memo, listed, index, call, revs, committed, brand, crossed, taken>>

(* A cached entry is dropped by the get that finds it expired.             *)
Expire ==
    /\ \/ listed # {} /\ listed' = {} /\ UNCHANGED memo
       \/ \E i \in Items : memo[i] # {} /\ memo' = [memo EXCEPT ![i] = {}] /\ UNCHANGED listed
    /\ UNCHANGED <<row, flex, index, call, posts, crossed>> /\ Rest

(* The brand partner service ends the partnership.                         *)
DeactivateBrand ==
    /\ brand /\ brand' = FALSE
    /\ UNCHANGED <<row, flex, memo, listed, index, call, posts, revs, committed, crossed, taken, faults>>

-----------------------------------------------------------------------------
Next ==
    \/ \E c \in Calls :
        \/ Take(c) \/ Find(c) \/ GetCatalogItem(c) \/ FindAllPaginated(c) \/ ListCatalogItems(c)
        \/ ValidateCatalogItem(c) \/ CheckBrand(c) \/ SaveItem(c) \/ WriteFlexible(c) \/ Commit(c)
        \/ SoftDelete(c) \/ DeleteCatalogItem(c) \/ CallFails(c)
    \/ IndexDocument \/ IncrementViewCount \/ UpdatePopularityScore \/ PostFails \/ Expire
    \/ DeactivateBrand

Spec == Init /\ [][Next]_itemVars

-----------------------------------------------------------------------------
(* Properties.                                                             *)

(* The refinement: the cached items, the cached list and the documents in  *)
(* the index are followers of the committed rows.  (The MongoDB documents  *)
(* are not: a rolled back call leaves what was never committed.)           *)
Copy == INSTANCE Followers WITH
            Holders <- {"memo", "listed", "index"},
            published <- committed,
            held <- [memo |-> UNION {{<<i, r.rev>> : r \in memo[i]} : i \in Items},
                     listed |-> UNION listed,
                     index |-> UNION {{<<i, n>> : n \in index[i]} : i \in Items}]

CopiesFollow == Copy!Spec

(* As long as no calls overlap, no two indexings of an item are under way  *)
(* together and nothing was rejected, the index ends up with the rows that *)
(* are not deleted, at their current revisions, and with nothing else.     *)
IndexCatchesUp ==
    ~crossed /\ faults = 0 /\ ~Busy /\ posts = {} =>
        \A i \in Items : index[i] = IF i \in Live THEN {row[i].rev} ELSE {}
=============================================================================
