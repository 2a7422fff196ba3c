----------------------------- MODULE CatalogSearch -----------------------------
(***************************************************************************)
(* catalog-search.service.ts: a client walks the pages of a search, which  *)
(* are answered by Elasticsearch or by the service's own cache of answers, *)
(* while the index changes and cached answers expire.                      *)
(***************************************************************************)
EXTENDS Integers, FiniteSets, Sequences, Functions

CONSTANTS
    Documents,         \* ids, naturals: the tie-breaker of every sort
    Fields,            \* fields a search filters by, categories, tags, colors...
    DocumentOf,        \* DocumentOf[d]: its values per field, whether it is active, its relevance
    SearchLimits,
    Wanted,            \* the filters a search may have: values per field, {} for none
    MaxIndexChanges    \* bound on changes to the index

VARIABLES
    indexed,       \* documents in the index
    answers,       \* answers[p]: the cached answer for page p of the client's search, if any
    walk,          \* the client: filters, limit, next page, ids seen
    waiting,       \* Elasticsearch has been asked
    indexChanges

searchVars == <<indexed, answers, walk, waiting, indexChanges>>

-----------------------------------------------------------------------------
PageNumbers == 1..Cardinality(Documents) + 1
CeilDiv(n, d) == (n + d - 1) \div d
MinOf(a, b) == IF a < b THEN a ELSE b

TypeOK ==
    /\ indexed \subseteq Documents
    /\ \A p \in PageNumbers : Cardinality(answers[p]) <= 1
    /\ walk.page \in PageNumbers /\ walk.limit \in SearchLimits /\ walk.wanted \in Wanted
    /\ waiting \in BOOLEAN /\ walk.done \in BOOLEAN /\ indexChanges \in 0..MaxIndexChanges

Init ==
    /\ indexed \in SUBSET Documents
    /\ answers = [p \in PageNumbers |-> {}]
    /\ \E limit \in SearchLimits, wanted \in Wanted :
         walk = [wanted |-> wanted, limit |-> limit, page |-> 1, seen |-> <<>>, done |-> FALSE]
    /\ waiting = FALSE /\ indexChanges = 0

(* buildElasticsearchQuery: active documents that have a wanted value in   *)
(* every field filtered by, sorted by relevance and then by id.  A price   *)
(* filter asks for price_range.gte, which the mapping does not have, and   *)
(* matches nothing: "price" is a field no document has a value in.         *)
Matches(wanted) ==
    {d \in indexed : DocumentOf[d].active /\
        \A f \in Fields : wanted[f] # {} => DocumentOf[d].values[f] \cap wanted[f] # {}}
Precedes(d, e) ==
    IF DocumentOf[d].relevance = DocumentOf[e].relevance THEN d < e
    ELSE DocumentOf[d].relevance > DocumentOf[e].relevance
Sorted(documents) ==
    [k \in 1..Cardinality(documents) |->
        CHOOSE d \in documents : Cardinality({e \in documents : Precedes(e, d)}) = k - 1]
Hits(from, size, wanted) ==
    LET sorted == Sorted(Matches(wanted))
    IN  [k \in 1..MinOf(size, Len(sorted) - from) |-> sorted[from + k]]

(* Mutant: the first page is taken for page zero.                          *)
buildFromPage(page) == Hits(page * walk.limit, walk.limit, walk.wanted)

buildElasticsearchQuery(page) == Hits((page - 1) * walk.limit, walk.limit, walk.wanted)

(* transformSearchResponse.                                                *)
Response(page) ==
    [items |-> buildElasticsearchQuery(page),
     hasNext |-> page < CeilDiv(Cardinality(Matches(walk.wanted)), walk.limit)]

Serve(response) ==
    walk' = [walk EXCEPT !.seen = @ \o response.items, !.done = ~response.hasNext,
                         !.page = IF response.hasNext THEN @ + 1 ELSE @]

-----------------------------------------------------------------------------
(* search: the cached answer for the request, or a query.                  *)
SearchCached ==
    /\ ~walk.done /\ ~waiting
    /\ \E r \in answers[walk.page] : Serve(r)
    /\ UNCHANGED <<indexed, answers, waiting, indexChanges>>

Ask ==
    /\ ~walk.done /\ ~waiting /\ answers[walk.page] = {}
    /\ waiting' = TRUE
    /\ UNCHANGED <<indexed, answers, walk, indexChanges>>

Search ==
    /\ waiting /\ waiting' = FALSE
    /\ answers' = [answers EXCEPT ![walk.page] = {Response(walk.page)}]
    /\ Serve(Response(walk.page))
    /\ UNCHANGED <<indexed, indexChanges>>

(* Another client walks the same pages: nothing is cached twice.           *)
StartOver ==
    /\ walk.done
    /\ walk' = [walk EXCEPT !.page = 1, !.seen = <<>>, !.done = FALSE]
    /\ UNCHANGED <<indexed, answers, waiting, indexChanges>>

IndexChanges ==
    /\ indexChanges < MaxIndexChanges /\ indexChanges' = indexChanges + 1
    /\ \E d \in Documents : indexed' = (indexed \ {d}) \cup ({d} \ indexed)
    /\ UNCHANGED <<answers, walk, waiting>>

ExpireAnswer ==
    /\ \E p \in PageNumbers : answers[p] # {} /\ answers' = [answers EXCEPT ![p] = {}]
    /\ UNCHANGED <<indexed, walk, waiting, indexChanges>>

ClearCache ==
    /\ answers' = [p \in PageNumbers |-> {}]
    /\ UNCHANGED <<indexed, walk, waiting, indexChanges>>

-----------------------------------------------------------------------------
Next == SearchCached \/ Ask \/ Search \/ StartOver \/ IndexChanges \/ ExpireAnswer \/ ClearCache

Spec == Init /\ [][Next]_searchVars

-----------------------------------------------------------------------------
(* As long as the index has not changed, whoever walks the pages to the    *)
(* end has seen every document that matches, and each once, whichever      *)
(* pages came from the cache.                                              *)
AllPagesAllHits ==
    walk.done /\ indexChanges = 0 =>
        /\ Range(walk.seen) = Matches(walk.wanted)
        /\ Len(walk.seen) = Cardinality(Matches(walk.wanted))
=============================================================================
