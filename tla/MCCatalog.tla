------------------------------- MODULE MCCatalog -------------------------------
(***************************************************************************)
(* The catalog's services on small instances.  They share no state but the *)
(* ids of the items: each behaviour exercises one of them, named by part,  *)
(* and the others rest.                                                    *)
(***************************************************************************)
EXTENDS Naturals, FiniteSets, TLC

CONSTANTS
    Items, Calls, MaxRevs, MaxTaken, MaxFaults,
    Readers, MaxPublished, MaxReads, MaxRedisFaults,
    Colls, Names, CollCalls, MaxCollTaken,
    Partners, BrandNames, Types, PartnerCalls, MaxPartnerCalls,
    Shown, TypeOf, BatchSize, Jobs, MaxShopWrites, MaxEsFaults,
    Wares, Catalogs, PersonalCatalog, Shoppers, me, Limits, MaxTaste, MaxShopEvents,
    BufferSize, MaxTracked, Flushes, MaxFlushFaults,
    Documents, Fields, DocumentOf, SearchLimits, Wanted, MaxIndexChanges

ASSUME IdsAssumption == IsFiniteSet(Items) /\ Shown \cup Wares \cup Documents \subseteq Nat
ASSUME SizesAssumption ==
    {BatchSize, BufferSize} \cup Limits \cup SearchLimits \subseteq Nat \ {0} /\ me \in Shoppers
ASSUME BoundsAssumption ==
    {MaxRevs, MaxTaken, MaxFaults, MaxPublished, MaxReads, MaxRedisFaults, MaxCollTaken,
     MaxPartnerCalls, MaxShopWrites, MaxEsFaults, MaxShopEvents, MaxTracked, MaxFlushFaults,
     MaxIndexChanges} \subseteq Nat

(* Rows can be counted, and the reindexing calls are not the other writer. *)
ASSUME ShownAssumption == IsFiniteSet(Shown) /\ 0 \notin Jobs

(* Items have finite lists of features; scores of a search are compared.   *)
ASSUME WaresAssumption ==
    /\ IsFiniteSet(Wares) /\ IsFiniteSet(Shoppers)
    /\ \A w \in Catalogs \cup {PersonalCatalog} :
         /\ DOMAIN w = Wares
         /\ \A i \in Wares :
              /\ DOMAIN w[i] = {"category", "type", "features", "live"} /\ w[i].live \in BOOLEAN
              /\ \A f \in {"tags", "colors", "occasions", "seasons", "styles"} : IsFiniteSet(w[i].features[f])
ASSUME DocumentsAssumption ==
    IsFiniteSet(Documents) /\ \A d \in Documents : DocumentOf[d].relevance \in Nat

(* Ids are UUIDs, and none is the key of a cached list.                    *)
ASSUME KeysAssumption ==
    {"featured", "list"} \cap Colls = {} /\ "active" \notin Partners \cup Types

VARIABLES
    row, flex, memo, listed, index, call, posts, revs, committed, brand, crossed, taken, faults,
    source, l1, l2, reader, stale, mingled, reads, redisFaults,
    coll, member, stock, shelf, ccall, together, placed, ctaken,
    partner, kept, pcall, mixed, ptaken,
    shop, docs, exists, isReindexing, job, shopWrites, esFaults,
    ware, favored, ask, shopEvents,
    kind, buffer, flush, stored, counting, viewCount, useCount, scoredAt, cleared, flushFaults,
    indexed, answers, walk, waiting, indexChanges,
    part  \* the service a behaviour exercises

Item == INSTANCE CatalogItems
Cache == INSTANCE CatalogCache
Collection == INSTANCE Collections
Brand == INSTANCE BrandPartners
Index == INSTANCE Reindex
Recommend == INSTANCE Recommendation
Interact == INSTANCE Interactions
Search == INSTANCE CatalogSearch

itemVars == <<row, flex, memo, listed, index, call, posts, revs, committed, brand, crossed, taken,
              faults>>
cacheVars == <<source, l1, l2, reader, stale, mingled, reads, redisFaults>>
collVars == <<coll, member, stock, shelf, ccall, together, placed, ctaken>>
partnerVars == <<partner, kept, pcall, mixed, ptaken>>
reindexVars == <<shop, docs, exists, isReindexing, job, shopWrites, esFaults>>
recommendationVars == <<ware, favored, ask, shopEvents>>
interactionVars == <<kind, buffer, flush, stored, counting, viewCount, useCount, scoredAt, cleared,
                     flushFaults>>
searchVars == <<indexed, answers, walk, waiting, indexChanges>>
vars == <<itemVars, cacheVars, collVars, partnerVars, reindexVars, recommendationVars,
          interactionVars, searchVars, part>>

-----------------------------------------------------------------------------
(* The values the configuration gives to the constants that are functions. *)
ShownTypes == <<"fabric", "pattern", "fabric">>

Features(tags, occasions) ==
    [f \in {"tags", "colors", "occasions", "seasons", "styles"} |->
        CASE f = "tags" -> tags [] f = "occasions" -> occasions [] OTHER -> {}]
Ware(category, type, tags, occasions) ==
    [category |-> category, type |-> type, features |-> Features(tags, occasions), live |-> TRUE]
OtherWares ==
    {Ware("tops", "fabric", {"a"}, {}), Ware("tops", "pattern", {"a"}, {}),
     Ware("bottoms", "fabric", {"a"}, {}), Ware("hats", "fabric", {}, {})}
WareCatalogs ==
    {[i \in Wares |-> IF i = 1 THEN Ware("tops", "fabric", {"a", "b"}, {"o"}) ELSE s[i]] :
        s \in [Wares -> OtherWares]}
WaresToLike ==
    <<Ware("tops", "fabric", {"a"}, {}), Ware("tops", "fabric", {"a", "b"}, {}),
      Ware("hats", "fabric", {"b"}, {}), Ware("hats", "pattern", {"a"}, {})>>

FourDocuments ==
    [d \in Documents |->
        [values |-> [f \in Fields |-> CASE f = "price" -> {} [] d = 1 -> {"a"} [] OTHER -> {"a", "b"}],
         active |-> d # 4, relevance |-> d % 2]]
ThreeFilters ==
    {[f \in Fields |-> {}], [f \in Fields |-> IF f = "tags" THEN {"b"} ELSE {}],
     [f \in Fields |-> IF f = "price" THEN {"c"} ELSE {}]}

(* The configuration takes the ids of items, collections and partners from *)
(* one set, those of calls, jobs and flushes from another, and names and   *)
(* types from a third.                                                     *)
Interchangeable == Permutations(Items) \cup Permutations(Calls) \cup Permutations(Names)

-----------------------------------------------------------------------------
Init ==
    /\ part \in {"item", "cache", "coll", "partner", "reindex", "recommend", "interact", "search"}
    /\ Item!Init /\ Cache!Init /\ Brand!Init /\ Index!Init /\ Interact!Init
    /\ IF part = "coll" THEN Collection!Init
       ELSE /\ coll = [k \in {} |-> 0] /\ member = {} /\ stock = [i \in Items |-> 0]
            /\ shelf = [k \in Collection!Keys |-> {}]
            /\ ccall = [c \in CollCalls |-> Collection!Idle]
            /\ together = FALSE /\ placed = FALSE /\ ctaken = 0
    /\ IF part = "recommend" THEN Recommend!Init
       ELSE /\ ware = PersonalCatalog /\ favored = {} /\ shopEvents = 0
            /\ ask = [kind |-> "popular", limit |-> 1, item |-> 1, diverse |-> TRUE, step |-> "asked",
                      owned |-> {}, found |-> <<>>, answer |-> <<>>, still |-> TRUE]
    /\ Search!Init
    /\ part # "search" =>
         /\ indexed = {} /\ walk.limit = 1
         /\ walk.wanted = [f \in Fields |-> {}]

OnItem(A) == part = "item" /\ A
    /\ UNCHANGED <<cacheVars, collVars, partnerVars, reindexVars, recommendationVars,
                   interactionVars, searchVars, part>>
OnCache(A) == part = "cache" /\ A
    /\ UNCHANGED <<itemVars, collVars, partnerVars, reindexVars, recommendationVars,
                   interactionVars, searchVars, part>>
OnCollection(A) == part = "coll" /\ A
    /\ UNCHANGED <<itemVars, cacheVars, partnerVars, reindexVars, recommendationVars,
                   interactionVars, searchVars, part>>
OnBrand(A) == part = "partner" /\ A
    /\ UNCHANGED <<itemVars, cacheVars, collVars, reindexVars, recommendationVars,
                   interactionVars, searchVars, part>>
OnIndex(A) == part = "reindex" /\ A
    /\ UNCHANGED <<itemVars, cacheVars, collVars, partnerVars, recommendationVars,
                   interactionVars, searchVars, part>>
OnRecommend(A) == part = "recommend" /\ A
    /\ UNCHANGED <<itemVars, cacheVars, collVars, partnerVars, reindexVars, interactionVars,
                   searchVars, part>>
OnInteract(A) == part = "interact" /\ A
    /\ UNCHANGED <<itemVars, cacheVars, collVars, partnerVars, reindexVars, recommendationVars,
                   searchVars, part>>
OnSearch(A) == part = "search" /\ A
    /\ UNCHANGED <<itemVars, cacheVars, collVars, partnerVars, reindexVars, recommendationVars,
                   interactionVars, part>>

Next ==
    \/ \E c \in Calls :
        \/ OnItem(Item!Take(c)) \/ OnItem(Item!Find(c)) \/ OnItem(Item!GetCatalogItem(c))
        \/ OnItem(Item!FindAllPaginated(c)) \/ OnItem(Item!ListCatalogItems(c))
        \/ OnItem(Item!ValidateCatalogItem(c)) \/ OnItem(Item!CheckBrand(c))
        \/ OnItem(Item!SaveItem(c)) \/ OnItem(Item!WriteFlexible(c)) \/ OnItem(Item!Commit(c))
        \/ OnItem(Item!SoftDelete(c)) \/ OnItem(Item!DeleteCatalogItem(c))
        \/ OnItem(Item!CallFails(c))
    \/ OnItem(Item!IndexDocument) \/ OnItem(Item!IncrementViewCount)
    \/ OnItem(Item!UpdatePopularityScore) \/ OnItem(Item!PostFails) \/ OnItem(Item!Expire)
    \/ OnItem(Item!DeactivateBrand)
    \/ OnCache(Cache!PublishItem) \/ OnCache(Cache!WarmCache) \/ OnCache(Cache!InvalidateAll)
    \/ OnCache(Cache!EvictL1) \/ OnCache(Cache!ExpireL2)
    \/ \E c \in Readers :
        \/ OnCache(Cache!GetFromL2(c)) \/ OnCache(Cache!GetFromL3(c))
        \/ OnCache(Cache!SetCatalogItem(c)) \/ OnCache(Cache!SetInL2(c))
        \/ OnCache(Cache!HoldItem(c)) \/ OnCache(Cache!InvalidateItem(c)) \/ OnCache(Cache!DeleteFromL2(c))
    \/ \E c \in CollCalls :
        \/ OnCollection(Collection!Take(c)) \/ OnCollection(Collection!Find(c))
        \/ OnCollection(Collection!PutInCache(c)) \/ OnCollection(Collection!VerifyCollection(c))
        \/ OnCollection(Collection!CheckName(c)) \/ OnCollection(Collection!CreateCollection(c))
        \/ OnCollection(Collection!UpdateCollection(c)) \/ OnCollection(Collection!DeleteCollection(c))
        \/ OnCollection(Collection!CheckItem(c)) \/ OnCollection(Collection!GetMaxOrder(c))
        \/ OnCollection(Collection!AddItem(c)) \/ OnCollection(Collection!FindMember(c))
        \/ OnCollection(Collection!RemoveItem(c)) \/ OnCollection(Collection!FindMembers(c))
        \/ OnCollection(Collection!ReorderItems(c)) \/ OnCollection(Collection!ClearCaches(c))
    \/ OnCollection(Collection!ExpireShelf) \/ OnCollection(Collection!ItemChanges)
    \/ \E c \in PartnerCalls :
        \/ OnBrand(Brand!Take(c)) \/ OnBrand(Brand!Find(c)) \/ OnBrand(Brand!PutInCache(c))
        \/ OnBrand(Brand!VerifyPartner(c)) \/ OnBrand(Brand!CheckName(c))
        \/ OnBrand(Brand!SavePartner(c)) \/ OnBrand(Brand!DeletePartner(c))
        \/ OnBrand(Brand!ClearCaches(c))
    \/ OnBrand(Brand!ExpireKept)
    \/ \E j \in Jobs :
        \/ OnIndex(Index!ReindexAll(j)) \/ OnIndex(Index!CountItems(j)) \/ OnIndex(Index!FetchBatch(j))
        \/ OnIndex(Index!BulkIndex(j)) \/ OnIndex(Index!ReindexThrows(j))
        \/ OnIndex(Index!RebuildIndex(j)) \/ OnIndex(Index!DeleteIndex(j))
        \/ OnIndex(Index!CreateIndex(j)) \/ OnIndex(Index!RebuildThrows(j))
    \/ OnIndex(Index!WriteItem)
    \/ OnRecommend(Recommend!GetNewArrivals) \/ OnRecommend(Recommend!GetTrending)
    \/ OnRecommend(Recommend!GetPopular) \/ OnRecommend(Recommend!FindReference)
    \/ OnRecommend(Recommend!GetSimilar) \/ OnRecommend(Recommend!FindByIds)
    \/ OnRecommend(Recommend!GetComplementary) \/ OnRecommend(Recommend!ExtractUserPreferences)
    \/ OnRecommend(Recommend!CollaborativeFiltering) \/ OnRecommend(Recommend!GetPersonalized)
    \/ OnRecommend(Recommend!DeleteWare) \/ OnRecommend(Recommend!AddFavorite)
    \/ OnInteract(Interact!TrackInteraction) \/ OnInteract(Interact!FlushInterval)
    \/ OnInteract(Interact!ClearBuffer)
    \/ \E f \in Flushes :
        \/ OnInteract(Interact!InsertBatch(f)) \/ OnInteract(Interact!FlushFails(f))
    \/ \E n \in 1..MaxTracked : OnInteract(Interact!UpdateItemCounters(n))
    \/ OnSearch(Search!SearchCached) \/ OnSearch(Search!Ask) \/ OnSearch(Search!Search)
    \/ OnSearch(Search!StartOver) \/ OnSearch(Search!IndexChanges) \/ OnSearch(Search!ExpireAnswer)
    \/ OnSearch(Search!ClearCache)

Spec == Init /\ [][Next]_vars

-----------------------------------------------------------------------------
(* The state of the service that moves is well typed.                      *)
TypeOK ==
    CASE part = "item" -> Item!TypeOK [] part = "cache" -> Cache!TypeOK
      [] part = "coll" -> Collection!TypeOK [] part = "partner" -> Brand!TypeOK
      [] part = "reindex" -> Index!TypeOK [] part = "recommend" -> Recommend!TypeOK
      [] part = "interact" -> Interact!TypeOK [] part = "search" -> Search!TypeOK

(* The services' own properties, stated and explained in their modules:    *)
(* every cache and the index follow what was committed;                    *)
CopiesFollow == Item!CopiesFollow /\ Cache!LayersFollow

(* at rest the index has exactly the items, be it kept up or rebuilt;      *)
IndexAgrees == Item!IndexCatchesUp /\ Index!ReindexCovers

(* without overlapping calls a cache is stale only in what its service is  *)
(* not told of;                                                            *)
CachesFreshAlone ==
    Collection!ShelfFreshAlone /\ Brand!KeptFreshAlone /\ Cache!InvalidatedIsFresh

(* collections stay tidy;                                                  *)
TidyAlone == Collection!TidyAlone

(* recommendations and result pages are what was asked for;                *)
AnswersAreSound == Recommend!AnswersAreSound /\ Search!AllPagesAllHits

(* and no interaction is lost.                                             *)
NothingLost == Interact!NothingLost
=============================================================================
