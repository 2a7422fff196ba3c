---------------------------- MODULE Recommendation ----------------------------
(***************************************************************************)
(* recommendation.service.ts: one request for recommendations.  Results    *)
(* are sequences of [id, score], best first; scores are in tenths of the   *)
(* code's points, shares of a score in sixths.  Items may be deleted and   *)
(* favorites added between the queries of a request.                       *)
(***************************************************************************)
EXTENDS Integers, FiniteSets, Sequences

CONSTANTS
    Wares,           \* ids of items, naturals: the larger id is newer and more popular
    Catalogs,        \* the attributes the items may have
    PersonalCatalog, \* their attributes in personal requests
    Shoppers, me,    \* users, and the one who asks
    Limits,          \* limits a request may have
    MaxTaste,        \* categories and tags taken as preferences
    MaxShopEvents    \* bound on deletions and favorites meanwhile

VARIABLES
    ware,     \* ware[i]: category, type, features, and whether it is active and not deleted
    favored,  \* pairs <<user, item>>
    ask,      \* the request: what it asks for, what its queries have given
    shopEvents

recommendationVars == <<ware, favored, ask, shopEvents>>

-----------------------------------------------------------------------------
Kinds == {"personalized", "similar", "complementary", "popular", "new", "trending"}
Unaddressed == {"personalized", "popular", "new", "trending"}
Weight == [tags |-> 20, colors |-> 15, occasions |-> 15, seasons |-> 10, styles |-> 10]
MinOf(a, b) == IF a < b THEN a ELSE b
Sellable == {i \in Wares : ware[i].live}

(* What is in a set in the order of a relation: so many precede the k-th.  *)
InOrder(S, R) ==
    [k \in 1..Cardinality(S) |-> CHOOSE x \in S : Cardinality({y \in S : <<y, x>> \in R}) = k - 1]

(* Results by score; of equals those in early come first, then the newest. *)
Ranked(results, early) ==
    InOrder(results,
        {p \in results \X results :
            \/ p[1].score > p[2].score
            \/ /\ p[1].score = p[2].score
               /\ IF p[1].id \in early <=> p[2].id \in early THEN p[1].id > p[2].id ELSE p[1].id \in early})
Ids(results) == {results[n].id : n \in DOMAIN results}
Cut(results, n) == [k \in 1..MinOf(n, Len(results)) |-> results[k]]

TypeOK ==
    /\ \A i \in Wares : ware[i].live \in BOOLEAN
    /\ favored \subseteq Shoppers \X Wares
    /\ ask.kind \in Kinds /\ ask.limit \in Limits /\ ask.item \in Wares
    /\ ask.step \in {"asked", "tastes", "others", "candidates", "scored", "answered", "refused"}
    /\ Ids(ask.found) \subseteq Wares
    /\ shopEvents \in 0..MaxShopEvents

Init ==
    /\ \E kind \in Kinds, limit \in Limits, item \in Wares, diverse \in BOOLEAN :
         /\ kind \in Unaddressed => \A i \in Wares : item <= i
         /\ kind \notin {"popular", "new"} => diverse
         /\ ask = [kind |-> kind, limit |-> limit, item |-> item, diverse |-> diverse,
                   step |-> "asked", owned |-> {}, found |-> <<>>, answer |-> <<>>, still |-> TRUE]
         /\ IF kind = "personalized"
            THEN favored \in SUBSET (Shoppers \X Wares) /\ ware = PersonalCatalog
            ELSE favored = {} /\ ware \in Catalogs
    /\ shopEvents = 0

-----------------------------------------------------------------------------
(* calculateArrayOverlap, and calculateSimilarity over the candidates: the *)
(* items of the reference's type.                                          *)
Overlap(a, b) ==
    IF a = {} \/ b = {} THEN 0
    ELSE (6 * Cardinality(a \cap b)) \div
         (IF Cardinality(a) > Cardinality(b) THEN Cardinality(a) ELSE Cardinality(b))

Similarity(a, b) ==
    (IF a.category = b.category THEN 6 * 30 ELSE 0) +
    LET weighed(f) == Overlap(a.features[f], b.features[f]) * Weight[f]
    IN  weighed("tags") + weighed("colors") + weighed("occasions") + weighed("seasons") + weighed("styles")

calculateSimilarity(ref, limit) ==
    Cut(Ranked({[id |-> i, score |-> Similarity(ware[i], ware[ref])] :
                  i \in {j \in Sellable \ {ref} : ware[j].type = ware[ref].type}}, {}), limit)

(* getComplementaryCategories, for the categories that occur here.         *)
getComplementaryCategories(category) ==
    CASE category = "tops" -> {"bottoms"} [] category = "bottoms" -> {"tops"} [] OTHER -> {}

findComplementaryItems(ref, limit) ==
    LET matches(i, f) == IF ware[i].features[f] \cap ware[ref].features[f] # {} THEN 25 ELSE 0
        pool == {i \in Sellable : ware[i].category \in getComplementaryCategories(ware[ref].category)}
        best == {i \in pool : Cardinality({j \in pool : j > i}) < 2 * limit}
    IN  Cut(Ranked({[id |-> i, score |-> 50 + matches(i, "occasions") + matches(i, "seasons")] : i \in best},
                   {}), limit)

(* getPopular: what is most popular, with falling scores.                  *)
ByPopularity(pool, top) ==
    Ranked({[id |-> i, score |-> top - 2 * Cardinality({j \in pool : j > i})] : i \in pool}, {})
getPopular(limit) == Cut(ByPopularity(Sellable, 100), 2 * limit)

(* collaborativeFiltering: users who share two favorites.                  *)
Favorites(u) == {i \in Wares : <<u, i>> \in favored}
similar_users == {u \in Shoppers \ {me} : Cardinality(Favorites(u) \cap Favorites(me)) >= 2}
collaborativeFiltering(limit) ==
    Cut(Ranked({[id |-> i, score |-> 10 * Cardinality({u \in similar_users : i \in Favorites(u)})] :
                  i \in {j \in Sellable \ Favorites(me) : \E u \in similar_users : j \in Favorites(u)}}, {}),
        limit)

(* contentBasedFiltering, by the most frequent categories and tags among   *)
(* the favorites; ties may fall either way.                                *)
MostFrequent(values, count(_)) ==
    {top \in SUBSET values :
        /\ Cardinality(top) = MinOf(MaxTaste, Cardinality(values))
        /\ \A v \in top, w \in values \ top : count(v) >= count(w)}

Tastes(owned) ==
    {<<c, t>> \in
       MostFrequent({ware[i].category : i \in owned}, LAMBDA c : Cardinality({i \in owned : ware[i].category = c})) \X
       MostFrequent(UNION {ware[i].features["tags"] : i \in owned},
                    LAMBDA t : Cardinality({i \in owned : t \in ware[i].features["tags"]})) : TRUE}

contentBasedFiltering(owned, taste, limit) ==
    LET pool == {i \in Sellable \ owned :
                    /\ taste[1] # {} => ware[i].category \in taste[1]
                    /\ taste[2] # {} => ware[i].features["tags"] \cap taste[2] # {}}
    IN  Cut(Ranked({[id |-> i, score |-> 90 - Cardinality({j \in pool : j > i})] : i \in pool}, {}), limit)

(* ensembleRanking: six tenths of the one score and four of the other.     *)
ScoreIn(results, i) ==
    IF i \in Ids(results) THEN results[CHOOSE n \in DOMAIN results : results[n].id = i].score ELSE 0
ensembleRanking(one, other, limit) ==
    Cut(Ranked({[id |-> i, score |-> 6 * ScoreIn(one, i) + 4 * ScoreIn(other, i)] :
                  i \in Ids(one) \cup Ids(other)},
               Ids(one)), limit)

-----------------------------------------------------------------------------
(* diversifyResults: first whatever brings a new category or a new type,   *)
(* as long as there is room, then the best of the rest.                    *)
(* Mutant: only the types are looked at.                                   *)
FreshType(results, n, diversified) ==
    \A m \in diversified : ware[results[m].id].type # ware[results[n].id].type

Fresh(results, n, diversified) ==
    \/ \A m \in diversified : ware[results[m].id].category # ware[results[n].id].category
    \/ \A m \in diversified : ware[results[m].id].type # ware[results[n].id].type

FirstPass(results, target) ==
    CHOOSE picked \in SUBSET DOMAIN results :
        \A n \in DOMAIN results :
            LET diversified == {m \in picked : m < n}
            IN  n \in picked <=> Cardinality(diversified) < target /\ Fresh(results, n, diversified)

diversifyResults(results, target) ==
    IF Len(results) <= target THEN results
    ELSE LET picked == FirstPass(results, target)
             order == InOrder(DOMAIN results,
                         {p \in (DOMAIN results) \X (DOMAIN results) :
                             IF p[1] \in picked <=> p[2] \in picked THEN p[1] < p[2] ELSE p[1] \in picked})
         IN  [k \in 1..target |-> results[order[k]]]

(* The end of getRecommendations: diversity, the limit, and the answer.    *)
Answer(results) ==
    LET diverse == IF ask.diverse THEN diversifyResults(results, ask.limit) ELSE results
    IN  [ask EXCEPT !.step = "answered", !.found = results, !.answer = Cut(diverse, ask.limit)]

-----------------------------------------------------------------------------
(* The request goes through its queries.                                   *)
GetPopular ==
    /\ ask.step = "asked" /\ ask.kind = "popular"
    /\ ask' = Answer(getPopular(ask.limit))
    /\ UNCHANGED <<ware, favored, shopEvents>>

(* The items of the last thirty days, the newest first.                    *)
GetNewArrivals ==
    /\ ask.step = "asked" /\ ask.kind = "new"
    /\ \E since \in Wares :
         ask' = Answer(Cut(ByPopularity({i \in Sellable : i >= since}, 100), 2 * ask.limit))
    /\ UNCHANGED <<ware, favored, shopEvents>>

(* HAVING names the alias of a selected column, which PostgreSQL refuses.  *)
GetTrending ==
    /\ ask.step = "asked" /\ ask.kind = "trending"
    /\ ask' = [ask EXCEPT !.step = "refused"]
    /\ UNCHANGED <<ware, favored, shopEvents>>

(* The reference item is there, or BadRequest.                             *)
FindReference ==
    /\ ask.step = "asked" /\ ask.kind \in {"similar", "complementary"}
    /\ ask' = [ask EXCEPT !.step = IF ask.item \in Sellable THEN "candidates" ELSE "refused"]
    /\ UNCHANGED <<ware, favored, shopEvents>>

GetSimilar ==
    /\ ask.step = "candidates"
    /\ \/ ask.kind = "similar"
       \/ getComplementaryCategories(ware[ask.item].category) = {}
    /\ ask' = [ask EXCEPT !.step = "scored",
                 !.found = calculateSimilarity(ask.item, (IF ask.kind = "similar" THEN 3 ELSE 6) * ask.limit)]
    /\ UNCHANGED <<ware, favored, shopEvents>>

(* findByIds of the scored ones: a deleted one is undefined, which the     *)
(* diversity does not survive if it comes to look at it.                   *)
FindByIds ==
    /\ ask.step = "scored"
    /\ \/ ask' = Answer(ask.found)
       \/ /\ ask.diverse /\ Len(ask.found) > ask.limit
          /\ \E i \in Ids(ask.found) : ~ware[i].live
          /\ ask' = [ask EXCEPT !.step = "refused"]
    /\ UNCHANGED <<ware, favored, shopEvents>>

GetComplementary ==
    /\ ask.step = "candidates" /\ ask.kind = "complementary"
    /\ getComplementaryCategories(ware[ask.item].category) # {}
    /\ ask' = Answer(findComplementaryItems(ask.item, 2 * ask.limit))
    /\ UNCHANGED <<ware, favored, shopEvents>>

ExtractUserPreferences ==
    /\ ask.step = "asked" /\ ask.kind = "personalized"
    /\ ask' = [ask EXCEPT !.step = "tastes", !.owned = Favorites(me)]
    /\ UNCHANGED <<ware, favored, shopEvents>>

CollaborativeFiltering ==
    /\ ask.step = "tastes"
    /\ ask' = [ask EXCEPT !.step = "others", !.found = collaborativeFiltering((3 * ask.limit + 1) \div 2)]
    /\ UNCHANGED <<ware, favored, shopEvents>>

GetPersonalized ==
    /\ ask.step = "others"
    /\ \E taste \in Tastes(ask.owned) :
         ask' = Answer(ensembleRanking(ask.found,
                          contentBasedFiltering(ask.owned, taste, (3 * ask.limit + 1) \div 2), 2 * ask.limit))
    /\ UNCHANGED <<ware, favored, shopEvents>>

(* Meanwhile an item is deleted, or the user adds a favorite.              *)
DeleteWare ==
    /\ shopEvents < MaxShopEvents /\ shopEvents' = shopEvents + 1
    /\ ask.step \notin {"answered", "refused"}
    /\ \E i \in Sellable : ware' = [ware EXCEPT ![i].live = FALSE]
    /\ ask' = [ask EXCEPT !.still = FALSE]
    /\ UNCHANGED favored

AddFavorite ==
    /\ shopEvents < MaxShopEvents /\ shopEvents' = shopEvents + 1
    /\ ask.step \in {"tastes", "others"}
    /\ \E i \in Wares \ Favorites(me) : favored' = favored \cup {<<me, i>>}
    /\ ask' = [ask EXCEPT !.still = FALSE]
    /\ UNCHANGED ware

-----------------------------------------------------------------------------
Next ==
    \/ GetPopular \/ GetNewArrivals \/ GetTrending \/ FindReference \/ GetSimilar \/ FindByIds \/ GetComplementary
    \/ ExtractUserPreferences \/ CollaborativeFiltering \/ GetPersonalized
    \/ DeleteWare \/ AddFavorite

Spec == Init /\ [][Next]_recommendationVars

-----------------------------------------------------------------------------
CategoriesOf(results) == {ware[i].category : i \in Ids(results)}

(* An answer has as many different items as the limit and the results      *)
(* allow; with diversity it has every category that the best ones have;    *)
(* and as long as nothing changed under the request, nothing deleted, not  *)
(* the item asked about, and none of the user's favorites is in it.        *)
AnswersAreSound ==
    ask.step = "answered" =>
        /\ Cardinality(Ids(ask.answer)) = MinOf(ask.limit, Len(ask.found))
        /\ ask.diverse => CategoriesOf(Cut(ask.found, ask.limit)) \subseteq CategoriesOf(ask.answer)
        /\ ask.still =>
             /\ Ids(ask.answer) \subseteq Sellable
             /\ ask.kind = "similar" => ask.item \notin Ids(ask.answer)
             /\ ask.kind = "personalized" => Ids(ask.answer) \cap Favorites(me) = {}
=============================================================================
