------------------------------ MODULE Collections ------------------------------
(***************************************************************************)
(* collection.service.ts: collections and the items listed in them, behind *)
(* the service's in-memory cache of single collections, of the featured    *)
(* ones and of the pages of the list.  Calls interleave at their awaits.   *)
(***************************************************************************)
EXTENDS Naturals, FiniteSets, FiniteSetsExt

CONSTANTS
    Colls,        \* ids of collections
    Items,        \* ids of catalog items
    Names,
    Limits,       \* lengths of the featured list that are asked for
    CollCalls,    \* calls that may be in flight at once
    MaxCollTaken  \* bound on the calls that come in

VARIABLES
    coll,       \* rows: name, featured, soft deletion
    member,     \* rows of collection_items: collection, item, order
    stock,      \* stock[i]: how often the item, or its brand partner, was written
    shelf,      \* shelf[key]: the cached value, if any
    ccall,      \* ccall[c]: the call c is in
    together,   \* calls have overlapped
    placed,     \* a client has given an order index
    ctaken

collVars == <<coll, member, stock, shelf, ccall, together, placed, ctaken>>

-----------------------------------------------------------------------------
Collection == [name : Names, featured : BOOLEAN, deleted : BOOLEAN]
CollectionItem == [coll : Colls, item : Items, order : 0..MaxCollTaken + Cardinality(Items)]
Keys == Colls \cup {"featured", "list"}
Idle == [op |-> "none", step |-> "idle", coll |-> "none", row |-> {}, dto |-> {}, item |-> {},
         order |-> {}]

Open == {k \in DOMAIN coll : ~coll[k].deleted}
In(k) == {m \in member : m.coll = k}

(* A collection with its items, and with each item and its brand partner as *)
(* of s.                                                                   *)
AsOf(k, s) ==
    [row |-> coll[k], items |-> In(k), nested |-> {<<m.item, s[m.item]>> : m \in In(k)}]

(* What a read of the database gives for a cache key.  The featured ones   *)
(* are as many as were asked for; which are the newest is left open.       *)
findByIdWithItems(k) == AsOf(k, stock)
AllFeatured == {<<k, coll[k]>> : k \in {x \in Open : coll[x].featured}}
findFeatured(limit) ==
    {rows \in SUBSET AllFeatured :
        Cardinality(rows) = IF Cardinality(AllFeatured) < limit THEN Cardinality(AllFeatured) ELSE limit}
findPublic == {<<k, coll[k]>> : k \in Open}

TypeOK ==
    /\ DOMAIN coll \subseteq Colls /\ \A k \in DOMAIN coll : coll[k] \in Collection
    /\ member \subseteq CollectionItem /\ \A m \in member : m.coll \in DOMAIN coll
    /\ stock \in [Items -> 0..MaxCollTaken]
    /\ DOMAIN shelf = Keys /\ \A k \in Keys : Cardinality(shelf[k]) <= 1
    /\ \A c \in CollCalls : ccall[c].row \subseteq Collection
    /\ together \in BOOLEAN /\ placed \in BOOLEAN /\ ctaken \in 0..MaxCollTaken

(* One collection is there from before; its items were added one by one.   *)
Init ==
    /\ \E k \in Colls, place \in [Items -> 1..Cardinality(Items)] :
         /\ coll \in [{k} -> {r \in Collection : ~r.deleted}]
         /\ \A i, j \in Items : place[i] = place[j] => i = j
         /\ member = {[coll |-> k, item |-> i, order |-> place[i]] : i \in Items}
    /\ stock = [i \in Items |-> 0] /\ shelf = [k \in Keys |-> {}]
    /\ ccall = [c \in CollCalls |-> Idle]
    /\ together = FALSE /\ placed = FALSE /\ ctaken = 0

At(c, op, step) == ccall[c].op = op /\ ccall[c].step = step
Goto(c, step) == ccall' = [ccall EXCEPT ![c].step = step]
Leave(c) == ccall' = [ccall EXCEPT ![c] = Idle]
Drop(keys) == shelf' = [k \in Keys |-> IF k \in keys THEN {} ELSE shelf[k]]
Featured(rows) == IF \E r \in rows : r.featured THEN {"featured"} ELSE {}
Quiet == UNCHANGED <<stock, together, placed, ctaken>>

-----------------------------------------------------------------------------
(* A call comes in; getFromCache is synchronous and may answer at once.    *)
Take(c) ==
    /\ ccall[c].step = "idle" /\ ctaken < MaxCollTaken
    /\ ctaken' = ctaken + 1
    /\ together' = (together \/ \E d \in CollCalls : ccall[d].step # "idle")
    /\ \/ \E dto \in [name : Names, featured : BOOLEAN, deleted : {FALSE}] :
            /\ ccall' = [ccall EXCEPT ![c] = [Idle EXCEPT !.op = "create", !.step = "name", !.dto = {dto}]]
            /\ UNCHANGED placed
       \/ \E k \in DOMAIN coll : \E op \in {"update", "delete", "add", "remove", "reorder"} :
          \E dto \in IF op = "update" THEN {{d} : d \in [name : Names, featured : BOOLEAN, deleted : {FALSE}]} ELSE {{}} :
          \E i \in IF op \in {"add", "remove", "reorder"} THEN {{x} : x \in Items} ELSE {{}} :
          \E o \in CASE op = "add" -> {{}, {1}} [] op = "reorder" -> {{0}, {1}} [] OTHER -> {{}} :
            /\ ccall' = [ccall EXCEPT ![c] =
                  [Idle EXCEPT !.op = op, !.step = "verify", !.coll = k, !.dto = dto, !.item = i, !.order = o]]
            /\ placed' = (placed \/ o # {})
       \/ \E k \in Keys :
            /\ ccall' = IF shelf[k] # {} THEN ccall
                        ELSE [ccall EXCEPT ![c] = [Idle EXCEPT !.op = "read", !.step = "find", !.coll = k]]
            /\ UNCHANGED placed
    /\ UNCHANGED <<coll, member, stock, shelf>>

(* getCollection, getFeaturedCollections, listCollections: the query, and  *)
(* the answer put into the cache.                                          *)
Find(c) ==
    /\ At(c, "read", "find")
    /\ LET k == ccall[c].coll IN
         IF k = "featured" \/ k = "list" \/ k \in Open
         THEN \E limit \in Limits :
              \E found \in CASE k = "featured" -> findFeatured(limit) [] k = "list" -> {findPublic}
                             [] OTHER -> {findByIdWithItems(k)} :
                ccall' = [ccall EXCEPT ![c].step = "found", ![c].dto = {found}]
         ELSE Leave(c)
    /\ UNCHANGED <<coll, member, shelf>> /\ Quiet

PutInCache(c) ==
    /\ At(c, "read", "found")
    /\ shelf' = [shelf EXCEPT ![ccall[c].coll] = ccall[c].dto]
    /\ Leave(c)
    /\ UNCHANGED <<coll, member>> /\ Quiet

-----------------------------------------------------------------------------
(* findOne of the collection that is not deleted, or NotFound; a removal   *)
(* looks for the row of collection_items and at no collection.             *)
VerifyCollection(c) ==
    /\ ccall[c].step = "verify" /\ ccall[c].op # "remove"
    /\ LET k == ccall[c].coll
           next == CASE ccall[c].op = "update" ->
                            IF \E d \in ccall[c].dto : d.name # coll[k].name THEN "name" ELSE "save"
                     [] ccall[c].op = "add" -> "exists"
                     [] OTHER -> "save"
       IN IF k \in Open THEN ccall' = [ccall EXCEPT ![c].step = next, ![c].row = {coll[k]}] ELSE Leave(c)
    /\ UNCHANGED <<coll, member, shelf>> /\ Quiet

(* No other collection of the name, or Conflict.                           *)
CheckName(c) ==
    /\ ccall[c].step = "name"
    /\ IF \E k \in Open, d \in ccall[c].dto : coll[k].name = d.name THEN Leave(c) ELSE Goto(c, "save")
    /\ UNCHANGED <<coll, member, shelf>> /\ Quiet

CreateCollection(c) ==
    /\ At(c, "create", "save")
    /\ \E k \in Colls \ DOMAIN coll, d \in ccall[c].dto :
         /\ coll' = [x \in DOMAIN coll \cup {k} |-> IF x = k THEN d ELSE coll[x]]
         /\ ccall' = [ccall EXCEPT ![c].step = "clear", ![c].row = {d}]
    /\ UNCHANGED <<member, shelf>> /\ Quiet

(* save writes every column in which the row differs from existing + dto:  *)
(* a deletion in between is undone.                                        *)
UpdateCollection(c) ==
    /\ At(c, "update", "save")
    /\ \E d \in ccall[c].dto :
         /\ coll' = [coll EXCEPT ![ccall[c].coll] = d]
         /\ ccall' = [ccall EXCEPT ![c].step = "clear", ![c].row = @ \cup {d}]
    /\ UNCHANGED <<member, shelf>> /\ Quiet

DeleteCollection(c) ==
    /\ At(c, "delete", "save")
    /\ coll' = [coll EXCEPT ![ccall[c].coll].deleted = TRUE]
    /\ Goto(c, "clear")
    /\ UNCHANGED <<member, shelf>> /\ Quiet

(* The catalog item is there, and not in the collection yet.               *)
CheckItem(c) ==
    /\ At(c, "add", "exists")
    /\ IF \E m \in In(ccall[c].coll) : m.item \in ccall[c].item THEN Leave(c)
       ELSE Goto(c, IF ccall[c].order = {} THEN "order" ELSE "insert")
    /\ UNCHANGED <<coll, member, shelf>> /\ Quiet

(* Mutant: the place is the number of items.                               *)
GetCount(c) ==
    /\ At(c, "add", "order")
    /\ ccall' = [ccall EXCEPT ![c].step = "insert", ![c].order = {Cardinality(In(ccall[c].coll)) + 1}]
    /\ UNCHANGED <<coll, member, shelf>> /\ Quiet

(* MAX(order_index) ?? 0, and one more.                                    *)
GetMaxOrder(c) ==
    /\ At(c, "add", "order")
    /\ ccall' = [ccall EXCEPT ![c].step = "insert",
                   ![c].order = {Max({0} \cup {m.order : m \in In(ccall[c].coll)}) + 1}]
    /\ UNCHANGED <<coll, member, shelf>> /\ Quiet

(* The INSERT, refused by UNIQUE (collection_id, catalog_item_id).         *)
AddItem(c) ==
    /\ At(c, "add", "insert")
    /\ IF \E m \in In(ccall[c].coll) : m.item \in ccall[c].item THEN Leave(c) /\ UNCHANGED member
       ELSE /\ member' = member \cup [coll : {ccall[c].coll}, item : ccall[c].item, order : ccall[c].order]
            /\ Goto(c, "clear")
    /\ UNCHANGED <<coll, shelf>> /\ Quiet

FindMember(c) ==
    /\ At(c, "remove", "verify")
    /\ IF \E m \in In(ccall[c].coll) : m.item \in ccall[c].item THEN Goto(c, "save") ELSE Leave(c)
    /\ UNCHANGED <<coll, member, shelf>> /\ Quiet

RemoveItem(c) ==
    /\ At(c, "remove", "save")
    /\ member' = {m \in member : m.coll # ccall[c].coll \/ m.item \notin ccall[c].item}
    /\ Goto(c, "clear")
    /\ UNCHANGED <<coll, shelf>> /\ Quiet

(* The items of the request are all in the collection, or BadRequest.      *)
FindMembers(c) ==
    /\ At(c, "reorder", "save")
    /\ IF \E m \in In(ccall[c].coll) : m.item \in ccall[c].item THEN Goto(c, "insert") ELSE Leave(c)
    /\ UNCHANGED <<coll, member, shelf>> /\ Quiet

ReorderItems(c) ==
    /\ At(c, "reorder", "insert")
    /\ \E o \in ccall[c].order :
         member' = {IF m.coll = ccall[c].coll /\ m.item \in ccall[c].item THEN [m EXCEPT !.order = o] ELSE m :
                      m \in member}
    /\ Goto(c, "clear")
    /\ UNCHANGED <<coll, shelf>> /\ Quiet

(* Mutant: only what the collection is by now counts.                      *)
ClearNew(c) ==
    /\ ccall[c].step = "clear"
    /\ Drop((IF ccall[c].op = "create" THEN {} ELSE {ccall[c].coll}) \cup
            (IF ccall[c].op \in {"create", "update", "delete"}
             THEN Featured(IF ccall[c].dto = {} THEN ccall[c].row ELSE ccall[c].dto) ELSE {}))
    /\ Leave(c)
    /\ UNCHANGED <<coll, member>> /\ Quiet

(* After its write a call drops what the cache holds of the collection,    *)
(* and the featured ones if it was or is one.  Pages of the list stay.     *)
ClearCaches(c) ==
    /\ ccall[c].step = "clear"
    /\ Drop((IF ccall[c].op = "create" THEN {} ELSE {ccall[c].coll}) \cup
            (IF ccall[c].op \in {"create", "update", "delete"} THEN Featured(ccall[c].row) ELSE {}))
    /\ Leave(c)
    /\ UNCHANGED <<coll, member>> /\ Quiet

ExpireShelf ==
    /\ \E k \in Keys : shelf[k] # {} /\ Drop({k})
    /\ UNCHANGED <<coll, member, ccall>> /\ Quiet

(* A catalog item or its brand partner is written: whoever does it knows   *)
(* nothing of this service's cache.                                        *)
ItemChanges ==
    /\ ctaken < MaxCollTaken /\ ctaken' = ctaken + 1
    /\ \E i \in Items : stock' = [stock EXCEPT ![i] = @ + 1]
    /\ UNCHANGED <<coll, member, shelf, ccall, together, placed>>

-----------------------------------------------------------------------------
Next ==
    \/ \E c \in CollCalls :
        \/ Take(c) \/ Find(c) \/ PutInCache(c) \/ VerifyCollection(c) \/ CheckName(c)
        \/ CreateCollection(c) \/ UpdateCollection(c) \/ DeleteCollection(c)
        \/ CheckItem(c) \/ GetMaxOrder(c) \/ AddItem(c) \/ FindMember(c) \/ RemoveItem(c)
        \/ FindMembers(c) \/ ReorderItems(c) \/ ClearCaches(c)
    \/ ExpireShelf \/ ItemChanges

Spec == Init /\ [][Next]_collVars

-----------------------------------------------------------------------------
(* Properties.                                                             *)

AllIdle == \A c \in CollCalls : ccall[c].step = "idle"

(* The items as they are, or as they were before some writes of theirs.    *)
Earlier == {s \in [Items -> 0..MaxCollTaken] : \A i \in Items : s[i] <= stock[i]}

(* Between calls that never overlapped, a cached collection is there, and  *)
(* is the one of the database with its items in their places, though each  *)
(* item in it may be as it was before; and the cached featured collections *)
(* are featured, as they are now, and as many as some caller asked for.    *)
ShelfFreshAlone ==
    ~together /\ AllIdle =>
        /\ \A k \in Colls : shelf[k] # {} =>
              k \in Open /\ \E s \in Earlier : shelf[k] = {AsOf(k, s)}
        /\ \A rows \in shelf["featured"] : \E limit \in Limits : rows \in findFeatured(limit)

(* While calls never overlapped, two open collections have two names, and  *)
(* items nobody placed by hand have each a place of their own, whatever    *)
(* was removed in between.                                                 *)
TidyAlone ==
    ~together =>
        /\ \A j, k \in Open : coll[j].name = coll[k].name => j = k
        /\ ~placed => \A m, n \in member : m.coll = n.coll /\ m.order = n.order => m = n
=============================================================================
