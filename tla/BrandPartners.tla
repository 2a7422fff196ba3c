----------------------------- MODULE BrandPartners -----------------------------
(***************************************************************************)
(* brand-partner.service.ts: partners, whose name is UNIQUE in the table,  *)
(* behind an in-memory cache of single partners, of the active ones and of *)
(* the active ones of a partnership type.  Calls interleave at their awaits.*)
(***************************************************************************)
EXTENDS Naturals, FiniteSets

CONSTANTS
    Partners,         \* ids of rows
    BrandNames,
    Types,            \* partnership types
    PartnerCalls,     \* calls that may be in flight at once
    MaxPartnerCalls   \* bound on the calls that come in

VARIABLES
    partner,   \* rows: name, type, active, soft deletion
    kept,      \* kept[key]: the cached value, if any
    pcall,     \* pcall[c]: the call c is in
    mixed,     \* calls have overlapped
    ptaken

partnerVars == <<partner, kept, pcall, mixed, ptaken>>

-----------------------------------------------------------------------------
BrandPartner == [name : BrandNames, type : Types, active : BOOLEAN, deleted : BOOLEAN]
Dto == {p \in BrandPartner : ~p.deleted}
CacheKeys == Partners \cup Types \cup {"active"}
Waiting == [op |-> "none", step |-> "idle", id |-> "none", dto |-> {}, copy |-> {}]

Standing == {p \in DOMAIN partner : ~partner[p].deleted}
findActive == {<<p, partner[p]>> : p \in {q \in Standing : partner[q].active}}
findByPartnershipType(t) == {x \in findActive : x[2].type = t}

TypeOK ==
    /\ DOMAIN partner \subseteq Partners /\ \A p \in DOMAIN partner : partner[p] \in BrandPartner
    /\ DOMAIN kept = CacheKeys /\ \A k \in CacheKeys : Cardinality(kept[k]) <= 1
    /\ \A c \in PartnerCalls : pcall[c].dto \subseteq Dto
    /\ mixed \in BOOLEAN /\ ptaken \in 0..MaxPartnerCalls

Init ==
    /\ partner = [p \in {} |-> 0]
    /\ kept = [k \in CacheKeys |-> {}]
    /\ pcall = [c \in PartnerCalls |-> Waiting]
    /\ mixed = FALSE /\ ptaken = 0

Goto(c, step) == pcall' = [pcall EXCEPT ![c].step = step]
Leave(c) == pcall' = [pcall EXCEPT ![c] = Waiting]
Steady == UNCHANGED <<mixed, ptaken>>

-----------------------------------------------------------------------------
Take(c) ==
    /\ pcall[c].step = "idle" /\ ptaken < MaxPartnerCalls
    /\ ptaken' = ptaken + 1
    /\ mixed' = (mixed \/ \E d \in PartnerCalls : pcall[d].step # "idle")
    /\ \/ \E d \in Dto :
            pcall' = [pcall EXCEPT ![c] = [Waiting EXCEPT !.op = "create", !.step = "name", !.dto = {d}]]
       \/ \E p \in DOMAIN partner, d \in Dto :
            pcall' = [pcall EXCEPT ![c] =
                        [Waiting EXCEPT !.op = "update", !.step = "verify", !.id = p, !.dto = {d}]]
       \/ \E p \in DOMAIN partner :
            pcall' = [pcall EXCEPT ![c] = [Waiting EXCEPT !.op = "delete", !.step = "verify", !.id = p]]
       \/ \E k \in CacheKeys :
            pcall' = IF kept[k] # {} THEN pcall
                     ELSE [pcall EXCEPT ![c] = [Waiting EXCEPT !.op = "read", !.step = "find", !.id = k]]
    /\ UNCHANGED <<partner, kept>>

(* getBrandPartner (with which getBrandCatalogItems begins),               *)
(* getActiveBrandPartners and getBrandPartnersByType.                      *)
Find(c) ==
    /\ pcall[c].step = "find"
    /\ LET k == pcall[c].id IN
         IF k \in Partners /\ k \notin Standing THEN Leave(c)
         ELSE pcall' = [pcall EXCEPT ![c].step = "found",
                          ![c].copy = {IF k \in Partners THEN {<<k, partner[k]>>}
                                       ELSE IF k \in Types THEN findByPartnershipType(k) ELSE findActive}]
    /\ UNCHANGED <<partner, kept>> /\ Steady

PutInCache(c) ==
    /\ pcall[c].step = "found"
    /\ kept' = [kept EXCEPT ![pcall[c].id] = pcall[c].copy]
    /\ Leave(c)
    /\ UNCHANGED partner /\ Steady

VerifyPartner(c) ==
    /\ pcall[c].step = "verify"
    /\ LET p == pcall[c].id IN
         IF p \notin Standing THEN Leave(c)
         ELSE Goto(c, IF \E d \in pcall[c].dto : d.name # partner[p].name THEN "name" ELSE "save")
    /\ UNCHANGED <<partner, kept>> /\ Steady

CheckName(c) ==
    /\ pcall[c].step = "name"
    /\ IF \E p \in Standing, d \in pcall[c].dto : partner[p].name = d.name THEN Leave(c)
       ELSE Goto(c, "save")
    /\ UNCHANGED <<partner, kept>> /\ Steady

(* UNIQUE (name) counts the soft-deleted rows too: the write is refused.   *)
Refused(id, d) == \E p \in DOMAIN partner \ {id} : partner[p].name = d.name

SavePartner(c) ==
    /\ pcall[c].step = "save" /\ pcall[c].op \in {"create", "update"}
    /\ \E d \in pcall[c].dto :
         IF Refused(pcall[c].id, d) THEN Leave(c) /\ UNCHANGED partner
         ELSE /\ Goto(c, "clear")
              /\ \E p \in IF pcall[c].op = "create" THEN Partners \ DOMAIN partner ELSE {pcall[c].id} :
                   partner' = [q \in DOMAIN partner \cup {p} |-> IF q = p THEN d ELSE partner[q]]
    /\ UNCHANGED kept /\ Steady

DeletePartner(c) ==
    /\ pcall[c].step = "save" /\ pcall[c].op = "delete"
    /\ partner' = [partner EXCEPT ![pcall[c].id].deleted = TRUE]
    /\ Goto(c, "clear")
    /\ UNCHANGED kept /\ Steady

(* The partner and the active ones are dropped; lists of a type are not.   *)
ClearCaches(c) ==
    /\ pcall[c].step = "clear"
    /\ kept' = [k \in CacheKeys |-> IF k \in {pcall[c].id, "active"} THEN {} ELSE kept[k]]
    /\ Leave(c)
    /\ UNCHANGED partner /\ Steady

ExpireKept ==
    /\ \E k \in CacheKeys : kept[k] # {} /\ kept' = [kept EXCEPT ![k] = {}]
    /\ UNCHANGED <<partner, pcall>> /\ Steady

-----------------------------------------------------------------------------
Next ==
    \/ \E c \in PartnerCalls :
        \/ Take(c) \/ Find(c) \/ PutInCache(c) \/ VerifyPartner(c) \/ CheckName(c)
        \/ SavePartner(c) \/ DeletePartner(c) \/ ClearCaches(c)
    \/ ExpireKept

Spec == Init /\ [][Next]_partnerVars

-----------------------------------------------------------------------------
(* Between calls that never overlapped, a cached partner and the cached    *)
(* active partners are those of the database.                              *)
KeptFreshAlone ==
    ~mixed /\ (\A c \in PartnerCalls : pcall[c].step = "idle") =>
        /\ \A p \in Partners : kept[p] # {} => p \in Standing /\ kept[p] = {{<<p, partner[p]>>}}
        /\ kept["active"] \subseteq {findActive}
=============================================================================
