------------------------------ MODULE Migrations ------------------------------
(***************************************************************************)
(* The seven migrations of PostgreSQL as what they create and drop, and    *)
(* the commands that run and revert them, each in one transaction.  An     *)
(* object is a pair <<schema, name>>; indexes, checks and comments go with *)
(* their table, except the indexes one migration adds to another's tables. *)
(***************************************************************************)
EXTENDS Naturals, Sequences, Functions

CONSTANTS
    Months,     \* months the clock may be in
    MaxReverts  \* bound on the reverts that succeed

VARIABLES
    objects,   \* what the database has
    applied,   \* the rows of the migrations table: the first so many migrations
    deployed,  \* the migrations of the release at hand
    month,     \* of the clock
    failed,    \* the last command: "no", or the command that threw
    reverts

migrationVars == <<objects, applied, deployed, month, failed, reverts>>

-----------------------------------------------------------------------------
Of(schema, names) == {schema} \X names
Schemas == {<<s, "schema">> : s \in {"shared", "avatar", "catalog", "design", "audit"}}
touch == <<"public", "update_updated_at_column()">>

(* CREATE TABLE, TYPE, VIEW or TRIGGER refuses what exists; IF NOT EXISTS  *)
(* and OR REPLACE do not.                                                  *)
Creates(make, keep, drops) == [make |-> make, keep |-> keep, drops |-> drops]
Drop(object) == [object |-> object, cascade |-> FALSE]
DropCascade(object) == [object |-> object, cascade |-> TRUE]
Each(schema, names, F(_)) == [n \in DOMAIN names |-> F(<<schema, names[n]>>)]

-----------------------------------------------------------------------------
InitializeSchemas ==
    Creates({}, Schemas,
            Each("audit", <<"schema">>, DropCascade) \o Each("design", <<"schema">>, DropCascade) \o
            Each("catalog", <<"schema">>, DropCascade) \o Each("avatar", <<"schema">>, DropCascade) \o
            Each("shared", <<"schema">>, DropCascade))

CreateUsersTable ==
    Creates(Of("shared", {"users", "users touched"}), {touch},
            <<DropCascade(<<"shared", "users">>), DropCascade(touch)>>)

CreateAuditLogsTable ==
    Creates(Of("audit", {"audit_logs", "audit_logs > users"}), Of("audit", {"cleanup_old_audit_logs()"}),
            Each("audit", <<"cleanup_old_audit_logs()", "audit_logs">>, DropCascade))

CatalogTables ==
    Of("catalog", {"items", "brand_partners", "items > brand_partners", "collections",
                   "collection_items", "collection_items > collections", "collection_items > items"})
EventTables ==
    Of("catalog", {"user_favorites", "user_favorites > items", "item_analytics",
                   "item_analytics > items", "item_analytics of the month"})
TypeTables ==
    Of("catalog", {"silhouettes", "silhouettes > items", "fabrics", "fabrics > items",
                   "patterns", "patterns > items", "elements", "elements > items"})
CatalogTriggers == Of("catalog", {"items touched", "brand_partners touched", "collections touched"})
CreateCatalogTables ==
    Creates(CatalogTables \cup EventTables \cup TypeTables \cup CatalogTriggers, {touch},
            Each("catalog", <<"elements", "patterns", "fabrics", "silhouettes", "item_analytics",
                              "user_favorites", "collection_items", "collections", "items",
                              "brand_partners">>, DropCascade) \o <<DropCascade(touch)>>)

DesignCore ==
    Of("design", {"designs", "designs > users", "designs > designs", "layers", "layers > designs",
                  "canvas_settings", "canvas_settings > designs"})
DesignRecords ==
    Of("design", {"versions", "versions > designs", "versions > users", "history",
                  "history > designs", "history > users", "history of the month", "collaborators",
                  "collaborators > designs", "collaborators > users", "exports",
                  "exports > designs", "exports > users"})
DesignTriggers == Of("design", {"designs touched", "layers touched", "canvas_settings touched"})
CreateDesignTables ==
    Creates(DesignCore \cup DesignRecords \cup DesignTriggers, {touch},
            Each("design", <<"designs touched", "layers touched", "canvas_settings touched">>, Drop) \o
            <<Drop(touch)>> \o
            Each("design", <<"exports", "collaborators", "history", "versions", "canvas_settings",
                             "layers", "designs">>, DropCascade))

AvatarTypes ==
    <<"job_status_enum", "job_type_enum", "photo_status_enum", "photo_type_enum",
      "measurement_source_enum", "measurement_unit_enum", "gender_enum", "body_type_enum",
      "avatar_source_enum", "avatar_status_enum">>
AvatarTables ==
    Of("avatar", {"avatars", "measurements", "measurements > avatars", "photos", "photos > avatars",
                  "processing_jobs", "processing_jobs > avatars"})
CreateAvatarTables ==
    Creates(Of("avatar", Range(AvatarTypes)) \cup AvatarTables, {<<"avatar", "schema">>},
            Each("avatar", <<"processing_jobs", "photos", "measurements", "avatars">> \o AvatarTypes, Drop) \o
            <<DropCascade(<<"avatar", "schema">>)>>)

MaterializedViews == <<"trending_items", "daily_item_stats", "popular_items">>
AddedIndexes ==
    <<"idx_items_active_category", "idx_items_created_at", "idx_analytics_created_item",
      "idx_analytics_item_created", "idx_favorites_user_created",
      "idx_collection_items_collection_order", "idx_items_brand_category_active",
      "idx_items_category_subcategory_active">>
(* Mutant: the first index the migration adds is forgotten.                *)
DroppedButOne ==
    Each("catalog", <<"refresh_materialized_views()">> \o MaterializedViews \o Tail(AddedIndexes), Drop)

DroppedWithViews ==
    Each("catalog", <<"refresh_materialized_views()">> \o MaterializedViews \o AddedIndexes, Drop)
CreateCatalogMaterializedViews ==
    Creates(Of("catalog", Range(MaterializedViews)),
            Of("catalog", {"refresh_materialized_views()"} \cup Range(AddedIndexes)), DroppedWithViews)

Migration ==
    <<InitializeSchemas, CreateUsersTable, CreateAuditLogsTable, CreateCatalogTables,
      CreateDesignTables, CreateAvatarTables, CreateCatalogMaterializedViews>>

-----------------------------------------------------------------------------
(* What an object is a part of falls with it; what it merely uses stands   *)
(* in the way of a drop without CASCADE, and takes it along with CASCADE.  *)
TableOf ==
    [t \in {"items", "item_analytics", "user_favorites", "collection_items"} |->
        CASE t = "items" -> {"idx_items_active_category", "idx_items_created_at",
                             "idx_items_brand_category_active", "idx_items_category_subcategory_active"}
          [] t = "item_analytics" -> {"idx_analytics_created_item", "idx_analytics_item_created",
                                      "item_analytics of the month"}
          [] t = "user_favorites" -> {"idx_favorites_user_created"}
          [] OTHER -> {"idx_collection_items_collection_order"}]
TouchedTables == {<<"shared", "users">>} \cup Of("catalog", {"items", "brand_partners", "collections"}) \cup
                 Of("design", {"designs", "layers", "canvas_settings"})
References ==
    [target \in {"users", "designs", "items", "collections", "brand_partners", "avatars"} |->
        CASE target = "users" -> {"audit_logs", "designs", "versions", "history", "collaborators", "exports"}
          [] target = "designs" -> {"designs", "layers", "canvas_settings", "versions", "history",
                                    "collaborators", "exports"}
          [] target = "items" -> {"collection_items", "user_favorites", "item_analytics", "silhouettes",
                                  "fabrics", "patterns", "elements"}
          [] target = "collections" -> {"collection_items"}
          [] target = "brand_partners" -> {"items"}
          [] target = "avatars" -> {"measurements", "photos", "processing_jobs"}]

All == UNION {Migration[k].make \cup Migration[k].keep : k \in DOMAIN Migration}
PartOf(p, o) ==
    /\ p[1] = o[1] /\ p # o
    /\ \/ p[2] \in {o[2] \o " touched", o[2] \o " of the month"}
       \/ o[2] \in DOMAIN TableOf /\ p[2] \in TableOf[o[2]]
       \/ \E t \in DOMAIN References : p[2] = o[2] \o " > " \o t
Uses(p, o) ==
    \/ o[2] = "schema" /\ p[1] = o[1] /\ p # o
    \/ o = touch /\ p \in {<<t[1], t[2] \o " touched">> : t \in TouchedTables}
    \/ o[2] \in DOMAIN References /\ p[2] \in {t \o " > " \o o[2] : t \in References[o[2]]}
    \/ /\ p \in Of("catalog", Range(MaterializedViews))
       /\ o \in Of("catalog", {"items", "item_analytics"}) \/ <<p[2], o[2]>> = <<"daily_item_stats", "brand_partners">>
    \/ o \in Of("avatar", Range(AvatarTypes)) /\ p \in AvatarTables

Parts == [o \in All |-> {p \in All : PartOf(p, o)}]
Users == [o \in All |-> {p \in All : Uses(p, o)}]

(* Nothing is a part of a part, and views are used by nothing.             *)
Falls ==
    [o \in All |->
        LET beside == Parts[o] \cup Users[o]
        IN  {o} \cup beside \cup UNION {Parts[p] \cup Users[p] : p \in beside}]

(* A down is a sequence of statements, all of them IF EXISTS: what the     *)
(* first n have dropped, and whether one was refused.                      *)
Gone(drops, n) ==
    UNION {IF drops[i].cascade THEN Falls[drops[i].object]
           ELSE {drops[i].object} \cup Parts[drops[i].object] : i \in 1..n}
Refused(drops) ==
    \E i \in {n \in DOMAIN drops : ~drops[n].cascade /\ drops[n].object \in objects} :
        /\ drops[i].object \notin Gone(drops, i - 1)
        /\ (Users[drops[i].object] \cap objects) \ Gone(drops, i - 1) # {}

-----------------------------------------------------------------------------
TypeOK ==
    /\ objects \subseteq All
    /\ applied \in 0..deployed /\ deployed \in 0..Len(Migration) /\ month \in Months
    /\ failed \in {"no", "run", "revert"}

Init ==
    /\ objects = {} /\ applied = 0 /\ deployed = 0
    /\ month \in Months /\ failed = "no" /\ reverts = 0

Release ==
    /\ deployed < Len(Migration) /\ \E d \in deployed + 1..Len(Migration) : deployed' = d
    /\ UNCHANGED <<objects, applied, month, failed, reverts>>

NextMonth ==
    /\ month' \in Months \ {month}
    /\ UNCHANGED <<objects, applied, deployed, failed, reverts>>

(* The partition of item_analytics ends in month + 1, and there is no 13.  *)
Works(k) == Migration[k].make \cap objects = {} /\ (k = 4 => month # 12)

(* migration:run: all pending ones, or none.                               *)
MigrationRun ==
    /\ applied < deployed
    /\ IF \A k \in applied + 1..deployed : Works(k)
       THEN /\ objects' = objects \cup
                  UNION {Migration[k].make \cup Migration[k].keep : k \in applied + 1..deployed}
            /\ applied' = deployed /\ failed' = "no"
       ELSE failed' = "run" /\ UNCHANGED <<objects, applied>>
    /\ UNCHANGED <<deployed, month, reverts>>

(* migration:revert: the last one.                                         *)
MigrationRevert ==
    /\ applied > 0 /\ reverts < MaxReverts
    /\ LET drops == Migration[applied].drops IN
         IF Refused(drops) THEN failed' = "revert" /\ UNCHANGED <<objects, applied, reverts>>
         ELSE /\ objects' = objects \ Gone(drops, Len(drops))
              /\ applied' = applied - 1 /\ failed' = "no" /\ reverts' = reverts + 1
    /\ UNCHANGED <<deployed, month>>

Next == Release \/ NextMonth \/ MigrationRun \/ MigrationRevert

Spec == Init /\ [][Next]_migrationVars

-----------------------------------------------------------------------------
(* However migrations are run, reverted and run again, the database has    *)
(* what the applied ones create and nothing besides.  Two objects may be   *)
(* missing: the trigger of users, which goes with the function that the    *)
(* catalog's revert drops, and the schema that the avatar's revert drops.  *)
(* A run throws only before the catalog's tables are there, which cannot   *)
(* be created in December; a revert only of the design's tables.           *)
Made(k) == UNION {Migration[i].make \cup Migration[i].keep : i \in 1..k}
RevertsAreClean ==
    /\ objects \subseteq Made(applied)
    /\ Made(applied) \ objects \subseteq {<<"shared", "users touched">>, <<"avatar", "schema">>, touch}
    /\ (failed = "run" => applied < 4) /\ (failed = "revert" => applied = 5)
=============================================================================
