--------------------------- MODULE DesignLifecycle ---------------------------
(***************************************************************************)
(* One design as its readers and editors see it: the row with its layers   *)
(* and canvas settings, and the four Redis entries of cache.service.ts.    *)
(* Calls of design.service.ts, of the layer service's reader and of the    *)
(* canvas controller interleave between their awaits.  Contents are        *)
(* revisions: one for the row's fields, one for the layers, one for the    *)
(* canvas (lastEditedAt, which no decision reads, is left out).            *)
(***************************************************************************)
EXTENDS Naturals

CONSTANTS
    Requests,     \* calls that may be in flight at once
    Users,        \* users
    RoleOf,       \* RoleOf[u]: "owner" or the role in the collaborators table, or "none"
    MaxRevision,  \* bound on the revisions of row, layers and canvas together
    MaxCalls,     \* bound on the calls that come in
    Born          \* visibilities a design is created with

Roles == {"none", "viewer", "commenter", "editor", "owner"}

VARIABLES
    design,    \* the row: status, visibility, publishable content, revision
    layerRev,  \* revision of the layer rows, 0 when there are none
    canvasRev, \* revision of the canvas settings
    cache,     \* the Redis entries
    missed,    \* keys whose entry a write has left out of its DEL, until it is stored anew
    req,       \* req[r]: the call r is in
    overlap,   \* some call has run while another was in flight
    calls      \* calls that have come in

designVars == <<design, layerRev, canvasRev, cache, missed, req, overlap, calls>>

-----------------------------------------------------------------------------
Visibilities == {"private", "shared", "public"}
Reads == {"get", "state", "layers", "canvas"}
Writes == {"update", "publish", "unpublish", "archive", "delete", "view", "fork", "layer",
           "canvasUpdate"}

(* An entry is the set of what it holds: nothing, or the revisions of the  *)
(* row and of the layers that come with it (meta), of the layers, of the   *)
(* canvas, or of all of them (state).                                      *)
Keys == {"meta", "layers", "canvas", "state"}
Nothing == {}
Empty == [meta |-> Nothing, layers |-> Nothing, canvas |-> Nothing, state |-> Nothing]

Idle == [op |-> "none", step |-> "idle", who |-> "none", rev |-> 0, with |-> 0, lay |-> 0, saw |-> FALSE]

Steps == {"idle", "access", "cached", "meta", "find", "check", "store", "storeLayers",
          "stateLayers", "stateStore", "validate", "write", "reread", "clear", "refill", "commit", "served"}

(* A row; complete says whether its fields pass the check before it is     *)
(* published, rev stands for the other fields.                             *)
Design == [status : {"draft", "published", "archived"}, visibility : Visibilities,
           complete : BOOLEAN, deleted : BOOLEAN, rev : 1..MaxRevision]

TypeOK ==
    /\ design \in Design
    /\ layerRev \in 0..MaxRevision /\ canvasRev \in 1..MaxRevision
    /\ cache.meta \subseteq (1..MaxRevision) \X (0..MaxRevision) /\ cache.layers \subseteq 0..MaxRevision
    /\ cache.canvas \subseteq 1..MaxRevision
    /\ cache.state \subseteq
         (1..MaxRevision) \X (0..MaxRevision) \X (0..MaxRevision) \X (1..MaxRevision)
    /\ missed \subseteq Keys
    /\ \A r \in Requests :
         /\ req[r].op \in Reads \cup Writes \cup {"none"} /\ req[r].step \in Steps
         /\ req[r].who \in Users \cup {"none"} /\ req[r].saw \in BOOLEAN
         /\ {req[r].rev, req[r].with, req[r].lay} \subseteq 0..MaxRevision
    /\ overlap \in BOOLEAN /\ calls \in 0..MaxCalls

(* A design as createDesign leaves it, cached without layers.              *)
Init ==
    /\ design \in [status : {"draft"}, visibility : Born, complete : {TRUE},
                   deleted : {FALSE}, rev : {1}]
    /\ layerRev = 0 /\ canvasRev = 1
    /\ cache = [Empty EXCEPT !.meta = {<<1, 0>>}, !.layers = {0}]
    /\ missed = {}
    /\ req = [r \in Requests |-> Idle]
    /\ overlap = FALSE /\ calls = 0

-----------------------------------------------------------------------------
(* hasAccess of the collaborators: roles are ordered, and none is below.   *)
Rank(role) == CASE role = "viewer" -> 1 [] role = "commenter" -> 2 [] role = "editor" -> 3
                [] role = "owner" -> 4 [] OTHER -> 0

IsOwner(u) == RoleOf[u] = "owner"

(* verifyAccess.  findById is asked for rows with deletedAt null, and      *)
(* TypeORM 0.3 leaves a null out of the WHERE: a deleted row is found.     *)
Allowed(u, role, visibility) ==
    \/ IsOwner(u)
    \/ visibility = "public" /\ role = "viewer"
    \/ visibility = "shared" /\ Rank(RoleOf[u]) >= Rank(role)

RoleFor(op) ==
    CASE op \in Reads -> "viewer"
      [] op \in {"update", "layer", "canvasUpdate"} -> "editor"
      [] OTHER -> "owner"

At(r, step) == req[r].step = step
Go(r, step) == req' = [req EXCEPT ![r].step = step]
Finish(r) == req' = [req EXCEPT ![r] = Idle]
Serve(r) == req' = [req EXCEPT ![r] = [Idle EXCEPT !.step = "served", !.saw = req[r].saw]]
Same == UNCHANGED <<cache, missed>>
Writable == design.rev + layerRev + canvasRev < MaxRevision
KeepRows == UNCHANGED <<design, layerRev, canvasRev, overlap, calls>>

(* A call comes in: what it awaits first.                                  *)
Start(r) ==
    /\ At(r, "idle") /\ calls < MaxCalls
    /\ calls' = calls + 1
    /\ \E op \in Reads \cup Writes, u \in Users :
         req' = [req EXCEPT ![r] =
                   [Idle EXCEPT !.op = op, !.who = u,
                                !.step = CASE op \in {"get", "state"} -> "cached"
                                           [] op = "view" -> "write"
                                           [] OTHER -> "access",
                                !.saw = Allowed(u, RoleFor(op), design.visibility)]]
    /\ overlap' = (overlap \/ \E q \in Requests : ~At(q, "idle"))
    /\ UNCHANGED <<design, layerRev, canvasRev, cache, missed>>

(* verifyAccess as the first await of a call.                              *)
VerifyAccess(r) ==
    /\ At(r, "access") /\ req[r].op # "fork"
    /\ IF Allowed(req[r].who, RoleFor(req[r].op), design.visibility)
       THEN Go(r, CASE req[r].op \in Reads -> "cached"
                    [] req[r].op = "publish" -> "validate"
                    [] OTHER -> "write")
       ELSE Finish(r)
    /\ KeepRows /\ Same

(* forkDesign asks for a public design or one's own.                       *)
FindOriginal(r) ==
    /\ At(r, "access") /\ req[r].op = "fork"
    /\ IF design.visibility = "public" \/ IsOwner(req[r].who) THEN Go(r, "write") ELSE Finish(r)
    /\ KeepRows /\ Same

-----------------------------------------------------------------------------
(* Mutant: what is cached is served to whoever asks.                       *)
GetCachedUnchecked(r) ==
    /\ At(r, "meta") \/ (At(r, "cached") /\ req[r].op = "get")
    /\ \/ cache.meta = Nothing /\ Go(r, "find")
       \/ cache.meta # Nothing /\ Serve(r)
    /\ KeepRows /\ Same

(* getDesign: a cached copy is checked against the row's visibility too.   *)
GetCached(r) ==
    /\ At(r, "meta") \/ (At(r, "cached") /\ req[r].op = "get")
    /\ \/ cache.meta = Nothing /\ Go(r, "find")
       \/ \E n \in cache.meta : req' = [req EXCEPT ![r].step = "check", ![r].rev = n[1], ![r].with = n[2]]
    /\ KeepRows /\ Same

(* findByIdWithLayers.                                                     *)
FindDesign(r) ==
    /\ At(r, "find")
    /\ req' = [req EXCEPT ![r].step = "store", ![r].rev = design.rev,
                               ![r].with = layerRev, ![r].lay = layerRev]
    /\ KeepRows /\ Same

AfterGet(r) == IF req[r].op = "state" THEN Go(r, "stateLayers") ELSE Serve(r)

GetVerify(r) ==
    /\ At(r, "check")
    /\ IF Allowed(req[r].who, "viewer", design.visibility) THEN AfterGet(r) ELSE Finish(r)
    /\ KeepRows /\ Same

(* cacheDesign, once the access is verified, then cacheLayers.             *)
StoreDesign(r) ==
    /\ At(r, "store")
    /\ IF Allowed(req[r].who, "viewer", design.visibility)
       THEN /\ cache' = [cache EXCEPT !.meta = {<<req[r].rev, req[r].with>>}]
            /\ missed' = missed \ {"meta"}
            /\ Go(r, "storeLayers")
       ELSE Finish(r) /\ Same
    /\ KeepRows

StoreLayers(r) ==
    /\ At(r, "storeLayers")
    /\ cache' = [cache EXCEPT !.layers = {req[r].lay}] /\ missed' = missed \ {"layers"}
    /\ IF req[r].op = "layers" THEN Serve(r) ELSE AfterGet(r)
    /\ KeepRows

(* getDesignWithFullState: a cached state, or its three parts in turn.     *)
StateCached(r) ==
    /\ At(r, "cached") /\ req[r].op = "state"
    /\ IF cache.state = Nothing THEN Go(r, "meta")
       ELSE IF Allowed(req[r].who, "viewer", design.visibility) THEN Serve(r) ELSE Finish(r)
    /\ KeepRows /\ Same

StateLayers(r) ==
    /\ At(r, "stateLayers")
    /\ req' = [req EXCEPT ![r].step = "stateStore", ![r].lay = layerRev]
    /\ KeepRows /\ Same

(* A state is made of the cached design, stale as that may be.             *)
StateStore(r) ==
    /\ At(r, "stateStore")
    /\ cache' = [cache EXCEPT !.state = {<<req[r].rev, req[r].with, req[r].lay, canvasRev>>}]
    /\ missed' = IF "meta" \in missed THEN missed \cup {"state"} ELSE missed \ {"state"}
    /\ Serve(r) /\ KeepRows

(* getLayersByDesignId and getCanvasSettings, behind verifyDesignAccess.   *)
LayersCached(r) ==
    /\ At(r, "cached") /\ req[r].op = "layers"
    /\ IF cache.layers # Nothing THEN Serve(r)
       ELSE req' = [req EXCEPT ![r].step = "storeLayers", ![r].lay = layerRev]
    /\ KeepRows /\ Same

CanvasCached(r) ==
    /\ At(r, "cached") /\ req[r].op = "canvas"
    /\ IF cache.canvas # Nothing THEN Same
       ELSE cache' = [cache EXCEPT !.canvas = {canvasRev}] /\ missed' = missed \ {"canvas"}
    /\ Serve(r) /\ KeepRows

-----------------------------------------------------------------------------
(* publishDesign reads the row and its layers and refuses an incomplete or *)
(* a private design; the UPDATE comes later.                               *)
ValidateDesignCompleteness(r) ==
    /\ At(r, "validate")
    /\ IF design.complete /\ layerRev > 0 /\ design.visibility # "private"
       THEN Go(r, "write") ELSE Finish(r)
    /\ KeepRows /\ Same

(* The UPDATEs of the row.  Changing the visibility may make the design    *)
(* readable for calls in flight: saw remembers it.                         *)
SetDesign(r, row, next) ==
    /\ Writable
    /\ design' = [row EXCEPT !.rev = design.rev + 1]
    /\ req' = [q \in Requests |->
                 [req[q] EXCEPT !.step = IF q = r THEN next ELSE @,
                                !.saw = @ \/ (req[q].who \in Users /\
                                     Allowed(req[q].who, RoleFor(req[q].op), row.visibility))]]
    /\ UNCHANGED <<layerRev, canvasRev, cache, overlap, calls>>

(* The writes that clear the entries next.                                 *)
UpdateDesign(r) ==
    /\ At(r, "write") /\ req[r].op = "update"
    /\ \E v \in Visibilities, b \in BOOLEAN :
         SetDesign(r, [design EXCEPT !.visibility = v, !.complete = b], "reread")
    /\ UNCHANGED missed

PublishDesign(r) ==
    /\ At(r, "write") /\ req[r].op = "publish"
    /\ SetDesign(r, [design EXCEPT !.status = "published"], "reread") /\ UNCHANGED missed

UnpublishDesign(r) ==
    /\ At(r, "write") /\ req[r].op = "unpublish"
    /\ SetDesign(r, [design EXCEPT !.status = "draft"], "reread") /\ UNCHANGED missed

ArchiveDesign(r) ==
    /\ At(r, "write") /\ req[r].op = "archive"
    /\ SetDesign(r, [design EXCEPT !.status = "archived"], "reread") /\ UNCHANGED missed

DeleteDesign(r) ==
    /\ At(r, "write") /\ req[r].op = "delete"
    /\ SetDesign(r, [design EXCEPT !.deleted = TRUE], "clear") /\ UNCHANGED missed

IncrementViewCount(r) ==
    /\ At(r, "write") /\ req[r].op = "view"
    /\ SetDesign(r, design, "clear") /\ UNCHANGED missed

(* forkDesign counts the fork in the original's row, and clears nothing.   *)
ForkDesign(r) ==
    /\ At(r, "write") /\ req[r].op = "fork"
    /\ SetDesign(r, design, "commit") /\ missed' = missed \cup {"meta", "state"}

CommitFork(r) == At(r, "commit") /\ Finish(r) /\ KeepRows /\ Same

(* DesignRepository.update selects the row, with its layers, after its     *)
(* UPDATE.                                                                 *)
Reread(r) ==
    /\ At(r, "reread")
    /\ req' = [req EXCEPT ![r].step = "clear", ![r].rev = design.rev, ![r].with = layerRev]
    /\ KeepRows /\ Same

(* A call of the layer service changes layers, and will leave the copy of  *)
(* the design, which holds them too; the controller changes the canvas.    *)
ChangeLayers(r) ==
    /\ At(r, "write") /\ req[r].op = "layer"
    /\ Writable /\ layerRev' = layerRev + 1 /\ missed' = missed \cup {"meta"}
    /\ Go(r, "clear") /\ UNCHANGED <<design, canvasRev, cache, overlap, calls>>

UpdateCanvasSettings(r) ==
    /\ At(r, "write") /\ req[r].op = "canvasUpdate"
    /\ Writable /\ canvasRev' = canvasRev + 1
    /\ req' = [req EXCEPT ![r].step = "clear", ![r].rev = canvasRev + 1]
    /\ UNCHANGED <<design, layerRev, cache, missed, overlap, calls>>

(* invalidateDesign, invalidateLayers, invalidateCanvas: one DEL each.     *)
InvalidateDesign == Empty
InvalidateLayers == [cache EXCEPT !.layers = Nothing, !.state = Nothing]
InvalidateCanvas == [cache EXCEPT !.canvas = Nothing, !.state = Nothing]

Deleted(op) == CASE op = "layer" -> {"layers", "state"} [] op = "canvasUpdate" -> {"canvas", "state"}
                 [] OTHER -> Keys

(* Mutant: the copy of the whole state is forgotten.                       *)
InvalidatePartly(r) ==
    /\ At(r, "clear")
    /\ cache' = CASE req[r].op = "layer" -> [cache EXCEPT !.layers = Nothing]
                  [] req[r].op = "canvasUpdate" -> InvalidateCanvas
                  [] OTHER -> InvalidateDesign
    /\ missed' = missed \ Deleted(req[r].op)
    /\ IF req[r].op \in {"update", "canvasUpdate"} THEN Go(r, "refill") ELSE Finish(r)
    /\ KeepRows

Invalidate(r) ==
    /\ At(r, "clear")
    /\ cache' = CASE req[r].op = "layer" -> InvalidateLayers
                  [] req[r].op = "canvasUpdate" -> InvalidateCanvas
                  [] OTHER -> InvalidateDesign
    /\ missed' = missed \ Deleted(req[r].op)
    /\ IF req[r].op \in {"update", "canvasUpdate"} THEN Go(r, "refill") ELSE Finish(r)
    /\ KeepRows

(* updateDesign and updateCanvasSettings cache what they read back.        *)
Refill(r) ==
    /\ At(r, "refill")
    /\ \/ /\ req[r].op = "update" /\ missed' = missed \ {"meta"}
          /\ cache' = [cache EXCEPT !.meta = {<<req[r].rev, req[r].with>>}]
       \/ /\ req[r].op = "canvasUpdate" /\ missed' = missed \ {"canvas"}
          /\ cache' = [cache EXCEPT !.canvas = {req[r].rev}]
    /\ Finish(r) /\ KeepRows

(* A query or a Redis command rejects, or the process dies: the call ends  *)
(* where it is, and what it was to clear after its UPDATE stays.           *)
CallFails(r) ==
    /\ ~At(r, "idle") /\ ~At(r, "served")
    /\ Finish(r)
    /\ missed' = IF At(r, "reread") \/ At(r, "clear") THEN missed \cup Deleted(req[r].op) ELSE missed
    /\ KeepRows /\ UNCHANGED cache

(* The answer is sent; entries expire after their TTL.                     *)
Answer(r) == At(r, "served") /\ Finish(r) /\ KeepRows /\ Same

Expire ==
    /\ \E key \in DOMAIN cache :
         cache[key] # Nothing /\ cache' = [cache EXCEPT ![key] = Nothing]
    /\ UNCHANGED <<design, layerRev, canvasRev, missed, req, overlap, calls>>

-----------------------------------------------------------------------------
Next ==
    \/ \E r \in Requests :
        \/ Start(r) \/ VerifyAccess(r) \/ FindOriginal(r) \/ GetCached(r) \/ FindDesign(r) \/ GetVerify(r)
        \/ StoreDesign(r) \/ StoreLayers(r) \/ StateCached(r) \/ StateLayers(r) \/ StateStore(r)
        \/ LayersCached(r) \/ CanvasCached(r) \/ ValidateDesignCompleteness(r)
        \/ UpdateDesign(r) \/ PublishDesign(r) \/ UnpublishDesign(r) \/ ArchiveDesign(r)
        \/ DeleteDesign(r) \/ IncrementViewCount(r) \/ ForkDesign(r) \/ CommitFork(r)
        \/ Reread(r) \/ ChangeLayers(r) \/ CallFails(r)
        \/ UpdateCanvasSettings(r) \/ Invalidate(r) \/ Refill(r) \/ Answer(r)
    \/ Expire

Spec == Init /\ [][Next]_designVars

-----------------------------------------------------------------------------
(* Properties.                                                             *)

(* However stale a cached copy is, and whatever editors do meanwhile, no   *)
(* user is served a design that was closed to them throughout their call.  *)
ServedOnlyIfOpen == \A r \in Requests : At(r, "served") => req[r].saw

(* As long as calls do not overlap, a cached copy is the current one, of   *)
(* the fields, the layers, the canvas settings and the whole state, unless *)
(* some write left it out: a fork, which counts itself in the row and      *)
(* clears nothing; a layer call, which leaves the layers inside the copy   *)
(* of the design, and any state that is made of that copy; or a call that  *)
(* failed between its UPDATE and its DEL.                                  *)
CacheFreshAlone ==
    ~overlap /\ (\A r \in Requests : At(r, "idle")) =>
        /\ "meta" \in missed \/ cache.meta \subseteq {<<design.rev, layerRev>>}
        /\ "layers" \in missed \/ cache.layers \subseteq {layerRev}
        /\ "canvas" \in missed \/ cache.canvas \subseteq {canvasRev}
        /\ "state" \in missed
              \/ cache.state \subseteq {<<design.rev, layerRev, layerRev, canvasRev>>}
=============================================================================
