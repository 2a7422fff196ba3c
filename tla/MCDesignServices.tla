--------------------------- MODULE MCDesignServices ---------------------------
(***************************************************************************)
(* Three components around a design that share no state: the row with its  *)
(* cache, the creation of designs and their snapshots, and the rendering.  *)
(* Each behaviour exercises one of them, named by part, and the others     *)
(* rest.                                                                   *)
(***************************************************************************)
EXTENDS Integers, FiniteSets, TLC

CONSTANTS
    Requests, Users, RoleOf, MaxRevision, MaxCalls, Born,
    Designs, Owners, Callers, Limits, Formats, MaxExported, MaxFailures,
    Pieces, RenderJobs, MaxAttempts, MaxGlitches, MaxLayerEdits,
    olga, eddie

VARIABLES
    design, layerRev, canvasRev, cache, missed, req, overlap, calls,
    row, canvas, versions, layered, exported, caller, failures,
    look, edits, rjob, scene, rpc, glitches,
    part  \* the component a behaviour exercises

Life == INSTANCE DesignLifecycle
Creation == INSTANCE DesignCreation
Render == INSTANCE Rendering

lifeVars == <<design, layerRev, canvasRev, cache, missed, req, overlap, calls>>
creationVars == <<row, canvas, versions, layered, exported, caller, failures>>
renderVars == <<look, edits, rjob, scene, rpc, glitches>>
vars == <<lifeVars, creationVars, renderVars, part>>

-----------------------------------------------------------------------------
Roles == (olga :> "owner") @@ (eddie :> "editor")
FreeTier == [u \in Owners |->
               [maxDesigns |-> 1, maxExportsPerDay |-> 1, allowedExportFormats |-> {"image"}]]

Interchangeable ==
    Permutations(Requests) \cup Permutations(Designs) \cup Permutations(Callers)

ASSUME RolesAssumption == RoleOf \in [Users -> {"none", "viewer", "commenter", "editor", "owner"}]
ASSUME LimitsAssumption ==
    /\ Limits \in [Owners -> [maxDesigns : Nat \cup {-1}, maxExportsPerDay : Nat \cup {-1},
                              allowedExportFormats : SUBSET Formats]]
    /\ {MaxCalls, MaxExported, MaxFailures, MaxGlitches, MaxLayerEdits} \subseteq Nat
    /\ MaxRevision \in Nat \ {0} /\ MaxAttempts \in Nat \ {0}
ASSUME BornAssumption == Born \subseteq Life!Visibilities
ASSUME FiniteAssumption == IsFiniteSet(Callers) /\ IsFiniteSet(Designs) /\ IsFiniteSet(Pieces)
ASSUME NamesAssumption == Callers # {} /\ Creation!None \notin Designs

-----------------------------------------------------------------------------
Init ==
    /\ Life!Init /\ Creation!Init /\ Render!Init
    /\ part \in {"life", "creation", "render"}
    /\ part # "render" => \A p \in Pieces : look[p] = [order |-> 0, visible |-> TRUE]

OnLife(A) == part = "life" /\ A
    /\ UNCHANGED <<creationVars, renderVars, part>>
OnCreation(A) == part = "creation" /\ A
    /\ UNCHANGED <<lifeVars, renderVars, part>>
OnRender(A) == part = "render" /\ A
    /\ UNCHANGED <<lifeVars, creationVars, part>>

Next ==
    \/ \E r \in Requests :
        \/ OnLife(Life!Start(r)) \/ OnLife(Life!VerifyAccess(r)) \/ OnLife(Life!FindOriginal(r)) \/ OnLife(Life!GetCached(r))
        \/ OnLife(Life!FindDesign(r)) \/ OnLife(Life!GetVerify(r)) \/ OnLife(Life!StoreDesign(r))
        \/ OnLife(Life!StoreLayers(r)) \/ OnLife(Life!StateCached(r)) \/ OnLife(Life!StateLayers(r))
        \/ OnLife(Life!StateStore(r)) \/ OnLife(Life!LayersCached(r)) \/ OnLife(Life!CanvasCached(r))
        \/ OnLife(Life!ValidateDesignCompleteness(r)) \/ OnLife(Life!UpdateDesign(r))
        \/ OnLife(Life!PublishDesign(r)) \/ OnLife(Life!UnpublishDesign(r))
        \/ OnLife(Life!ArchiveDesign(r)) \/ OnLife(Life!DeleteDesign(r))
        \/ OnLife(Life!IncrementViewCount(r)) \/ OnLife(Life!Reread(r)) \/ OnLife(Life!ChangeLayers(r))
        \/ OnLife(Life!UpdateCanvasSettings(r)) \/ OnLife(Life!Invalidate(r))
        \/ OnLife(Life!Refill(r)) \/ OnLife(Life!Answer(r))
        \/ OnLife(Life!ForkDesign(r)) \/ OnLife(Life!CommitFork(r)) \/ OnLife(Life!CallFails(r))
    \/ OnLife(Life!Expire)
    \/ \E c \in Callers :
        \/ OnCreation(Creation!ValidateDesignCreation(c)) \/ OnCreation(Creation!FindOriginal(c))
        \/ OnCreation(Creation!InsertDesign(c)) \/ OnCreation(Creation!CloneLayers(c))
        \/ OnCreation(Creation!InsertCanvas(c)) \/ OnCreation(Creation!InsertVersion(c))
        \/ OnCreation(Creation!IncrementForkCount(c)) \/ OnCreation(Creation!QueryFails(c))
        \/ OnCreation(Creation!AddLayer(c)) \/ OnCreation(Creation!ValidateExportCreation(c))
        \/ OnCreation(Creation!InsertExport(c)) \/ OnCreation(Creation!CreateSnapshot(c))
        \/ OnCreation(Creation!SnapshotRefused(c)) \/ OnCreation(Creation!RestoreVersion(c))
        \/ OnCreation(Creation!RestoreRefused(c))
    \/ OnCreation(Creation!Midnight)
    \/ OnRender(Render!EditLayer)
    \/ \E j \in RenderJobs :
        \/ OnRender(Render!RenderDesign(j)) \/ OnRender(Render!CancelRenderJob(j))
        \/ OnRender(Render!TakeJob(j)) \/ OnRender(Render!SetupScene(j))
        \/ OnRender(Render!LoadAvatar(j)) \/ OnRender(Render!LoadLayers(j))
        \/ OnRender(Render!Encode(j)) \/ OnRender(Render!RenderRejects(j))
        \/ OnRender(Render!CreateFallbackImage(j)) \/ OnRender(Render!Complete(j))
        \/ OnRender(Render!AttemptFails(j))

Spec == Init /\ [][Next]_vars

-----------------------------------------------------------------------------
(* The state of the component that moves is well typed.                    *)
TypeOK ==
    CASE part = "life" -> Life!TypeOK [] part = "creation" -> Creation!TypeOK
      [] part = "render" -> Render!TypeOK

(* The components' own properties, stated and explained in their modules:  *)
(* of the row and its cache,                                               *)
ServedOnlyIfOpen == Life!ServedOnlyIfOpen
CacheFreshAlone == Life!CacheFreshAlone

(* of creation, forks, layers and exports under the tier's limits,         *)
QuotaOvershoot == Creation!QuotaOvershoot /\ Creation!BrokenAreFailures
ForksCounted == Creation!ForksCounted

(* and of rendering.                                                       *)
SceneIsWhatWasQueued == Render!SceneIsWhatWasQueued
SceneReleased == Render!SceneReleased
=============================================================================
