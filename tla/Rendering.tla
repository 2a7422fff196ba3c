------------------------------ MODULE Rendering ------------------------------
(***************************************************************************)
(* Rendering a design: rendering.service.ts queues jobs with a copy of the *)
(* design's layers, render.worker.ts runs them, and the helper under it    *)
(* builds a scene of lights, an avatar and the visible layers and releases *)
(* it.  Nothing draws that scene: the worker asks for a placeholder, whose *)
(* quality sharp refuses, so that the picture of every job is the worker's *)
(* fallback, and uploadRender leaves even that aside.  Nothing ever calls  *)
(* cacheRender, so a look-up of a cached render finds nothing.             *)
(***************************************************************************)
EXTENDS Naturals, Sequences, FiniteSets

CONSTANTS
    Pieces,      \* layers of the design
    RenderJobs,  \* jobs, one for each request
    MaxAttempts, \* attempts of a job
    MaxGlitches, \* bound on operations that reject
    MaxLayerEdits     \* bound on changes of the layers

VARIABLES
    look,     \* look[p]: order index and visibility of the layer rows
    edits,
    rjob,     \* rjob[j]: the queue's entry
    scene,    \* scene[j]: what the helper of a running job has in its scene
    rpc,      \* rpc[j]: the await of the worker
    glitches

renderVars == <<look, edits, rjob, scene, rpc, glitches>>

-----------------------------------------------------------------------------
NoScene == [lights |-> {}, objects |-> <<>>]
NoJob == [state |-> "none", layers |-> {}, config |-> "none", tries |-> 0, estimate |-> 0]

(* The presets' qualities, as far as anything depends on them.  The sizes  *)
(* of a preset are lost: the controller always passes a width, undefined   *)
(* when the body has none, and the spread of it overrides the preset's.    *)
Presets == {"thumbnail", "preview", "highres"}
Quality(preset) == CASE preset = "thumbnail" -> "medium" [] preset = "preview" -> "high"
                     [] OTHER -> "ultra"

(* What setupLighting adds for each preset: key, fill, back, ambient and   *)
(* so on; the worker's canvas settings name one, or none for studio.       *)
StudioLighting == {"key", "fill", "back", "ambient"}
OutdoorLighting == {"sun", "sky", "ground"}
SoftLighting == {"soft1", "soft2", "soft3", "soft4", "ambient"}
DramaticLighting == {"spot", "rim", "ambient"}
Lighting == {StudioLighting, OutdoorLighting, SoftLighting, DramaticLighting}

TypeOK ==
    /\ look \in [Pieces -> [order : 0..Cardinality(Pieces), visible : BOOLEAN]]
    /\ edits \in 0..MaxLayerEdits
    /\ \A j \in RenderJobs :
         /\ rjob[j].state \in {"none", "waiting", "active", "completed", "failed", "removed"}
         /\ rjob[j].tries \in 0..MaxAttempts
         /\ rpc[j] \in {"idle", "start", "avatar", "layers", "encode", "fallback", "upload"}
         /\ scene[j].lights \in Lighting \cup {{}}
    /\ glitches \in 0..MaxGlitches

Init ==
    /\ look \in [Pieces -> [order : 0..Cardinality(Pieces)-1, visible : BOOLEAN]]
    /\ edits = 0
    /\ rjob = [j \in RenderJobs |-> NoJob]
    /\ scene = [j \in RenderJobs |-> NoScene]
    /\ rpc = [j \in RenderJobs |-> "idle"]
    /\ glitches = 0

-----------------------------------------------------------------------------
(* estimateRenderTime: 5 seconds and 2 for each layer, twice that when     *)
(* wider than 2048, half as much again when ultra, rounded up.             *)
EstimateRenderTime(layers, preset, wide) ==
    LET base == (5 + 2 * Cardinality(layers)) * (IF wide THEN 2 ELSE 1) IN
    IF Quality(preset) = "ultra" THEN (3 * base + 1) \div 2 ELSE base

(* renderDesign: no cached render, so queueRenderJob reads the layers and  *)
(* adds a job with a copy of them.  The body may ask for a wide picture.   *)
RenderDesign(j) ==
    /\ rjob[j].state = "none"
    /\ \E preset \in Presets, wide \in BOOLEAN :
         LET layers == {[piece |-> p, order |-> look[p].order, visible |-> look[p].visible] : p \in Pieces} IN
         rjob' = [rjob EXCEPT ![j] = [NoJob EXCEPT !.state = "waiting", !.layers = layers,
                                         !.config = preset,
                                         !.estimate = EstimateRenderTime(layers, preset, wide)]]
    /\ UNCHANGED <<look, edits, scene, rpc, glitches>>

(* The layer service changes a layer.                                      *)
EditLayer ==
    /\ edits < MaxLayerEdits
    /\ edits' = edits + 1
    /\ \E p \in Pieces, o \in 0..Cardinality(Pieces), v \in BOOLEAN :
         look' = [look EXCEPT ![p] = [order |-> o, visible |-> v]]
    /\ UNCHANGED <<rjob, scene, rpc, glitches>>

(* cancelRenderJob: a waiting job is removed; an active one is locked, and *)
(* the removal rejects.                                                    *)
CancelRenderJob(j) ==
    /\ rjob[j].state = "waiting"
    /\ rjob' = [rjob EXCEPT ![j].state = "removed"]
    /\ UNCHANGED <<look, edits, scene, rpc, glitches>>

(* What getRenderJobStatus answers.                                        *)
RenderJobStatus(j) ==
    CASE rjob[j].state \in {"none", "removed"} -> "not found"
      [] rjob[j].state = "completed" -> "completed"
      [] OTHER -> rjob[j].state

-----------------------------------------------------------------------------
(* handleRenderJob: progress 10 and 20, then a helper with its scene.      *)
TakeJob(j) ==
    /\ rjob[j].state = "waiting"
    /\ rjob' = [rjob EXCEPT ![j].state = "active", ![j].tries = @ + 1]
    /\ rpc' = [rpc EXCEPT ![j] = "start"]
    /\ UNCHANGED <<look, edits, scene, glitches>>

(* setupScene, setupCamera and setupLighting, which clears lights first.   *)
SetupScene(j) ==
    /\ rpc[j] = "start"
    /\ \E lights \in Lighting : scene' = [scene EXCEPT ![j] = [NoScene EXCEPT !.lights = lights]]
    /\ rpc' = [rpc EXCEPT ![j] = "avatar"]
    /\ UNCHANGED <<look, edits, rjob, glitches>>

(* loadAvatar adds the model or, when loading rejects, a placeholder.      *)
LoadAvatar(j) ==
    /\ rpc[j] = "avatar"
    /\ scene' = [scene EXCEPT ![j].objects = Append(@, "avatar")]
    /\ rpc' = [rpc EXCEPT ![j] = "layers"]
    /\ UNCHANGED <<look, edits, rjob, glitches>>

(* loadLayers: the visible layers by ascending order index, stable for     *)
(* equal ones, which the query returned in any order.                      *)
Orderings(layers) ==
    {s \in [1..Cardinality(layers) -> layers] :
        /\ \A a, b \in DOMAIN s : a < b => s[a] # s[b] /\ s[a].order <= s[b].order}

(* Mutant: hidden layers too.                                              *)
LoadAllLayers(j) ==
    /\ rpc[j] = "layers"
    /\ \E s \in Orderings(rjob[j].layers) :
         scene' = [scene EXCEPT ![j].objects = @ \o [i \in DOMAIN s |-> s[i].piece]]
    /\ rpc' = [rpc EXCEPT ![j] = "encode"]
    /\ UNCHANGED <<look, edits, rjob, glitches>>

LoadLayers(j) ==
    /\ rpc[j] = "layers"
    /\ \E s \in Orderings({l \in rjob[j].layers : l.visible}) :
         scene' = [scene EXCEPT ![j].objects = @ \o [i \in DOMAIN s |-> s[i].piece]]
    /\ rpc' = [rpc EXCEPT ![j] = "encode"]
    /\ UNCHANGED <<look, edits, rjob, glitches>>

(* sharp takes a number for the quality of a png, jpeg or webp, and throws *)
(* for anything else.                                                      *)
SharpTakes(quality) == quality \notin {"medium", "high", "ultra"}

(* createPlaceholderRender draws a fixed picture, without the scene, and   *)
(* hands the preset's word for its quality on to sharp.                    *)
CreatePlaceholderRender(j) == SharpTakes(Quality(rjob[j].config))

Dispose(j) == scene' = [scene EXCEPT ![j] = NoScene]

(* The helper asks for the placeholder.  When it rejects, the helper's     *)
(* catch asks once more with the same quality, so that rejects too and the *)
(* worker's catch has it.  The worker disposes either way.                 *)
Encode(j) ==
    /\ rpc[j] = "encode"
    /\ Dispose(j)
    /\ rpc' = [rpc EXCEPT ![j] = IF CreatePlaceholderRender(j) THEN "upload" ELSE "fallback"]
    /\ UNCHANGED <<look, edits, rjob, glitches>>

(* Mutant: the catch of the worker's renderDesign does not dispose.        *)
RenderRejectsLeaking(j) ==
    /\ rpc[j] \in {"start", "avatar", "layers", "encode"} /\ glitches < MaxGlitches
    /\ glitches' = glitches + 1
    /\ rpc' = [rpc EXCEPT ![j] = "fallback"]
    /\ UNCHANGED <<look, edits, rjob, scene>>

(* Something before that rejects, a report of progress or a step of the    *)
(* helper, whose catch then fails as above: dispose, and the fallback.     *)
RenderRejects(j) ==
    /\ rpc[j] \in {"start", "avatar", "layers", "encode"} /\ glitches < MaxGlitches
    /\ glitches' = glitches + 1
    /\ Dispose(j)
    /\ rpc' = [rpc EXCEPT ![j] = "fallback"]
    /\ UNCHANGED <<look, edits, rjob>>

CreateFallbackImage(j) ==
    /\ rpc[j] = "fallback"
    /\ rpc' = [rpc EXCEPT ![j] = "upload"]
    /\ UNCHANGED <<look, edits, rjob, scene, glitches>>

(* uploadRender, progress 100, and the job's return value.                 *)
Complete(j) ==
    /\ rpc[j] = "upload"
    /\ rjob' = [rjob EXCEPT ![j].state = "completed"]
    /\ rpc' = [rpc EXCEPT ![j] = "idle"]
    /\ UNCHANGED <<look, edits, scene, glitches>>

(* Mutant: the attempts are counted from zero.                             *)
AttemptOnceMore(j) ==
    /\ rpc[j] \in {"start", "fallback", "upload"} /\ glitches < MaxGlitches
    /\ glitches' = glitches + 1
    /\ rjob' = [rjob EXCEPT ![j].state = IF rjob[j].tries <= MaxAttempts THEN "waiting" ELSE "failed"]
    /\ rpc' = [rpc EXCEPT ![j] = "idle"]
    /\ UNCHANGED <<look, edits, scene>>

(* Outside renderDesign a rejection fails the attempt; Bull tries again    *)
(* after its back-off until the attempts are spent.                        *)
AttemptFails(j) ==
    /\ rpc[j] \in {"start", "fallback", "upload"} /\ glitches < MaxGlitches
    /\ glitches' = glitches + 1
    /\ rjob' = [rjob EXCEPT ![j].state = IF rjob[j].tries < MaxAttempts THEN "waiting" ELSE "failed"]
    /\ rpc' = [rpc EXCEPT ![j] = "idle"]
    /\ UNCHANGED <<look, edits, scene>>

-----------------------------------------------------------------------------
Next ==
    \/ EditLayer
    \/ \E j \in RenderJobs :
        \/ RenderDesign(j) \/ CancelRenderJob(j) \/ TakeJob(j) \/ SetupScene(j) \/ LoadAvatar(j)
        \/ LoadLayers(j) \/ Encode(j) \/ RenderRejects(j) \/ CreateFallbackImage(j)
        \/ Complete(j) \/ AttemptFails(j)

Spec == Init /\ [][Next]_renderVars

-----------------------------------------------------------------------------
(* Properties.                                                             *)

(* When a worker is about to draw, its scene holds the avatar and then the *)
(* layers that were visible when the job was queued, by their indexes of   *)
(* then, whatever users changed since and however often it was tried.      *)
SceneIsWhatWasQueued ==
    \A j \in RenderJobs : rpc[j] = "encode" =>
        LET objects == scene[j].objects
            Queued(p) == CHOOSE l \in rjob[j].layers : l.piece = p
        IN  /\ Head(objects) = "avatar"
            /\ {objects[i] : i \in 2..Len(objects)}
                 = {l.piece : l \in {k \in rjob[j].layers : k.visible}}
            /\ \A a, b \in 2..Len(objects) :
                 a < b => Queued(objects[a]).order <= Queued(objects[b]).order

(* A job that is not being worked on holds nothing in its scene: every way *)
(* out of the worker, retries included, releases it.                       *)
SceneReleased == \A j \in RenderJobs : rpc[j] \in {"idle", "fallback", "upload"} => scene[j] = NoScene
=============================================================================
