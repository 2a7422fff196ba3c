---------------------------- MODULE MCExportJobs ----------------------------
(* One id for each type; MaxExports says how many of them are requested.   *)
(* A model export behaves as a turntable with one more report, all of them *)
(* storable, so the run of all properties goes without it.                 *)
EXTENDS ExportJobs, TLC

CONSTANTS image, video, model, techpack

TypesById ==
    (image :> "image") @@ (video :> "video") @@ (model :> "model") @@ (techpack :> "techpack")

OneOfEach == [e \in Exports |-> TypesById[e]]
=============================================================================
