----------------------------- MODULE FileUploads -----------------------------
(***************************************************************************)
(* file-uploader.util.ts: uploads in chunks, whose progress is kept in a   *)
(* map that callers read while the library sends the parts, and batches of *)
(* single uploads.  A file is so many parts long.                          *)
(***************************************************************************)
EXTENDS Naturals, FiniteSets

CONSTANTS
    Uploads,         \* uploads in chunks; each has an id of its own
    Sizes,           \* lengths of files
    BatchFiles,      \* files of a batch
    MaxUploadErrors  \* bound on what fails

VARIABLES
    size,      \* size[u]
    upload,    \* upload[u]: "idle", "reading", "sending", "stored", "done", "failed",
               \* or "unread" when it has failed before the parts were sent
    loaded,    \* loaded[u]: parts the library has reported
    progress,  \* the map uploadProgress
    single,    \* single[f]: uploadSingle of a file: "idle", "sending", "done" or "failed"
    result,    \* of uploadBatch: "none", "pending", "resolved", "rejected" or "refused"
    inS3,      \* the uploads and files that S3 has
    uploadErrors

uploadVars == <<size, upload, loaded, progress, single, result, inS3, uploadErrors>>
batchOnly == <<single, result>>

-----------------------------------------------------------------------------
(* An empty file is 0 of 0: its percentage is no number.                   *)
Percentage(n, total) == IF total = 0 THEN {} ELSE {(100 * n) \div total}
Entry(n, total, status) ==
    [loaded |-> n, total |-> total, percentage |-> Percentage(n, total), status |-> status]
Put(u, entry) == [v \in DOMAIN progress \cup {u} |-> IF v = u THEN entry ELSE progress[v]]

TypeOK ==
    /\ size \in [Uploads -> Sizes] /\ loaded \in [Uploads -> Nat]
    /\ upload \in [Uploads -> {"idle", "reading", "sending", "stored", "done", "failed", "unread"}]
    /\ DOMAIN progress \subseteq Uploads
    /\ \A u \in DOMAIN progress : progress[u].status \in {"pending", "uploading", "completed", "failed"}
    /\ single \in [BatchFiles -> {"idle", "sending", "done", "failed"}]
    /\ result \in {"none", "pending", "resolved", "rejected", "refused"}
    /\ inS3 \subseteq Uploads \cup BatchFiles /\ uploadErrors \in 0..MaxUploadErrors

Init ==
    /\ size \in [Uploads -> Sizes]
    /\ upload = [u \in Uploads |-> "idle"] /\ loaded = [u \in Uploads |-> 0]
    /\ progress = [u \in {} |-> Entry(0, 0, "uploading")]
    /\ single = [f \in BatchFiles |-> "idle"] /\ result = "none"
    /\ inS3 = {} /\ uploadErrors = 0

-----------------------------------------------------------------------------
(* uploadChunked.  A file that is given by its path is read first.         *)
UploadChunked(u) ==
    /\ upload[u] = "idle"
    /\ upload' = [upload EXCEPT ![u] = "reading"]
    /\ UNCHANGED <<size, loaded, progress, batchOnly, inS3, uploadErrors>>

(* The entry is "pending" when it is made, and "uploading" when anybody    *)
(* can see it.                                                             *)
SendParts(u) ==
    /\ upload[u] = "reading"
    /\ upload' = [upload EXCEPT ![u] = "sending"]
    /\ progress' = Put(u, Entry(0, size[u], "uploading"))
    /\ UNCHANGED <<size, loaded, batchOnly, inS3, uploadErrors>>

(* The library reports a part, also when the upload has failed for another *)
(* part already, and then puts a cleared entry back.                       *)
HttpUploadProgress(u) ==
    /\ upload[u] \in {"sending", "failed"} /\ loaded[u] < size[u]
    /\ loaded' = [loaded EXCEPT ![u] = @ + 1]
    /\ progress' = Put(u, Entry(loaded[u] + 1, size[u], "uploading"))
    /\ UNCHANGED <<size, upload, batchOnly, inS3, uploadErrors>>

(* S3 puts the parts together.                                             *)
S3Stores(u) ==
    /\ upload[u] = "sending" /\ loaded[u] = size[u]
    /\ upload' = [upload EXCEPT ![u] = "stored"]
    /\ inS3' = inS3 \cup {u}
    /\ UNCHANGED <<size, loaded, progress, batchOnly, uploadErrors>>

Completed(u) ==
    /\ upload[u] = "stored"
    /\ upload' = [upload EXCEPT ![u] = "done"]
    /\ progress' = Put(u, [Entry(size[u], size[u], "completed") EXCEPT !.percentage = {100}])
    /\ UNCHANGED <<size, loaded, batchOnly, inS3, uploadErrors>>

(* Something rejects.  The entry to mark as failed is looked up under a    *)
(* fresh random id: none is found.                                         *)
UploadFails(u) ==
    /\ upload[u] \in {"reading", "sending", "stored"} /\ uploadErrors < MaxUploadErrors
    /\ upload' = [upload EXCEPT ![u] = IF @ = "reading" THEN "unread" ELSE "failed"]
    /\ uploadErrors' = uploadErrors + 1
    /\ UNCHANGED <<size, loaded, progress, batchOnly, inS3>>

ClearProgress(u) ==
    /\ u \in DOMAIN progress
    /\ progress' = [v \in DOMAIN progress \ {u} |-> progress[v]]
    /\ UNCHANGED <<size, upload, loaded, batchOnly, inS3, uploadErrors>>
ClearAllProgress ==
    /\ progress' = [v \in {} |-> Entry(0, 0, "uploading")]
    /\ UNCHANGED <<size, upload, loaded, batchOnly, inS3, uploadErrors>>

-----------------------------------------------------------------------------
(* uploadBatch starts all uploads unless the destinations do not match.    *)
UploadBatch ==
    /\ result = "none"
    /\ \/ result' = "refused" /\ UNCHANGED single
       \/ result' = "pending" /\ single' = [f \in BatchFiles |-> "sending"]
    /\ UNCHANGED <<size, upload, loaded, progress, inS3, uploadErrors>>

(* Mutant: the batch resolves with the first answer.                       *)
SingleAnsweredFirst(f) ==
    /\ single[f] = "sending"
    /\ single' = [single EXCEPT ![f] = "done"] /\ inS3' = inS3 \cup {f}
    /\ result' = IF result = "pending" THEN "resolved" ELSE result
    /\ UNCHANGED <<size, upload, loaded, progress, uploadErrors>>

(* Promise.all resolves with the last answer ...                           *)
SingleAnswered(f) ==
    /\ single[f] = "sending"
    /\ single' = [single EXCEPT ![f] = "done"] /\ inS3' = inS3 \cup {f}
    /\ result' = IF \A g \in BatchFiles : single'[g] = "done" THEN "resolved" ELSE result
    /\ UNCHANGED <<size, upload, loaded, progress, uploadErrors>>

(* ... and rejects with the first that fails, while the others go on.      *)
SingleFails(f) ==
    /\ single[f] = "sending" /\ uploadErrors < MaxUploadErrors
    /\ uploadErrors' = uploadErrors + 1
    /\ single' = [single EXCEPT ![f] = "failed"] /\ inS3' \in {inS3, inS3 \cup {f}}
    /\ result' = "rejected"
    /\ UNCHANGED <<size, upload, loaded, progress>>

-----------------------------------------------------------------------------
Next ==
    \/ \E u \in Uploads :
        \/ UploadChunked(u) \/ SendParts(u) \/ HttpUploadProgress(u) \/ S3Stores(u)
        \/ Completed(u) \/ UploadFails(u) \/ ClearProgress(u)
    \/ ClearAllProgress \/ UploadBatch
    \/ \E f \in BatchFiles : SingleAnswered(f) \/ SingleFails(f)

Spec == Init /\ [][Next]_uploadVars

-----------------------------------------------------------------------------
(* An entry is never ahead of the parts sent, says completed only for what *)
(* S3 has, and goes on saying so until it is cleared.  A batch that        *)
(* resolves has stored every file, and one that is refused has stored      *)
(* none.                                                                   *)
UploadsReported ==
    /\ \A u \in DOMAIN progress :
         /\ progress[u].loaded <= loaded[u]
         /\ progress[u].status = "completed" <=> upload[u] = "done"
         /\ upload[u] = "done" => u \in inS3
    /\ result = "resolved" => BatchFiles \subseteq inS3
    /\ result = "refused" => BatchFiles \cap inS3 = {}
=============================================================================
