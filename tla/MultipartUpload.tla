--------------------------- MODULE MultipartUpload ---------------------------
(***************************************************************************)
(* multipart-handler.util.ts: one upload, as S3 has it and as the map of   *)
(* uploads knows it, with its parts in flight.  S3 does what is asked      *)
(* before the answer arrives, and an answer may not arrive at all.         *)
(***************************************************************************)
EXTENDS Naturals, FiniteSets, Functions, Sequences

CONSTANTS
    NumParts,     \* that splitIntoParts made
    Concurrency,  \* of uploadPartsParallel
    MaxResends,   \* bound on parts sent once more by the caller
    MaxLost       \* bound on requests that fail on the way or whose answer is lost

VARIABLES
    s3,        \* "none", "open", "completed" or "aborted"
    stored,    \* part numbers S3 has
    object,    \* the completed object: its parts, and whether all were answered then
    known,     \* the upload is in the map
    parts,     \* state.parts
    sent,      \* sent[n]: "no", "sent" or "stored", for a part in flight
    batch,     \* uploadPartsParallel: the first part of its batch; 0 unless it runs
    awaited,   \* parts of the batch still awaited
    uploaded,  \* uploadPartsParallel has resolved
    closing,   \* "no", or "complete", "completed", "abort", "aborted" in flight
    listed,    \* the parts the completion names
    afterAll,  \* uploadPartsParallel had resolved when it was called
    refused,   \* S3 has refused to complete an open upload with parts
    crossed,   \* a part was answered after the upload was closed
    forgotten, \* the map has been cleared, or was lost with its process
    resends, lost

multipartVars == <<s3, stored, object, known, parts, sent, batch, awaited, uploaded, closing, listed,
                   afterAll, refused, crossed, forgotten, resends, lost>>
s3Vars == <<s3, stored, object>>
ghosts == <<crossed, forgotten>>
mapVars == <<known, parts>>
parallelVars == <<batch, awaited, uploaded>>
closeVars == <<closing, listed, afterAll, refused>>
budget == <<resends, lost>>

-----------------------------------------------------------------------------
Parts == 1..NumParts
Ascending(list) == \A i, j \in DOMAIN list : i < j => list[i] < list[j]
getProgress == (100 * Len(parts)) \div NumParts

TypeOK ==
    /\ s3 \in {"none", "open", "completed", "aborted"}
    /\ stored \subseteq Parts /\ Range(parts) \subseteq stored /\ awaited \subseteq Parts
    /\ sent \in [Parts -> {"no", "sent", "stored"}]
    /\ batch \in 0..NumParts
    /\ {known, uploaded, afterAll, refused, crossed, forgotten} \subseteq BOOLEAN
    /\ closing \in {"no", "complete", "completed", "abort", "aborted"}
    /\ resends \in 0..MaxResends /\ lost \in 0..MaxLost

Init ==
    /\ s3 = "none" /\ stored = {} /\ object = [parts |-> <<>>, afterAll |-> FALSE]
    /\ known = FALSE /\ parts = <<>> /\ sent = [n \in Parts |-> "no"]
    /\ batch = 0 /\ awaited = {} /\ uploaded = FALSE
    /\ closing = "no" /\ listed = <<>> /\ afterAll = FALSE /\ refused = FALSE /\ crossed = FALSE
    /\ forgotten = FALSE
    /\ resends = 0 /\ lost = 0

-----------------------------------------------------------------------------
(* The answer may be lost: then S3 has an upload that nobody knows.        *)
Initiate ==
    /\ s3 = "none"
    /\ s3' = "open"
    /\ \/ known' = TRUE /\ UNCHANGED lost
       \/ lost < MaxLost /\ lost' = lost + 1 /\ UNCHANGED known
    /\ UNCHANGED <<stored, object, parts, sent, parallelVars, closeVars, ghosts, resends>>

(* uploadPartsParallel sends the first batch.                              *)
BatchFrom(n) == {m \in Parts : n <= m /\ m < n + Concurrency}
UploadPartsParallel ==
    /\ known /\ batch = 0 /\ ~uploaded /\ parts = <<>> /\ \A n \in Parts : sent[n] = "no"
    /\ batch' = 1 /\ awaited' = BatchFrom(1)
    /\ sent' = [n \in Parts |-> IF n \in BatchFrom(1) THEN "sent" ELSE sent[n]]
    /\ UNCHANGED <<s3Vars, mapVars, uploaded, closeVars, ghosts, budget>>

(* The next batch follows when all parts of one have been answered; its    *)
(* parts throw when the upload is not known any more.                      *)
NextBatch ==
    /\ batch > 0 /\ awaited = {}
    /\ LET first == batch + Concurrency IN
         IF first > NumParts THEN batch' = 0 /\ uploaded' = TRUE /\ UNCHANGED <<awaited, sent>>
         ELSE IF ~known THEN batch' = 0 /\ UNCHANGED <<awaited, sent, uploaded>>
         ELSE /\ batch' = first /\ awaited' = BatchFrom(first)
              /\ sent' = [n \in Parts |-> IF n \in BatchFrom(first) THEN "sent" ELSE sent[n]]
              /\ UNCHANGED uploaded
    /\ UNCHANGED <<s3Vars, mapVars, closeVars, ghosts, budget>>

(* The caller sends a part once more, say because it failed.               *)
UploadPart(n) ==
    /\ known /\ sent[n] = "no" /\ batch = 0 /\ resends < MaxResends
    /\ resends' = resends + 1
    /\ sent' = [sent EXCEPT ![n] = "sent"]
    /\ UNCHANGED <<s3Vars, mapVars, parallelVars, closeVars, ghosts, lost>>

PartStored(n) ==
    /\ sent[n] = "sent" /\ s3 = "open"
    /\ stored' = stored \cup {n}
    /\ sent' = [sent EXCEPT ![n] = "stored"]
    /\ UNCHANGED <<s3, object, mapVars, parallelVars, closeVars, ghosts, budget>>

(* The answer: the part is added to the state, and the state is put in the *)
(* map, from which it may have been deleted meanwhile.                     *)
PartAnswered(n) ==
    /\ sent[n] = "stored"
    /\ sent' = [sent EXCEPT ![n] = "no"]
    /\ parts' = Append(parts, n)
    /\ crossed' = (crossed \/ ~known)
    /\ known' = TRUE
    /\ awaited' = awaited \ {n}
    /\ UNCHANGED <<s3Vars, batch, uploaded, closeVars, forgotten, budget>>

(* A part fails, on the way there or back, or because S3 has no upload for *)
(* it any more.  Promise.all rejects, and the others go on.                *)
PartFails(n) ==
    /\ \/ sent[n] # "no" /\ lost < MaxLost /\ lost' = lost + 1
       \/ sent[n] = "sent" /\ s3 # "open" /\ UNCHANGED lost
    /\ sent' = [sent EXCEPT ![n] = "no"]
    /\ IF n \in awaited THEN batch' = 0 /\ awaited' = {} ELSE UNCHANGED <<batch, awaited>>
    /\ UNCHANGED <<s3Vars, mapVars, uploaded, closeVars, ghosts, resends>>

-----------------------------------------------------------------------------
(* Mutant: the parts are named in the order of their answers.              *)
CompleteUnsorted ==
    /\ known /\ closing = "no"
    /\ closing' = "complete" /\ listed' = parts /\ afterAll' = uploaded
    /\ UNCHANGED <<s3Vars, mapVars, sent, parallelVars, refused, ghosts, budget>>

(* complete names the parts of the state, sorted in place, or those that   *)
(* its caller gives.                                                       *)
CompleteGiven ==
    /\ known /\ closing = "no"
    /\ closing' = "complete"
    /\ \E given \in SUBSET Range(parts) : \E list \in Bijection(1..Cardinality(given), given) :
         Ascending(list) /\ listed' = list
    /\ afterAll' = FALSE
    /\ UNCHANGED <<s3Vars, mapVars, sent, parallelVars, refused, ghosts, budget>>

Complete ==
    /\ known /\ closing = "no"
    /\ closing' = "complete"
    /\ \E order \in Bijection(DOMAIN parts, DOMAIN parts) :
         /\ \A i, j \in DOMAIN parts : i < j => parts[order[i]] <= parts[order[j]]
         /\ listed' = [k \in DOMAIN parts |-> parts[order[k]]]
    /\ parts' = listed' /\ afterAll' = uploaded
    /\ UNCHANGED <<s3Vars, known, sent, parallelVars, refused, ghosts, budget>>

(* S3 wants at least one part, in ascending order and none twice.          *)
S3Completes ==
    /\ closing = "complete"
    /\ IF s3 = "open" /\ listed # <<>> /\ Ascending(listed)
       THEN s3' = "completed" /\ object' = [parts |-> listed, afterAll |-> afterAll] /\ closing' = "completed" /\ UNCHANGED refused
       ELSE closing' = "no" /\ refused' = (refused \/ (s3 = "open" /\ listed # <<>>)) /\ UNCHANGED <<s3, object>>
    /\ UNCHANGED <<stored, mapVars, sent, parallelVars, listed, afterAll, ghosts, budget>>

Abort ==
    /\ known /\ closing = "no"
    /\ closing' = "abort"
    /\ UNCHANGED <<s3Vars, mapVars, sent, parallelVars, listed, afterAll, refused, ghosts, budget>>
S3Aborts ==
    /\ closing = "abort"
    /\ IF s3 = "open" THEN s3' = "aborted" /\ closing' = "aborted" ELSE closing' = "no" /\ UNCHANGED s3
    /\ UNCHANGED <<stored, object, mapVars, sent, parallelVars, listed, afterAll, refused, ghosts, budget>>

(* The answer of complete or abort: the state is deleted from the map.     *)
Closed ==
    /\ closing \in {"completed", "aborted"}
    /\ known' = FALSE /\ closing' = "no"
    /\ UNCHANGED <<s3Vars, parts, sent, parallelVars, listed, afterAll, refused, ghosts, budget>>
CloseFails ==
    /\ closing # "no" /\ lost < MaxLost
    /\ lost' = lost + 1 /\ closing' = "no"
    /\ UNCHANGED <<s3Vars, mapVars, sent, parallelVars, listed, afterAll, refused, ghosts, resends>>

-----------------------------------------------------------------------------
(* clearAllStates: what is in flight goes on, and a part that is answered  *)
(* puts its state back.                                                    *)
ClearAllStates ==
    /\ known
    /\ known' = FALSE /\ forgotten' = TRUE
    /\ UNCHANGED <<s3Vars, parts, sent, parallelVars, closeVars, crossed, budget>>

(* The process ends: the map is in memory, and nothing asks S3 for uploads *)
(* when it starts again.                                                   *)
Restart ==
    /\ s3 # "none"
    /\ known' = FALSE /\ parts' = <<>> /\ forgotten' = TRUE
    /\ sent' = [n \in Parts |-> "no"]
    /\ batch' = 0 /\ awaited' = {} /\ uploaded' = FALSE
    /\ closing' = "no" /\ listed' = <<>> /\ afterAll' = FALSE
    /\ UNCHANGED <<s3Vars, refused, crossed, budget>>

-----------------------------------------------------------------------------
Next ==
    \/ Initiate \/ UploadPartsParallel \/ NextBatch
    \/ \E n \in Parts : UploadPart(n) \/ PartStored(n) \/ PartAnswered(n) \/ PartFails(n)
    \/ Complete \/ CompleteGiven \/ ClearAllStates \/ Restart \/ S3Completes \/ Abort \/ S3Aborts \/ Closed \/ CloseFails

Spec == Init /\ [][Next]_multipartVars

-----------------------------------------------------------------------------
(* The map follows S3: it knows an open upload unless the answer that      *)
(* opened it was lost or the map was cleared or lost, and a closed one     *)
(* only while the answer is on its way or lost, or because a part came     *)
(* back after the closing.  An upload whose own parts are named once all   *)
(* of them were answered is whole; S3 refuses the parts that are named     *)
(* only if one was sent twice, which also takes the progress past 100.     *)
UploadsFollow ==
    /\ s3 = "open" /\ ~known => lost > 0 \/ forgotten
    /\ s3 \in {"completed", "aborted"} /\ known => closing # "no" \/ lost > 0 \/ crossed
    /\ object.afterAll => Range(object.parts) = Parts
    /\ refused => resends > 0
    /\ getProgress > 100 => resends > 0
=============================================================================
