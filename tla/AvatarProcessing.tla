-------------------------- MODULE AvatarProcessing --------------------------
(***************************************************************************)
(* One avatar of the avatar service: its row and its dependent rows, the   *)
(* API calls of the owner, the jobs of the avatar-processing queue and the *)
(* processor that works them off.  Avatars share no state with each other  *)
(* but the queue, so one avatar stands for all.                            *)
(*                                                                         *)
(* API calls and worker steps interleave at every await.  Calls enqueue    *)
(* their job first and write the status afterwards; the processor writes   *)
(* the same column.                                                        *)
(*                                                                         *)
(* The queue is Bull, through @nestjs/bull.  The processor takes its jobs  *)
(* for those of bullmq, of which it imports the types, and calls their     *)
(* updateProgress after the first row it writes.  Bull's jobs have no such *)
(* method: the call throws, no attempt gets any further, and the steps     *)
(* after it, up to the status READY, are never taken.                      *)
(***************************************************************************)
EXTENDS Naturals, FiniteSets, TLC

CONSTANTS
    Clients,      \* API calls that may be in flight at once
    Jobs,         \* jobs that may be added; bounds the retries of the user
    MaxAttempts,  \* `attempts' of a job
    MaxStalled,   \* the queue's maxStalledCount
    Concurrency,  \* processors over all instances of the service
    MaxFaults,    \* bound on awaits of the processor that reject
    MaxCrashes    \* bound on workers that die

ASSUME BoundsAssumption ==
    /\ IsFiniteSet(Clients) /\ Clients # {} /\ IsFiniteSet(Jobs)
    /\ MaxAttempts \in Nat \ {0}
    /\ Concurrency \in Nat \ {0}
    /\ MaxStalled \in Nat
    /\ MaxFaults \in Nat
    /\ MaxCrashes \in Nat

VARIABLES
    status,     \* avatars.status, "none" when there is no row
    deletion,   \* "no", "soft" (deleted_at set) or "hard" (row gone)
    photos,     \* is there a row in photos
    measured,   \* is there a row in measurements: avatar_id is UNIQUE there
    job,        \* the queue's jobs
    pc,         \* pc[j]: where a worker is in processPhotos(j)
    record,     \* record[j]: status of the row j in processing_jobs
    call,       \* call[c]: what the API call in flight does next
    errors,     \* history: how often the processor wrote ERROR; counted up to the jobs
    announced,  \* history: no call has failed between its job and its status
    faults, crashes

rows == <<status, deletion, photos, measured>>
budget == <<faults, crashes>>
history == <<errors, announced>>
vars == <<status, deletion, photos, measured, job, pc, record, call, errors, announced, faults, crashes>>

-----------------------------------------------------------------------------
JobStates == {"none", "waiting", "delayed", "active", "failed", "removed"}
Job == [state: JobStates, attempts: Nat, stalled: Nat, photos: BOOLEAN]
NoJob == [state |-> "none", attempts |-> 0, stalled |-> 0, photos |-> FALSE]

PCs == {"idle", "record", "error", "failRecord", "reject", "dead"}

Stages == {"idle", "upload", "measure", "findPhotos", "findMeasurement", "deletePhoto",
           "enqueuePhotos", "enqueueManual", "announce"}

TypeOK ==
    /\ status \in {"none", "pending", "processing", "error"}
    /\ deletion \in {"no", "soft", "hard"}
    /\ photos \in BOOLEAN
    /\ measured \in BOOLEAN
    /\ job \in [Jobs -> Job]
    /\ pc \in [Jobs -> PCs]
    /\ record \in [Jobs -> {"none", "processing", "failed"}]
    /\ call \in [Clients -> Stages]
    /\ errors \in 0..Cardinality(Jobs) /\ announced \in BOOLEAN
    /\ faults \in 0..MaxFaults
    /\ crashes \in 0..MaxCrashes

Init ==
    /\ status = "none"
    /\ deletion = "no"
    /\ photos = FALSE
    /\ measured = FALSE
    /\ job = [j \in Jobs |-> NoJob]
    /\ pc = [j \in Jobs |-> "idle"]
    /\ record = [j \in Jobs |-> "none"]
    /\ call = [c \in Clients |-> "idle"]
    /\ errors = 0 /\ announced = TRUE
    /\ faults = 0
    /\ crashes = 0

Exists == status # "none"
Live == Exists /\ deletion = "no"

(* UPDATE avatars SET status = s: no row, no effect; a soft-deleted row is *)
(* written all the same.                                                   *)
SetStatus(s) == status' = IF Exists THEN s ELSE status

CountedUp == IF errors < Cardinality(Jobs) THEN errors + 1 ELSE errors
Goto(j, point) == pc' = [pc EXCEPT ![j] = point]
Proceed(c, stage) == call' = [call EXCEPT ![c] = stage]

-----------------------------------------------------------------------------
(* API calls.                                                              *)

(* createFromPhotos, createFromMeasurements: INSERT the avatar, PENDING.   *)
CreateAvatar(c) ==
    /\ call[c] = "idle"
    /\ status = "none" /\ deletion = "no"
    /\ status' = "pending"
    /\ \/ Proceed(c, "upload")
       \/ Proceed(c, "measure")
    /\ UNCHANGED <<deletion, photos, measured, job, pc, record, history, budget>>

(* The uploads to S3 and the photo rows.                                   *)
UploadPhotos(c) ==
    /\ call[c] = "upload"
    /\ Exists
    /\ photos' = TRUE
    /\ Proceed(c, "enqueuePhotos")
    /\ UNCHANGED <<status, deletion, measured, job, pc, record, history, budget>>

(* createFromMeasurements: INSERT the measurements.                        *)
CreateMeasurement(c) ==
    /\ call[c] = "measure"
    /\ Exists /\ ~measured
    /\ measured' = TRUE
    /\ Proceed(c, "enqueueManual")
    /\ UNCHANGED <<status, deletion, photos, job, pc, record, history, budget>>

(* Mutant: whatever the status.                                            *)
RetryAny(c) ==
    /\ call[c] = "idle"
    /\ Live
    /\ Proceed(c, "findPhotos")
    /\ UNCHANGED <<rows, job, pc, record, history, budget>>

(* retryProcessing: only failed avatars, and only with photos.             *)
RetryCheck(c) ==
    /\ call[c] = "idle"
    /\ Live /\ status = "error"
    /\ Proceed(c, "findPhotos")
    /\ UNCHANGED <<rows, job, pc, record, history, budget>>

FindPhotos(c) ==
    /\ call[c] = "findPhotos"
    /\ Proceed(c, IF photos THEN "enqueuePhotos" ELSE "idle")
    /\ UNCHANGED <<rows, job, pc, record, history, budget>>

(* regenerateModel: not while processing, and only with measurements.      *)
RegenerateCheck(c) ==
    /\ call[c] = "idle"
    /\ Live /\ status # "processing"
    /\ Proceed(c, "findMeasurement")
    /\ UNCHANGED <<rows, job, pc, record, history, budget>>

FindMeasurement(c) ==
    /\ call[c] = "findMeasurement"
    /\ Proceed(c, IF measured THEN "enqueueManual" ELSE "idle")
    /\ UNCHANGED <<rows, job, pc, record, history, budget>>

(* addProcessingJob.  The job id ends in the current millisecond: a second *)
(* call in the same one finds the id taken and adds nothing.               *)
Enqueue(c) ==
    /\ call[c] \in {"enqueuePhotos", "enqueueManual"}
    /\ \/ \E j \in Jobs :
            /\ job[j].state = "none"
            /\ job' = [job EXCEPT ![j].state = "waiting",
                                  ![j].photos = (call[c] = "enqueuePhotos")]
       \/ /\ \E j \in Jobs : job[j].state = "waiting"
          /\ UNCHANGED job
    /\ Proceed(c, "announce")
    /\ UNCHANGED <<rows, pc, record, history, budget>>

(* The status write of all four calls, after their job is in the queue.    *)
Announce(c) ==
    /\ call[c] = "announce"
    /\ SetStatus("processing")
    /\ Proceed(c, "idle")
    /\ UNCHANGED <<deletion, photos, measured, job, pc, record, history, budget>>

(* deletePhoto: not while processing.                                      *)
DeletePhotoCheck(c) ==
    /\ call[c] = "idle"
    /\ Live /\ status # "processing"
    /\ photos
    /\ Proceed(c, "deletePhoto")
    /\ UNCHANGED <<rows, job, pc, record, history, budget>>

(* One photo of up to three goes.                                          *)
DeletePhoto(c) ==
    /\ call[c] = "deletePhoto"
    /\ photos' \in {photos, FALSE}
    /\ Proceed(c, "idle")
    /\ UNCHANGED <<status, deletion, measured, job, pc, record, history, budget>>

(* An await of a call rejects or its process dies: the rows written so far *)
(* stay.  Some of the photos may have been saved.                          *)
CallFails(c) ==
    /\ call[c] # "idle"
    /\ photos' \in IF call[c] = "upload" /\ Exists THEN {photos, TRUE} ELSE {photos}
    /\ announced' = (announced /\ call[c] # "announce")
    /\ Proceed(c, "idle")
    /\ UNCHANGED <<status, deletion, measured, job, pc, record, errors, budget>>

(* deleteAvatar.  A hard delete cascades; queued jobs are left alone.      *)
SoftDelete ==
    /\ Live
    /\ deletion' = "soft"
    /\ UNCHANGED <<status, photos, measured, job, pc, record, call, history, budget>>

HardDelete ==
    /\ Exists
    /\ status' = "none"
    /\ deletion' = "hard"
    /\ photos' = FALSE
    /\ measured' = FALSE
    /\ record' = [j \in Jobs |-> "none"]
    /\ UNCHANGED <<job, pc, call, history, budget>>

(* DELETE /jobs/:id: job.remove() fails while a worker holds the lock.     *)
CancelJob(j) ==
    /\ \/ job[j].state \in {"waiting", "delayed"}
       \/ job[j].state = "active" /\ pc[j] = "dead"
    /\ job' = [job EXCEPT ![j].state = "removed"]
    /\ Goto(j, "idle")
    /\ UNCHANGED <<rows, record, call, history, budget>>

-----------------------------------------------------------------------------
(* processPhotos.                                                          *)

Take(j) ==
    /\ job[j].state = "waiting"
    /\ Cardinality({k \in Jobs : pc[k] \notin {"idle", "dead"}}) < Concurrency
    /\ job' = [job EXCEPT ![j].state = "active"]
    /\ Goto(j, "record")
    /\ UNCHANGED <<rows, record, call, history, budget>>

(* Object.values(photoUrls) throws for a job that carries measurements     *)
(* only; else the row of processing_jobs is saved, whose foreign key needs *)
(* the avatar, and job.updateProgress throws.                              *)
WorkerRecord(j) ==
    /\ pc[j] = "record"
    /\ record' = IF job[j].photos /\ Exists THEN [record EXCEPT ![j] = "processing"] ELSE record
    /\ Goto(j, "error")
    /\ UNCHANGED <<rows, job, call, history, budget>>

(* Mutant: the status of a job is written to the avatar.                   *)
ErrorAsFailed(j) ==
    /\ pc[j] = "error"
    /\ SetStatus("failed")
    /\ errors' = CountedUp
    /\ Goto(j, IF Live THEN "failRecord" ELSE "reject")
    /\ UNCHANGED <<deletion, photos, measured, job, record, call, announced, budget>>

(* The catch block: status ERROR, which throws again for a deleted avatar. *)
WorkerError(j) ==
    /\ pc[j] = "error"
    /\ SetStatus("error")
    /\ errors' = CountedUp
    /\ Goto(j, IF Live THEN "failRecord" ELSE "reject")
    /\ UNCHANGED <<deletion, photos, measured, job, record, call, announced, budget>>

(* Mutant: all the avatar's records are marked, not the one of the job.    *)
FailAllRecords(j) ==
    /\ pc[j] = "failRecord"
    /\ record' = [k \in Jobs |-> IF record[k] = "none" THEN "none" ELSE "failed"]
    /\ Goto(j, "reject")
    /\ UNCHANGED <<rows, job, call, history, budget>>

WorkerFailRecord(j) ==
    /\ pc[j] = "failRecord"
    /\ record' = [record EXCEPT ![j] = IF @ = "none" THEN @ ELSE "failed"]
    /\ Goto(j, "reject")
    /\ UNCHANGED <<rows, job, call, history, budget>>

(* Mutant: the attempt is not counted.                                     *)
RejectUncounted(j) ==
    /\ pc[j] = "reject"
    /\ job' = [job EXCEPT ![j].state = "delayed"]
    /\ Goto(j, "idle")
    /\ UNCHANGED <<rows, record, call, history, budget>>

(* The queue counts the attempt, and delays the job or fails it for good.  *)
Reject(j) ==
    /\ pc[j] = "reject"
    /\ job' = [job EXCEPT ![j].attempts = @ + 1,
                          ![j].state = IF job[j].attempts + 1 < MaxAttempts
                                       THEN "delayed" ELSE "failed"]
    /\ Goto(j, "idle")
    /\ UNCHANGED <<rows, record, call, history, budget>>

(* An await rejects: Redis or the database.                                *)
WorkerThrow(j) ==
    /\ faults < MaxFaults
    /\ \/ pc[j] = "record" /\ Goto(j, "error")
       \/ pc[j] \in {"error", "failRecord"} /\ Goto(j, "reject")
    /\ faults' = faults + 1
    /\ UNCHANGED <<rows, job, record, call, history, crashes>>

WorkerDies(j) ==
    /\ crashes < MaxCrashes
    /\ pc[j] \notin {"idle", "dead"}
    /\ Goto(j, "dead")
    /\ crashes' = crashes + 1
    /\ UNCHANGED <<rows, job, record, call, history, faults>>

Promote(j) ==
    /\ job[j].state = "delayed"
    /\ job' = [job EXCEPT ![j].state = "waiting"]
    /\ UNCHANGED <<rows, pc, record, call, history, budget>>

(* The lock of a dead worker expires: run the job again, or fail it.       *)
Stalled(j) ==
    /\ pc[j] = "dead"
    /\ job' = [job EXCEPT ![j].stalled = @ + 1,
                          ![j].state = IF job[j].stalled + 1 > MaxStalled
                                       THEN "failed" ELSE "waiting"]
    /\ Goto(j, "idle")
    /\ UNCHANGED <<rows, record, call, history, budget>>

-----------------------------------------------------------------------------
Worker(j) == WorkerRecord(j) \/ WorkerError(j) \/ WorkerFailRecord(j) \/ Reject(j)

Queue(j) == Promote(j) \/ Stalled(j)

Owner(c) ==
    \/ CreateAvatar(c) \/ UploadPhotos(c) \/ CreateMeasurement(c) \/ RetryCheck(c)
    \/ FindPhotos(c) \/ RegenerateCheck(c) \/ FindMeasurement(c) \/ Enqueue(c)
    \/ Announce(c) \/ DeletePhotoCheck(c) \/ DeletePhoto(c) \/ CallFails(c)

Next ==
    \/ \E c \in Clients : Owner(c)
    \/ \E j \in Jobs : \/ Take(j) \/ Worker(j) \/ Queue(j) \/ CancelJob(j)
                       \/ WorkerThrow(j) \/ WorkerDies(j)
    \/ SoftDelete \/ HardDelete

(* The event loop of a live worker goes on, the queue's timers fire, and a *)
(* free worker takes each waiting job sooner or later although others wait *)
(* too (strong fairness: the one slot may be taken in between).            *)
Fairness == \A j \in Jobs : WF_vars(Worker(j)) /\ WF_vars(Queue(j)) /\ SF_vars(Take(j))

Spec == Init /\ [][Next]_vars
FairSpec == Spec /\ Fairness

-----------------------------------------------------------------------------
(* Properties.                                                             *)

(* The record of a job is about its own attempts: it says failed only      *)
(* after one of them failed, whatever other jobs of the avatar do, and it  *)
(* says processing only during one, unless the avatar was deleted, which   *)
(* makes the catch block itself throw, or the block was cut short.         *)
RecordsOwn ==
    \A j \in Jobs :
        /\ record[j] = "failed" => \/ pc[j] \in {"reject", "dead"}
                                  \/ job[j].attempts + job[j].stalled > 0
                                  \/ job[j].state = "removed"
        /\ record[j] = "processing" =>
             pc[j] \in {"error", "failRecord"} \/ deletion # "no" \/ faults + crashes > 0

(* The jobs are accounted for: the check of the status is several awaits   *)
(* before the job and the status written after it, but each client in      *)
(* parallel gets one job at the creation and one for each time the         *)
(* processor wrote ERROR, and not more; as long as no call fails between   *)
(* its job and its status.                                                 *)
Added == {j \in Jobs : job[j].state # "none"}
JobsAccounted ==
    announced => Cardinality(Added) <= Cardinality(Clients) * (1 + errors)

(* The queue gets done with every job, deleted avatars or not.             *)
JobsSettle ==
    \A j \in Jobs :
        job[j].state \in {"waiting", "delayed", "active"}
            ~> job[j].state \in {"failed", "removed"}

-----------------------------------------------------------------------------
(* What comments of the code claim and the code does not do.               *)

(* Processor, "Step 8: Complete (100%)": a job with photos whose avatar is *)
(* there and for which nothing went wrong does not fail for good.          *)
OnlyFaultsFail ==
    \A j \in Jobs :
        job[j].state = "failed" /\ job[j].photos => faults + crashes > 0 \/ deletion # "no"

-----------------------------------------------------------------------------
(* Calls are interchangeable, and so are jobs: the symmetry of the runs.   *)
Interchangeable == Permutations(Clients) \cup Permutations(Jobs)
=============================================================================
