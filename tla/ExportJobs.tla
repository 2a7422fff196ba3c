----------------------------- MODULE ExportJobs -----------------------------
(***************************************************************************)
(* Exports of the design service: the row of design.exports, the Bull job  *)
(* that carries the work, the export worker, the progress reports that the *)
(* worker fires without awaiting them, and the API calls of a user.        *)
(*                                                                         *)
(* Every await of the code is a point where the others may run, so each    *)
(* database or queue operation is one step.  API, queue consumer and       *)
(* progress callbacks live in one Node process (main.ts); a crash of it    *)
(* loses whatever was in flight and leaves PostgreSQL and Redis as is.     *)
(***************************************************************************)
EXTENDS Naturals, FiniteSets

CONSTANTS
    Exports,      \* ids of the exports that may be requested
    TypeOf,       \* type of each export
    MaxAttempts,  \* MAX_RETRY_ATTEMPTS: Bull's `attempts' and failExport's limit
    MaxStalled,   \* Bull's maxStalledCount
    MaxCrashes,   \* bound on the crashes that nothing in this code causes
    MaxExports    \* bound on the exports that are requested

Types == {"image", "video", "model", "techpack"}

ASSUME TypeOfAssumption == TypeOf \in [Exports -> Types]
ASSUME MaxAttemptsAssumption == MaxAttempts \in Nat \ {0}
ASSUME MaxStalledAssumption == MaxStalled \in Nat
ASSUME MaxCrashesAssumption == MaxCrashes \in Nat
ASSUME MaxExportsAssumption == MaxExports \in Nat

VARIABLES
    row,          \* row[e]: the row of design.exports
    job,          \* job[e]: the Bull job of the export, in Redis
    pc,           \* pc[e]: where the worker is in the handler of e's job
    late,         \* progress reports that were fired and not awaited
    creating,     \* creating[e]: progress of createExport
    cancelling,   \* cancelling[e]: progress of cancelExport
    crashes       \* crashes spent from MaxCrashes

dbVars == <<row>>
apiVars == <<creating, cancelling>>
vars == <<row, job, pc, late, creating, cancelling, crashes>>

-----------------------------------------------------------------------------
Status == {"queued", "processing", "completed", "failed"}
JobStates == {"none", "waiting", "delayed", "active", "completed", "failed", "removed"}

(* Awaits inside the handler's try block, and inside its catch block.      *)
TryPoints == {"begin", "mark", "work", "finish", "store", "ack"}
CatchPoints == {"fail", "bump", "requeue", "giveup"}
PCs == TryPoints \cup CatchPoints \cup {"idle", "reject", "dead"}

NoRow == [status |-> "absent", retryCount |-> 0, file |-> FALSE, error |-> "none"]
Row == [status: Status \cup {"absent"}, retryCount: Nat, file: BOOLEAN,
        error: {"none", "cancelled", "exhausted"}]
NoJob == [state |-> "none", attempts |-> 0, stalled |-> 0, started |-> FALSE]
Job == [state: JobStates, attempts: Nat, stalled: Nat, started: BOOLEAN]

(* The progress values a handler reports without awaiting them.  An image  *)
(* export polls the render job and scales `job.progress', which is a       *)
(* method in Bull, to NaN; a turntable reports 20 + 10 * 0.75 and 95; a    *)
(* model 43, 82 and 95.                                                    *)
Reports(type) ==
    CASE type = "image" -> {"nan"}
      [] type = "video" -> {"27.5", "95"}
      [] type = "model" -> {"43", "82", "95"}
      [] type = "techpack" -> {}

(* exports.progress is an integer column: PostgreSQL refuses the others.   *)
Storable(value) == value \notin {"nan", "27.5"}

Report == [export: Exports, value: UNION {Reports(t) : t \in Types}, at: {"find", "write"}]

TypeOK ==
    /\ row \in [Exports -> Row]
    /\ job \in [Exports -> Job]
    /\ pc \in [Exports -> PCs]
    /\ late \in SUBSET Report
    /\ creating \in [Exports -> {"no", "enqueue", "done"}]
    /\ cancelling \in [Exports -> {"no", "mark", "remove"}]
    /\ crashes \in 0..MaxCrashes

Init ==
    /\ row = [e \in Exports |-> NoRow]
    /\ job = [e \in Exports |-> NoJob]
    /\ pc = [e \in Exports |-> "idle"]
    /\ late = {}
    /\ creating = [e \in Exports |-> "no"]
    /\ cancelling = [e \in Exports |-> "no"]
    /\ crashes = 0

-----------------------------------------------------------------------------
HasRow(e) == row[e].status # "absent"
HasHandler(e) == TypeOf[e] # "techpack"

(* UPDATE design.exports SET status = s WHERE id = e.                      *)
SetStatus(e, s) ==
    row' = IF HasRow(e) THEN [row EXCEPT ![e].status = s] ELSE row

(* markAsFailed(e, message).                                               *)
MarkAsFailed(e, message) ==
    row' = IF HasRow(e)
           THEN [row EXCEPT ![e].status = "failed", ![e].error = message]
           ELSE row

Goto(e, point) == pc' = [pc EXCEPT ![e] = point]

(* The Node process dies: handlers, reports and API calls in flight are    *)
(* gone, active jobs stay in Redis with a lock nobody renews.              *)
ProcessDies ==
    /\ pc' = [e \in Exports |-> IF pc[e] = "idle" THEN "idle" ELSE "dead"]
    /\ late' = {}
    /\ creating' = [e \in Exports |-> IF creating[e] = "enqueue" THEN "done" ELSE creating[e]]
    /\ cancelling' = [e \in Exports |-> "no"]

-----------------------------------------------------------------------------
(* API calls.                                                              *)

(* createExport up to the INSERT.                                          *)
CreateInsert(e) ==
    /\ creating[e] = "no"
    /\ Cardinality({f \in Exports : creating[f] # "no"}) < MaxExports
    /\ row' = [row EXCEPT ![e] = [NoRow EXCEPT !.status = "queued"]]
    /\ creating' = [creating EXCEPT ![e] = "enqueue"]
    /\ UNCHANGED <<job, pc, late, cancelling, crashes>>

(* Mutant: the row is saved once more after the job was queued.            *)
EnqueueThenSave(e) ==
    /\ creating[e] = "enqueue"
    /\ creating' = [creating EXCEPT ![e] = "done"]
    /\ job' = [job EXCEPT ![e].state = "waiting"]
    /\ SetStatus(e, "queued")
    /\ UNCHANGED <<pc, late, cancelling, crashes>>

(* queueExportJob: exportQueue.add.  When Redis refuses, the call fails    *)
(* and the row stays.                                                      *)
CreateEnqueue(e) ==
    /\ creating[e] = "enqueue"
    /\ creating' = [creating EXCEPT ![e] = "done"]
    /\ \/ job' = [job EXCEPT ![e].state = "waiting"]
       \/ UNCHANGED job
    /\ UNCHANGED <<row, pc, late, cancelling, crashes>>

(* cancelExport reads the row and refuses a completed or failed one.       *)
CancelCheck(e) ==
    /\ cancelling[e] = "no"
    /\ row[e].status \in {"queued", "processing"}
    /\ cancelling' = [cancelling EXCEPT ![e] = "mark"]
    /\ UNCHANGED <<row, job, pc, late, creating, crashes>>

CancelMark(e) ==
    /\ cancelling[e] = "mark"
    /\ MarkAsFailed(e, "cancelled")
    /\ cancelling' = [cancelling EXCEPT ![e] = "remove"]
    /\ UNCHANGED <<job, pc, late, creating, crashes>>

(* job.remove(): throws while a worker holds the job's lock.  The lock of  *)
(* a dead worker may or may not have expired.                              *)
CancelRemove(e) ==
    /\ cancelling[e] = "remove"
    /\ cancelling' = [cancelling EXCEPT ![e] = "no"]
    /\ \/ /\ \/ job[e].state \in {"waiting", "delayed"}
             \/ job[e].state = "active" /\ pc[e] = "dead"
          /\ job' = [job EXCEPT ![e].state = "removed"]
       \/ /\ job[e].state \notin {"waiting", "delayed"}
          /\ UNCHANGED job
    /\ UNCHANGED <<row, pc, late, creating, crashes>>

(* deleteExport, and deleteExpired for a row past expires_at.              *)
Delete(e) ==
    /\ HasRow(e)
    /\ row' = [row EXCEPT ![e] = NoRow]
    /\ UNCHANGED <<job, pc, late, creating, cancelling, crashes>>

-----------------------------------------------------------------------------
(* The worker.                                                             *)

(* Bull hands the job to the process.  No handler is registered for        *)
(* `export-techpack': Bull fails such a job at once.                       *)
Take(e) ==
    /\ job[e].state = "waiting"
    /\ job' = [job EXCEPT ![e].state = "active", ![e].started = TRUE]
    /\ Goto(e, IF HasHandler(e) THEN "begin" ELSE "reject")
    /\ UNCHANGED <<row, late, creating, cancelling, crashes>>

(* updateExportProgress(id, 0, 'processing'): the read, then the write.    *)
WorkerBegin(e) ==
    /\ pc[e] = "begin"
    /\ Goto(e, IF HasRow(e) THEN "mark" ELSE "fail")
    /\ UNCHANGED <<row, job, late, creating, cancelling, crashes>>

(* Mutant: a status the column's CHECK does not list.                      *)
MarkRendering(e) ==
    /\ pc[e] = "mark"
    /\ SetStatus(e, "rendering")
    /\ Goto(e, "work")
    /\ UNCHANGED <<job, late, creating, cancelling, crashes>>

WorkerMark(e) ==
    /\ pc[e] = "mark"
    /\ SetStatus(e, "processing")
    /\ Goto(e, "work")
    /\ UNCHANGED <<job, late, creating, cancelling, crashes>>

(* waitForRenderCompletion: a poll that finds the render job unfinished.   *)
PollRender(e) ==
    /\ pc[e] = "work"
    /\ TypeOf[e] = "image"
    /\ late' = late \cup {[export |-> e, value |-> v, at |-> "find"] : v \in Reports("image")}
    /\ UNCHANGED <<row, job, pc, creating, cancelling, crashes>>

(* The file is made; video and model report their progress meanwhile.      *)
WorkerMake(e) ==
    /\ pc[e] = "work"
    /\ late' = IF TypeOf[e] = "image" THEN late
               ELSE late \cup {[export |-> e, value |-> v, at |-> "find"] :
                                 v \in Reports(TypeOf[e])}
    /\ Goto(e, "finish")
    /\ UNCHANGED <<row, job, creating, cancelling, crashes>>

(* completeExport: the read, then the write.                               *)
WorkerFinish(e) ==
    /\ pc[e] = "finish"
    /\ Goto(e, IF HasRow(e) THEN "store" ELSE "fail")
    /\ UNCHANGED <<row, job, late, creating, cancelling, crashes>>

(* Mutant: completeExport forgets the file.                                *)
StoreStatusOnly(e) ==
    /\ pc[e] = "store"
    /\ SetStatus(e, "completed")
    /\ Goto(e, "ack")
    /\ UNCHANGED <<job, late, creating, cancelling, crashes>>

WorkerStore(e) ==
    /\ pc[e] = "store"
    /\ row' = IF HasRow(e)
              THEN [row EXCEPT ![e].status = "completed", ![e].file = TRUE]
              ELSE row
    /\ Goto(e, "ack")
    /\ UNCHANGED <<job, late, creating, cancelling, crashes>>

(* The handler returns and Bull moves the job to completed.                *)
WorkerAck(e) ==
    /\ pc[e] = "ack"
    /\ job' = [job EXCEPT ![e].state = "completed"]
    /\ Goto(e, "idle")
    /\ UNCHANGED <<row, late, creating, cancelling, crashes>>

(* An await of the handler rejects: database, Redis, rendering, design     *)
(* deleted, render timed out.  From the try block to the catch block, from *)
(* the catch block out of the handler.                                     *)
WorkerThrow(e) ==
    /\ \/ pc[e] \in TryPoints /\ Goto(e, "fail")
       \/ pc[e] \in CatchPoints /\ Goto(e, "reject")
    /\ UNCHANGED <<row, job, late, creating, cancelling, crashes>>

(* Mutants: the comparison is one off, either way.                         *)
FailExportLate(e) ==
    /\ pc[e] = "fail"
    /\ Goto(e, IF ~HasRow(e) THEN "reject"
               ELSE IF row[e].retryCount <= MaxAttempts THEN "bump" ELSE "giveup")
    /\ UNCHANGED <<row, job, late, creating, cancelling, crashes>>

FailExportEarly(e) ==
    /\ pc[e] = "fail"
    /\ Goto(e, IF ~HasRow(e) THEN "reject"
               ELSE IF row[e].retryCount + 1 < MaxAttempts THEN "bump" ELSE "giveup")
    /\ UNCHANGED <<row, job, late, creating, cancelling, crashes>>

(* failExport reads the row and compares its retryCount.                   *)
FailExport(e) ==
    /\ pc[e] = "fail"
    /\ Goto(e, IF ~HasRow(e) THEN "reject"
               ELSE IF row[e].retryCount < MaxAttempts THEN "bump" ELSE "giveup")
    /\ UNCHANGED <<row, job, late, creating, cancelling, crashes>>

FailIncrement(e) ==
    /\ pc[e] = "bump"
    /\ row' = IF HasRow(e) THEN [row EXCEPT ![e].retryCount = @ + 1] ELSE row
    /\ Goto(e, "requeue")
    /\ UNCHANGED <<job, late, creating, cancelling, crashes>>

FailRequeue(e) ==
    /\ pc[e] = "requeue"
    /\ SetStatus(e, "queued")
    /\ Goto(e, "reject")
    /\ UNCHANGED <<job, late, creating, cancelling, crashes>>

FailGiveUp(e) ==
    /\ pc[e] = "giveup"
    /\ MarkAsFailed(e, "exhausted")
    /\ Goto(e, "reject")
    /\ UNCHANGED <<job, late, creating, cancelling, crashes>>

(* Mutant: the attempt is not counted.                                     *)
RejectUncounted(e) ==
    /\ pc[e] = "reject"
    /\ job' = [job EXCEPT ![e].state = "delayed"]
    /\ Goto(e, "idle")
    /\ UNCHANGED <<row, late, creating, cancelling, crashes>>

(* Bull counts the attempt, and delays the job or fails it for good.       *)
Reject(e) ==
    /\ pc[e] = "reject"
    /\ job' = [job EXCEPT ![e].attempts = @ + 1,
                          ![e].state = IF job[e].attempts + 1 < MaxAttempts
                                       THEN "delayed" ELSE "failed"]
    /\ Goto(e, "idle")
    /\ UNCHANGED <<row, late, creating, cancelling, crashes>>

(* The backoff elapses.                                                    *)
Promote(e) ==
    /\ job[e].state = "delayed"
    /\ job' = [job EXCEPT ![e].state = "waiting"]
    /\ UNCHANGED <<row, pc, late, creating, cancelling, crashes>>

(* Mutant: stalls are not counted.                                         *)
StalledUncounted(e) ==
    /\ pc[e] = "dead"
    /\ job[e].state = "active"
    /\ job' = [job EXCEPT ![e].state = "waiting"]
    /\ Goto(e, "idle")
    /\ UNCHANGED <<row, late, creating, cancelling, crashes>>

(* Bull finds an active job whose lock expired: run it again, or fail it.  *)
Stalled(e) ==
    /\ pc[e] = "dead"
    /\ job[e].state = "active"
    /\ job' = [job EXCEPT ![e].stalled = @ + 1,
                          ![e].state = IF job[e].stalled + 1 > MaxStalled
                                       THEN "failed" ELSE "waiting"]
    /\ Goto(e, "idle")
    /\ UNCHANGED <<row, late, creating, cancelling, crashes>>

-----------------------------------------------------------------------------
(* Progress reports.  Nobody awaits them, so a rejected one is an          *)
(* unhandled rejection, which ends a Node 20 process.                      *)

(* updateExportProgress reads the row; NotFoundException without one.      *)
ReportFind(r) ==
    /\ r.at = "find"
    /\ \/ /\ HasRow(r.export)
          /\ late' = (late \ {r}) \cup {[r EXCEPT !.at = "write"]}
          /\ UNCHANGED <<pc, creating, cancelling>>
       \/ /\ ~HasRow(r.export)
          /\ ProcessDies
    /\ UNCHANGED <<row, job, crashes>>

ReportWrite(r) ==
    /\ r.at = "write"
    /\ \/ /\ Storable(r.value)
          /\ SetStatus(r.export, "processing")
          /\ late' = late \ {r}
          /\ UNCHANGED <<pc, creating, cancelling>>
       \/ /\ ~Storable(r.value)
          /\ ProcessDies
          /\ UNCHANGED row
    /\ UNCHANGED <<job, crashes>>

(* A crash from outside: deployment, out of memory, another module.        *)
Crash ==
    /\ crashes < MaxCrashes
    /\ crashes' = crashes + 1
    /\ ProcessDies
    /\ UNCHANGED <<row, job>>

-----------------------------------------------------------------------------
Worker(e) ==
    \/ WorkerBegin(e) \/ WorkerMark(e) \/ WorkerMake(e) \/ WorkerFinish(e)
    \/ WorkerStore(e) \/ WorkerAck(e) \/ FailExport(e) \/ FailIncrement(e)
    \/ FailRequeue(e) \/ FailGiveUp(e) \/ Reject(e)

Bull(e) == Take(e) \/ Promote(e) \/ Stalled(e)

User(e) ==
    \/ CreateInsert(e) \/ CreateEnqueue(e) \/ CancelCheck(e) \/ CancelMark(e)
    \/ CancelRemove(e) \/ Delete(e)

Next ==
    \/ \E e \in Exports : Worker(e) \/ WorkerThrow(e) \/ PollRender(e) \/ Bull(e) \/ User(e)
    \/ \E r \in late : ReportFind(r) \/ ReportWrite(r)
    \/ Crash

(* The event loop runs what is ready, Bull's timers fire, PostgreSQL       *)
(* answers.  Users, errors and crashes owe nothing.                        *)
Fairness ==
    /\ \A e \in Exports : WF_vars(Worker(e)) /\ WF_vars(Bull(e))
    /\ WF_vars(\E r \in late : ReportFind(r) \/ ReportWrite(r))

Spec == Init /\ [][Next]_vars
FairSpec == Spec /\ Fairness

-----------------------------------------------------------------------------
(* Properties.                                                             *)

(* A row that says completed, and a row whose Bull job Bull counts as      *)
(* completed, has the file the download endpoint hands out, whatever       *)
(* retries, cancellations and late reports did to the row's status.        *)
DeliveredHasFile ==
    \A e \in Exports :
        (row[e].status = "completed" \/ (HasRow(e) /\ job[e].state = "completed"))
            => row[e].file

(* Runs of e's handler that are over, and the present one once it may have *)
(* counted itself.                                                         *)
CountedRuns(e) ==
    job[e].attempts + job[e].stalled
        + (IF pc[e] \in {"requeue", "reject", "dead"} THEN 1 ELSE 0)

(* The database's retryCount and Bull's own counters are kept apart and    *)
(* never reconciled; still failExport never counts a run twice, and never  *)
(* counts past its limit although it reads before it increments.           *)
RetriesAccounted ==
    \A e \in Exports :
        /\ row[e].retryCount <= CountedRuns(e)
        /\ row[e].retryCount <= MaxAttempts

(* failExport gives up with the error of the worker only when every retry  *)
(* was counted, and then only if a crash made Bull run the job once more   *)
(* than its attempts: Bull stops after MaxAttempts, one run before the     *)
(* branch that marks the row failed.                                       *)
GivesUpOnlyAfterStall ==
    \A e \in Exports :
        row[e].error = "exhausted" =>
            /\ row[e].retryCount = MaxAttempts
            /\ job[e].stalled > 0

(* Cancelling an export whose job was removed before any worker took it is *)
(* final: nothing writes the row afterwards.                               *)
CancelBeforeStartSticks ==
    \A e \in Exports :
        job[e].state = "removed" /\ ~job[e].started /\ HasRow(e)
            => row[e].status = "failed"

(* Whatever fails, stalls or is cancelled, Bull gets done with every job.  *)
JobsSettle ==
    \A e \in Exports :
        job[e].state \in {"waiting", "delayed", "active"}
            ~> job[e].state \in {"completed", "failed", "removed"}

-----------------------------------------------------------------------------
(* What comments of the code claim and the code does not do.               *)

(* cancelExport: "Signal worker to stop processing if in progress".  A     *)
(* cancelled export is not completed afterwards.                           *)
CancelStopsWorker ==
    \A e \in Exports :
        row[e].error = "cancelled" => row[e].status # "completed"
=============================================================================
