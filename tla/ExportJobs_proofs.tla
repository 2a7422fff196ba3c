------------------------- MODULE ExportJobs_proofs --------------------------
(* Theorems about ExportJobs, for any set of exports of any types and any  *)
(* limits.  All of them follow from one inductive invariant, IInv.         *)
EXTENDS ExportJobs, TLAPS

-----------------------------------------------------------------------------
(* Queue and worker agree: the handler of e runs only while Bull counts    *)
(* e's job as active, a job that may run again has attempts left, and a    *)
(* job no worker ever took has left no trace.                              *)
QueueInv(e) ==
    /\ pc[e] \notin {"idle", "dead"} => job[e].state = "active"
    /\ pc[e] = "dead" => job[e].state \in {"active", "removed"}
    /\ job[e].state = "active" => pc[e] # "idle" /\ job[e].started
    /\ job[e].state \in {"waiting", "delayed", "active"} => job[e].attempts < MaxAttempts
    /\ creating[e] # "done" => job[e].state = "none"
    /\ job[e].state = "none" => ~job[e].started
    /\ ~job[e].started => job[e].attempts = 0 /\ job[e].state # "completed"
    /\ ~job[e].started => \A r \in late : r.export # e

(* A row that is not there holds nothing, and nobody can have found a row  *)
(* before it was created.                                                  *)
RowInv(e) ==
    /\ ~HasRow(e) => row[e].retryCount = 0 /\ row[e].error = "none"
    /\ creating[e] = "no" => ~HasRow(e) /\ cancelling[e] = "no"

(* What failExport read before it writes still holds when it writes.       *)
RetryInv(e) ==
    /\ row[e].retryCount <= CountedRuns(e)
    /\ row[e].retryCount <= MaxAttempts
    /\ pc[e] = "bump" => row[e].retryCount < MaxAttempts
    /\ pc[e] = "giveup" => row[e].retryCount = MaxAttempts \/ ~HasRow(e)
    /\ row[e].error = "exhausted" => row[e].retryCount = MaxAttempts /\ job[e].stalled > 0

(* The file is stored before the handler returns and before the row says   *)
(* completed.                                                              *)
FileInv(e) ==
    /\ row[e].status = "completed" => row[e].file
    /\ pc[e] = "ack" \/ job[e].state = "completed" => row[e].file \/ ~HasRow(e)

(* A cancellation marks the row before it removes the job.                 *)
CancelInv(e) ==
    ~job[e].started /\ HasRow(e) /\ (cancelling[e] = "remove" \/ job[e].state = "removed")
        => row[e].status = "failed"

IInv ==
    /\ TypeOK
    /\ \A e \in Exports : QueueInv(e) /\ RowInv(e) /\ RetryInv(e) /\ FileInv(e) /\ CancelInv(e)

-----------------------------------------------------------------------------
(* Every action keeps the types.  The function that an action rewrites is   *)
(* typed in a step of its own.                                             *)
LEMMA TypeStep == TypeOK /\ [Next]_vars => TypeOK'
<1> SUFFICES ASSUME TypeOK, [Next]_vars PROVE TypeOK'
    OBVIOUS
<1>1. ASSUME NEW e \in Exports, CreateInsert(e) PROVE TypeOK'
  BY <1>1 DEF CreateInsert, TypeOK, Row, Job, PCs, TryPoints, CatchPoints,
         Status, JobStates, Report, NoRow, Types
<1>2. ASSUME NEW e \in Exports, CreateEnqueue(e) PROVE TypeOK'
  <2>0. job \in [Exports -> Job]
    BY DEF TypeOK
  <2>1. job' \in [Exports -> Job]
    BY <1>2, <2>0 DEF CreateEnqueue, Job, JobStates
  <2> QED
    BY <1>2, <2>1 DEF CreateEnqueue, TypeOK, PCs, TryPoints, CatchPoints
<1>3. ASSUME NEW e \in Exports, CancelCheck(e) PROVE TypeOK'
  BY <1>3 DEF CancelCheck, TypeOK, Row, Job, PCs, TryPoints, CatchPoints,
         Status, JobStates, Report, NoRow, Types
<1>4. ASSUME NEW e \in Exports, CancelMark(e) PROVE TypeOK'
  <2>0. row \in [Exports -> Row]
    BY DEF TypeOK
  <2>1. row' \in [Exports -> Row]
    BY <1>4, <2>0 DEF CancelMark, MarkAsFailed, HasRow, Row, Status
  <2> QED
    BY <1>4, <2>1 DEF CancelMark, TypeOK, PCs, TryPoints, CatchPoints
<1>5. ASSUME NEW e \in Exports, CancelRemove(e) PROVE TypeOK'
  <2>0. job \in [Exports -> Job]
    BY DEF TypeOK
  <2>1. job' \in [Exports -> Job]
    BY <1>5, <2>0 DEF CancelRemove, Job, JobStates
  <2> QED
    BY <1>5, <2>1 DEF CancelRemove, TypeOK, PCs, TryPoints, CatchPoints
<1>6. ASSUME NEW e \in Exports, Delete(e) PROVE TypeOK'
  BY <1>6 DEF Delete, HasRow, TypeOK, Row, Job, PCs, TryPoints, CatchPoints,
         Status, JobStates, Report, NoRow, Types
<1>7. ASSUME NEW e \in Exports, WorkerBegin(e) PROVE TypeOK'
  BY <1>7 DEF WorkerBegin, Goto, HasRow, TypeOK, Row, Job, PCs, TryPoints,
         CatchPoints, Status, JobStates, Report, NoRow, Types
<1>8. ASSUME NEW e \in Exports, WorkerMark(e) PROVE TypeOK'
  <2>0. row \in [Exports -> Row]
    BY DEF TypeOK
  <2>1. row' \in [Exports -> Row]
    BY <1>8, <2>0 DEF WorkerMark, Goto, SetStatus, HasRow, Row, Status
  <2> QED
    BY <1>8, <2>1 DEF WorkerMark, Goto, TypeOK, PCs, TryPoints, CatchPoints
<1>9. ASSUME NEW e \in Exports, WorkerMake(e) PROVE TypeOK'
  <2>0. late \in SUBSET Report
    BY DEF TypeOK
  <2>1. late' \in SUBSET Report
    BY <1>9, <2>0, TypeOfAssumption DEF WorkerMake, Goto, Report
  <2> QED
    BY <1>9, <2>1 DEF WorkerMake, Goto, TypeOK, PCs, TryPoints, CatchPoints
<1>10. ASSUME NEW e \in Exports, WorkerFinish(e) PROVE TypeOK'
  BY <1>10 DEF WorkerFinish, Goto, HasRow, TypeOK, Row, Job, PCs, TryPoints,
         CatchPoints, Status, JobStates, Report, NoRow, Types
<1>11. ASSUME NEW e \in Exports, WorkerStore(e) PROVE TypeOK'
  <2>0. row \in [Exports -> Row]
    BY DEF TypeOK
  <2>1. row' \in [Exports -> Row]
    BY <1>11, <2>0 DEF WorkerStore, Goto, HasRow, Row, Status
  <2> QED
    BY <1>11, <2>1 DEF WorkerStore, Goto, TypeOK, PCs, TryPoints, CatchPoints
<1>12. ASSUME NEW e \in Exports, WorkerAck(e) PROVE TypeOK'
  BY <1>12 DEF WorkerAck, Goto, TypeOK, Row, Job, PCs, TryPoints, CatchPoints,
         Status, JobStates, Report, NoRow, Types
<1>13. ASSUME NEW e \in Exports, FailExport(e) PROVE TypeOK'
  BY <1>13 DEF FailExport, Goto, HasRow, TypeOK, Row, Job, PCs, TryPoints,
         CatchPoints, Status, JobStates, Report, NoRow, Types
<1>14. ASSUME NEW e \in Exports, FailIncrement(e) PROVE TypeOK'
  <2>0. row \in [Exports -> Row]
    BY DEF TypeOK
  <2>1. row' \in [Exports -> Row]
    BY <1>14, <2>0 DEF FailIncrement, Goto, HasRow, Row, Status
  <2> QED
    BY <1>14, <2>1 DEF FailIncrement, Goto, TypeOK, PCs, TryPoints,
           CatchPoints
<1>15. ASSUME NEW e \in Exports, FailRequeue(e) PROVE TypeOK'
  <2>0. row \in [Exports -> Row]
    BY DEF TypeOK
  <2>1. row' \in [Exports -> Row]
    BY <1>15, <2>0 DEF FailRequeue, Goto, SetStatus, HasRow, Row, Status
  <2> QED
    BY <1>15, <2>1 DEF FailRequeue, Goto, TypeOK, PCs, TryPoints, CatchPoints
<1>16. ASSUME NEW e \in Exports, FailGiveUp(e) PROVE TypeOK'
  <2>0. row \in [Exports -> Row]
    BY DEF TypeOK
  <2>1. row' \in [Exports -> Row]
    BY <1>16, <2>0 DEF FailGiveUp, Goto, MarkAsFailed, HasRow, Row, Status
  <2> QED
    BY <1>16, <2>1 DEF FailGiveUp, Goto, TypeOK, PCs, TryPoints, CatchPoints
<1>17. ASSUME NEW e \in Exports, Reject(e) PROVE TypeOK'
  <2>0. job \in [Exports -> Job]
    BY DEF TypeOK
  <2>1. job' \in [Exports -> Job]
    <3>1. PICK s \in JobStates : job' = [job EXCEPT ![e].attempts = @ + 1, ![e].state = s]
      BY <1>17 DEF Reject, JobStates
    <3>2. [job EXCEPT ![e].attempts = @ + 1] \in [Exports -> Job]
      BY <2>0 DEF Job
    <3>3. job' = [[job EXCEPT ![e].attempts = @ + 1] EXCEPT ![e].state = s]
      BY <3>1
    <3> QED
      BY <3>2, <3>3 DEF Job
  <2> QED
    BY <1>17, <2>1 DEF Reject, Goto, TypeOK, PCs, TryPoints, CatchPoints
<1>18. ASSUME NEW e \in Exports, Take(e) PROVE TypeOK'
  <2>0. job \in [Exports -> Job]
    BY DEF TypeOK
  <2>1. job' \in [Exports -> Job]
    BY <1>18, <2>0 DEF Take, Goto, HasHandler, Job, JobStates
  <2> QED
    BY <1>18, <2>1 DEF Take, Goto, HasHandler, TypeOK, PCs, TryPoints,
           CatchPoints
<1>19. ASSUME NEW e \in Exports, Promote(e) PROVE TypeOK'
  BY <1>19 DEF Promote, TypeOK, Row, Job, PCs, TryPoints, CatchPoints, Status,
         JobStates, Report, NoRow, Types
<1>20. ASSUME NEW e \in Exports, Stalled(e) PROVE TypeOK'
  BY <1>20 DEF Stalled, Goto, TypeOK, Row, Job, PCs, TryPoints, CatchPoints,
         Status, JobStates, Report, NoRow, Types
<1>21. ASSUME NEW e \in Exports, WorkerThrow(e) PROVE TypeOK'
  BY <1>21 DEF WorkerThrow, Goto, TryPoints, CatchPoints, TypeOK, Row, Job,
         PCs, Status, JobStates, Report, NoRow, Types
<1>22. ASSUME NEW e \in Exports, PollRender(e) PROVE TypeOK'
  BY <1>22 DEF PollRender, TypeOK, Row, Job, PCs, TryPoints, CatchPoints,
         Status, JobStates, Report, NoRow, Types
<1>23. ASSUME NEW r \in late, ReportFind(r) PROVE TypeOK'
  <2>0. late \in SUBSET Report
    BY DEF TypeOK
  <2>1. late' \in SUBSET Report
    BY <1>23, <2>0 DEF ReportFind, ProcessDies, HasRow, Report
  <2> QED
    BY <1>23, <2>1 DEF ReportFind, ProcessDies, TypeOK, PCs, TryPoints,
           CatchPoints, Report
<1>24. ASSUME NEW r \in late, ReportWrite(r) PROVE TypeOK'
  <2>0. row \in [Exports -> Row] /\ late \in SUBSET Report
    BY DEF TypeOK
  <2>1. row' \in [Exports -> Row]
    BY <1>24, <2>0 DEF ReportWrite, SetStatus, ProcessDies, HasRow, Row,
           Status, Report
  <2> QED
    BY <1>24, <2>1 DEF ReportWrite, ProcessDies, TypeOK, PCs, TryPoints,
           CatchPoints, Report
<1>25. CASE Crash
  BY <1>25, MaxCrashesAssumption DEF Crash, ProcessDies, TypeOK, PCs
<1>26. CASE UNCHANGED vars
  BY <1>26 DEF vars, TypeOK
<1> QED
  BY <1>1, <1>2, <1>3, <1>4, <1>5, <1>6, <1>7, <1>8, <1>9, <1>10,
         <1>11, <1>12, <1>13, <1>14, <1>15, <1>16, <1>17, <1>18, <1>19, <1>20,
         <1>21, <1>22, <1>23, <1>24, <1>25, <1>26
     DEF Next, Worker, Bull, User

(* What a progress report does to the other exports, to queue and workers.  *)
LEMMA ReportWriteEffect ==
    ASSUME TypeOK, NEW r \in late, ReportWrite(r), NEW x \in Exports
    PROVE  /\ UNCHANGED <<job, crashes>>
           /\ late' \subseteq late
           /\ row'[x].file = row[x].file
           /\ row'[x].retryCount = row[x].retryCount
           /\ row'[x].error = row[x].error
           /\ \/ row'[x].status = row[x].status
              \/ r.export = x /\ HasRow(x) /\ row'[x].status = "processing"
           /\ \/ UNCHANGED <<pc, creating, cancelling>>
              \/ /\ pc'[x] = (IF pc[x] = "idle" THEN "idle" ELSE "dead")
                 /\ creating'[x] = (IF creating[x] = "enqueue" THEN "done" ELSE creating[x])
                 /\ cancelling'[x] = "no"
<1>1. row \in [Exports -> Row]
  BY DEF TypeOK
<1>2. CASE Storable(r.value)
  <2>1. /\ row' = IF HasRow(r.export) THEN [row EXCEPT ![r.export].status = "processing"] ELSE row
        /\ late' = late \ {r}
        /\ UNCHANGED <<job, crashes, pc, creating, cancelling>>
    BY <1>2 DEF ReportWrite, SetStatus
  <2>2. /\ row'[x].file = row[x].file
        /\ row'[x].retryCount = row[x].retryCount
        /\ row'[x].error = row[x].error
    BY <1>1, <2>1 DEF Row
  <2>3. \/ row'[x].status = row[x].status
        \/ r.export = x /\ HasRow(x) /\ row'[x].status = "processing"
    BY <1>1, <2>1 DEF Row
  <2> QED
    BY <2>1, <2>2, <2>3
<1>3. CASE ~Storable(r.value)
  BY <1>3 DEF ReportWrite, ProcessDies
<1> QED
  BY <1>2, <1>3

(* Queue and worker stay in agreement.                                     *)
LEMMA QueueStep ==
    ASSUME TypeOK, TypeOK', [Next]_vars,
           \A x \in Exports : QueueInv(x)
    PROVE  \A x \in Exports : QueueInv(x)'
<1> SUFFICES ASSUME NEW x \in Exports PROVE QueueInv(x)'
    OBVIOUS
<1> USE MaxAttemptsAssumption
<1>1. ASSUME NEW e \in Exports, CreateInsert(e) PROVE QueueInv(x)'
  BY <1>1 DEF CreateInsert, QueueInv, TypeOK, Row, Job, NoRow, NoJob, Report
<1>2. ASSUME NEW e \in Exports, CreateEnqueue(e) PROVE QueueInv(x)'
  BY <1>2 DEF CreateEnqueue, QueueInv, TypeOK, Row, Job, NoRow, NoJob, Report
<1>3. ASSUME NEW e \in Exports, CancelCheck(e) PROVE QueueInv(x)'
  BY <1>3 DEF CancelCheck, QueueInv, TypeOK, Row, Job, NoRow, NoJob, Report
<1>4. ASSUME NEW e \in Exports, CancelMark(e) PROVE QueueInv(x)'
  BY <1>4 DEF CancelMark, MarkAsFailed, HasRow, QueueInv, TypeOK, Row, Job,
         NoRow, NoJob, Report
<1>5. ASSUME NEW e \in Exports, CancelRemove(e) PROVE QueueInv(x)'
  BY <1>5 DEF CancelRemove, QueueInv, TypeOK, Row, Job, NoRow, NoJob, Report
<1>6. ASSUME NEW e \in Exports, Delete(e) PROVE QueueInv(x)'
  BY <1>6 DEF Delete, HasRow, QueueInv, TypeOK, Row, Job, NoRow, NoJob, Report
<1>7. ASSUME NEW e \in Exports, WorkerBegin(e) PROVE QueueInv(x)'
  BY <1>7 DEF WorkerBegin, Goto, HasRow, QueueInv, TypeOK, Row, Job, NoRow,
         NoJob, Report
<1>8. ASSUME NEW e \in Exports, WorkerMark(e) PROVE QueueInv(x)'
  BY <1>8 DEF WorkerMark, Goto, SetStatus, HasRow, QueueInv, TypeOK, Row, Job,
         NoRow, NoJob, Report
<1>9. ASSUME NEW e \in Exports, WorkerMake(e) PROVE QueueInv(x)'
  BY <1>9 DEF WorkerMake, Goto, QueueInv, TypeOK, Row, Job, NoRow, NoJob,
         Report
<1>10. ASSUME NEW e \in Exports, WorkerFinish(e) PROVE QueueInv(x)'
  BY <1>10 DEF WorkerFinish, Goto, HasRow, QueueInv, TypeOK, Row, Job, NoRow,
         NoJob, Report
<1>11. ASSUME NEW e \in Exports, WorkerStore(e) PROVE QueueInv(x)'
  BY <1>11 DEF WorkerStore, Goto, HasRow, QueueInv, TypeOK, Row, Job, NoRow,
         NoJob, Report
<1>12. ASSUME NEW e \in Exports, WorkerAck(e) PROVE QueueInv(x)'
  BY <1>12 DEF WorkerAck, Goto, QueueInv, TypeOK, Row, Job, NoRow, NoJob,
         Report
<1>13. ASSUME NEW e \in Exports, FailExport(e) PROVE QueueInv(x)'
  BY <1>13 DEF FailExport, Goto, HasRow, QueueInv, TypeOK, Row, Job, NoRow,
         NoJob, Report
<1>14. ASSUME NEW e \in Exports, FailIncrement(e) PROVE QueueInv(x)'
  BY <1>14 DEF FailIncrement, Goto, HasRow, QueueInv, TypeOK, Row, Job, NoRow,
         NoJob, Report
<1>15. ASSUME NEW e \in Exports, FailRequeue(e) PROVE QueueInv(x)'
  BY <1>15 DEF FailRequeue, Goto, SetStatus, HasRow, QueueInv, TypeOK, Row,
         Job, NoRow, NoJob, Report
<1>16. ASSUME NEW e \in Exports, FailGiveUp(e) PROVE QueueInv(x)'
  BY <1>16 DEF FailGiveUp, Goto, MarkAsFailed, HasRow, QueueInv, TypeOK, Row,
         Job, NoRow, NoJob, Report
<1>17. ASSUME NEW e \in Exports, Reject(e) PROVE QueueInv(x)'
  BY <1>17 DEF Reject, Goto, QueueInv, TypeOK, Row, Job, NoRow, NoJob, Report
<1>18. ASSUME NEW e \in Exports, Take(e) PROVE QueueInv(x)'
  BY <1>18 DEF Take, Goto, HasHandler, QueueInv, TypeOK, Row, Job, NoRow,
         NoJob, Report
<1>19. ASSUME NEW e \in Exports, Promote(e) PROVE QueueInv(x)'
  BY <1>19 DEF Promote, QueueInv, TypeOK, Row, Job, NoRow, NoJob, Report
<1>20. ASSUME NEW e \in Exports, Stalled(e) PROVE QueueInv(x)'
  BY <1>20 DEF Stalled, Goto, QueueInv, TypeOK, Row, Job, NoRow, NoJob, Report
<1>21. ASSUME NEW e \in Exports, WorkerThrow(e) PROVE QueueInv(x)'
  BY <1>21 DEF WorkerThrow, Goto, TryPoints, CatchPoints, QueueInv, TypeOK,
         Row, Job, NoRow, NoJob, Report
<1>22. ASSUME NEW e \in Exports, PollRender(e) PROVE QueueInv(x)'
  BY <1>22 DEF PollRender, QueueInv, TypeOK, Row, Job, NoRow, NoJob, Report
<1>23. ASSUME NEW r \in late, ReportFind(r) PROVE QueueInv(x)'
  BY <1>23 DEF ReportFind, ProcessDies, HasRow, QueueInv, TypeOK, Row, Job,
         NoRow, NoJob, Report
<1>24. ASSUME NEW r \in late, ReportWrite(r) PROVE QueueInv(x)'
  BY <1>24, ReportWriteEffect DEF QueueInv, TypeOK, Job
<1>25. CASE Crash
  BY <1>25 DEF Crash, ProcessDies, QueueInv, TypeOK, Row, Job, NoRow, NoJob,
         Report
<1>26. CASE UNCHANGED vars
  BY <1>26 DEF vars, QueueInv, TypeOK, Row, Job, NoRow, NoJob, Report
<1> QED
  BY <1>1, <1>2, <1>3, <1>4, <1>5, <1>6, <1>7, <1>8, <1>9, <1>10,
         <1>11, <1>12, <1>13, <1>14, <1>15, <1>16, <1>17, <1>18, <1>19, <1>20,
         <1>21, <1>22, <1>23, <1>24, <1>25, <1>26
     DEF Next, Worker, Bull, User

(* Rows are created once and written only while they are there.            *)
LEMMA RowStep ==
    ASSUME TypeOK, TypeOK', [Next]_vars,
           \A x \in Exports : RowInv(x)
    PROVE  \A x \in Exports : RowInv(x)'
<1> SUFFICES ASSUME NEW x \in Exports PROVE RowInv(x)'
    OBVIOUS
<1> USE MaxAttemptsAssumption
<1>1. ASSUME NEW e \in Exports, CreateInsert(e) PROVE RowInv(x)'
  BY <1>1 DEF CreateInsert, RowInv, TypeOK, Row, Job, NoRow, HasRow
<1>2. ASSUME NEW e \in Exports, CreateEnqueue(e) PROVE RowInv(x)'
  BY <1>2 DEF CreateEnqueue, RowInv, TypeOK, Row, Job, NoRow, HasRow
<1>3. ASSUME NEW e \in Exports, CancelCheck(e) PROVE RowInv(x)'
  BY <1>3 DEF CancelCheck, RowInv, TypeOK, Row, Job, NoRow, HasRow
<1>4. ASSUME NEW e \in Exports, CancelMark(e) PROVE RowInv(x)'
  BY <1>4 DEF CancelMark, MarkAsFailed, HasRow, RowInv, TypeOK, Row, Job,
         NoRow
<1>5. ASSUME NEW e \in Exports, CancelRemove(e) PROVE RowInv(x)'
  BY <1>5 DEF CancelRemove, RowInv, TypeOK, Row, Job, NoRow, HasRow
<1>6. ASSUME NEW e \in Exports, Delete(e) PROVE RowInv(x)'
  BY <1>6 DEF Delete, HasRow, RowInv, TypeOK, Row, Job, NoRow
<1>7. ASSUME NEW e \in Exports, WorkerBegin(e) PROVE RowInv(x)'
  BY <1>7 DEF WorkerBegin, Goto, HasRow, RowInv, TypeOK, Row, Job, NoRow
<1>8. ASSUME NEW e \in Exports, WorkerMark(e) PROVE RowInv(x)'
  BY <1>8 DEF WorkerMark, Goto, SetStatus, HasRow, RowInv, TypeOK, Row, Job,
         NoRow
<1>9. ASSUME NEW e \in Exports, WorkerMake(e) PROVE RowInv(x)'
  BY <1>9 DEF WorkerMake, Goto, RowInv, TypeOK, Row, Job, NoRow, HasRow
<1>10. ASSUME NEW e \in Exports, WorkerFinish(e) PROVE RowInv(x)'
  BY <1>10 DEF WorkerFinish, Goto, HasRow, RowInv, TypeOK, Row, Job, NoRow
<1>11. ASSUME NEW e \in Exports, WorkerStore(e) PROVE RowInv(x)'
  BY <1>11 DEF WorkerStore, Goto, HasRow, RowInv, TypeOK, Row, Job, NoRow
<1>12. ASSUME NEW e \in Exports, WorkerAck(e) PROVE RowInv(x)'
  BY <1>12 DEF WorkerAck, Goto, RowInv, TypeOK, Row, Job, NoRow, HasRow
<1>13. ASSUME NEW e \in Exports, FailExport(e) PROVE RowInv(x)'
  BY <1>13 DEF FailExport, Goto, HasRow, RowInv, TypeOK, Row, Job, NoRow
<1>14. ASSUME NEW e \in Exports, FailIncrement(e) PROVE RowInv(x)'
  BY <1>14 DEF FailIncrement, Goto, HasRow, RowInv, TypeOK, Row, Job, NoRow
<1>15. ASSUME NEW e \in Exports, FailRequeue(e) PROVE RowInv(x)'
  BY <1>15 DEF FailRequeue, Goto, SetStatus, HasRow, RowInv, TypeOK, Row, Job,
         NoRow
<1>16. ASSUME NEW e \in Exports, FailGiveUp(e) PROVE RowInv(x)'
  BY <1>16 DEF FailGiveUp, Goto, MarkAsFailed, HasRow, RowInv, TypeOK, Row,
         Job, NoRow
<1>17. ASSUME NEW e \in Exports, Reject(e) PROVE RowInv(x)'
  BY <1>17 DEF Reject, Goto, RowInv, TypeOK, Row, Job, NoRow, HasRow
<1>18. ASSUME NEW e \in Exports, Take(e) PROVE RowInv(x)'
  BY <1>18 DEF Take, Goto, HasHandler, RowInv, TypeOK, Row, Job, NoRow, HasRow
<1>19. ASSUME NEW e \in Exports, Promote(e) PROVE RowInv(x)'
  BY <1>19 DEF Promote, RowInv, TypeOK, Row, Job, NoRow, HasRow
<1>20. ASSUME NEW e \in Exports, Stalled(e) PROVE RowInv(x)'
  BY <1>20 DEF Stalled, Goto, RowInv, TypeOK, Row, Job, NoRow, HasRow
<1>21. ASSUME NEW e \in Exports, WorkerThrow(e) PROVE RowInv(x)'
  BY <1>21 DEF WorkerThrow, Goto, TryPoints, CatchPoints, RowInv, TypeOK, Row,
         Job, NoRow, HasRow
<1>22. ASSUME NEW e \in Exports, PollRender(e) PROVE RowInv(x)'
  BY <1>22 DEF PollRender, RowInv, TypeOK, Row, Job, NoRow, HasRow
<1>23. ASSUME NEW r \in late, ReportFind(r) PROVE RowInv(x)'
  BY <1>23 DEF ReportFind, ProcessDies, HasRow, RowInv, TypeOK, Row, Job,
         NoRow
<1>24. ASSUME NEW r \in late, ReportWrite(r) PROVE RowInv(x)'
  BY <1>24, ReportWriteEffect DEF RowInv, HasRow
<1>25. CASE Crash
  BY <1>25 DEF Crash, ProcessDies, RowInv, TypeOK, Row, Job, NoRow, HasRow
<1>26. CASE UNCHANGED vars
  BY <1>26 DEF vars, RowInv, TypeOK, Row, Job, NoRow, HasRow
<1> QED
  BY <1>1, <1>2, <1>3, <1>4, <1>5, <1>6, <1>7, <1>8, <1>9, <1>10,
         <1>11, <1>12, <1>13, <1>14, <1>15, <1>16, <1>17, <1>18, <1>19, <1>20,
         <1>21, <1>22, <1>23, <1>24, <1>25, <1>26
     DEF Next, Worker, Bull, User

(* The two retry counters stay in step.                                    *)
LEMMA RetryStep ==
    ASSUME TypeOK, TypeOK', [Next]_vars,
           \A x \in Exports : QueueInv(x), \A x \in Exports : RowInv(x), \A x \in Exports : RetryInv(x)
    PROVE  \A x \in Exports : RetryInv(x)'
<1> SUFFICES ASSUME NEW x \in Exports PROVE RetryInv(x)'
    OBVIOUS
<1> USE MaxAttemptsAssumption
<1>1. ASSUME NEW e \in Exports, CreateInsert(e) PROVE RetryInv(x)'
  BY <1>1 DEF CreateInsert, RetryInv, TypeOK, Row, Job, NoRow, QueueInv,
         RowInv, CountedRuns, HasRow, Report
<1>2. ASSUME NEW e \in Exports, CreateEnqueue(e) PROVE RetryInv(x)'
  BY <1>2 DEF CreateEnqueue, RetryInv, TypeOK, Row, Job, NoRow, QueueInv,
         RowInv, CountedRuns, HasRow, Report
<1>3. ASSUME NEW e \in Exports, CancelCheck(e) PROVE RetryInv(x)'
  BY <1>3 DEF CancelCheck, RetryInv, TypeOK, Row, Job, NoRow, QueueInv,
         RowInv, CountedRuns, HasRow, Report
<1>4. ASSUME NEW e \in Exports, CancelMark(e) PROVE RetryInv(x)'
  BY <1>4 DEF CancelMark, MarkAsFailed, HasRow, RetryInv, TypeOK, Row, Job,
         NoRow, QueueInv, RowInv, CountedRuns, Report
<1>5. ASSUME NEW e \in Exports, CancelRemove(e) PROVE RetryInv(x)'
  BY <1>5 DEF CancelRemove, RetryInv, TypeOK, Row, Job, NoRow, QueueInv,
         RowInv, CountedRuns, HasRow, Report
<1>6. ASSUME NEW e \in Exports, Delete(e) PROVE RetryInv(x)'
  BY <1>6 DEF Delete, HasRow, RetryInv, TypeOK, Row, Job, NoRow, QueueInv,
         RowInv, CountedRuns, Report
<1>7. ASSUME NEW e \in Exports, WorkerBegin(e) PROVE RetryInv(x)'
  BY <1>7 DEF WorkerBegin, Goto, HasRow, RetryInv, TypeOK, Row, Job, NoRow,
         QueueInv, RowInv, CountedRuns, Report
<1>8. ASSUME NEW e \in Exports, WorkerMark(e) PROVE RetryInv(x)'
  BY <1>8 DEF WorkerMark, Goto, SetStatus, HasRow, RetryInv, TypeOK, Row, Job,
         NoRow, QueueInv, RowInv, CountedRuns, Report
<1>9. ASSUME NEW e \in Exports, WorkerMake(e) PROVE RetryInv(x)'
  BY <1>9 DEF WorkerMake, Goto, RetryInv, TypeOK, Row, Job, NoRow, QueueInv,
         RowInv, CountedRuns, HasRow, Report
<1>10. ASSUME NEW e \in Exports, WorkerFinish(e) PROVE RetryInv(x)'
  BY <1>10 DEF WorkerFinish, Goto, HasRow, RetryInv, TypeOK, Row, Job, NoRow,
         QueueInv, RowInv, CountedRuns, Report
<1>11. ASSUME NEW e \in Exports, WorkerStore(e) PROVE RetryInv(x)'
  BY <1>11 DEF WorkerStore, Goto, HasRow, RetryInv, TypeOK, Row, Job, NoRow,
         QueueInv, RowInv, CountedRuns, Report
<1>12. ASSUME NEW e \in Exports, WorkerAck(e) PROVE RetryInv(x)'
  BY <1>12 DEF WorkerAck, Goto, RetryInv, TypeOK, Row, Job, NoRow, QueueInv,
         RowInv, CountedRuns, HasRow, Report
<1>13. ASSUME NEW e \in Exports, FailExport(e) PROVE RetryInv(x)'
  <2>1. CASE ~HasRow(e)
    BY <1>13, <2>1 DEF FailExport, Goto, HasRow, RetryInv, TypeOK, Row, Job,
           NoRow, QueueInv, RowInv, CountedRuns, Report
  <2>2. CASE HasRow(e) /\ row[e].retryCount < MaxAttempts
    BY <1>13, <2>2 DEF FailExport, Goto, HasRow, RetryInv, TypeOK, Row, Job,
           NoRow, QueueInv, RowInv, CountedRuns, Report
  <2>3. CASE HasRow(e) /\ ~(row[e].retryCount < MaxAttempts)
    <3>1. row[e].retryCount \in Nat /\ row[e].retryCount <= MaxAttempts
      BY DEF RetryInv, TypeOK, Row
    <3>2. row[e].retryCount = MaxAttempts
      BY <2>3, <3>1
    <3> QED
      BY <1>13, <2>3, <3>2 DEF FailExport, Goto, HasRow, RetryInv, TypeOK,
             Row, Job, NoRow, QueueInv, RowInv, CountedRuns, Report
  <2> QED
    BY <2>1, <2>2, <2>3
<1>14. ASSUME NEW e \in Exports, FailIncrement(e) PROVE RetryInv(x)'
  BY <1>14 DEF FailIncrement, Goto, HasRow, RetryInv, TypeOK, Row, Job, NoRow,
         QueueInv, RowInv, CountedRuns, Report
<1>15. ASSUME NEW e \in Exports, FailRequeue(e) PROVE RetryInv(x)'
  BY <1>15 DEF FailRequeue, Goto, SetStatus, HasRow, RetryInv, TypeOK, Row,
         Job, NoRow, QueueInv, RowInv, CountedRuns, Report
<1>16. ASSUME NEW e \in Exports, FailGiveUp(e) PROVE RetryInv(x)'
  BY <1>16 DEF FailGiveUp, Goto, MarkAsFailed, HasRow, RetryInv, TypeOK, Row,
         Job, NoRow, QueueInv, RowInv, CountedRuns, Report
<1>17. ASSUME NEW e \in Exports, Reject(e) PROVE RetryInv(x)'
  BY <1>17 DEF Reject, Goto, RetryInv, TypeOK, Row, Job, NoRow, QueueInv,
         RowInv, CountedRuns, HasRow, Report
<1>18. ASSUME NEW e \in Exports, Take(e) PROVE RetryInv(x)'
  BY <1>18 DEF Take, Goto, HasHandler, RetryInv, TypeOK, Row, Job, NoRow,
         QueueInv, RowInv, CountedRuns, HasRow, Report
<1>19. ASSUME NEW e \in Exports, Promote(e) PROVE RetryInv(x)'
  BY <1>19 DEF Promote, RetryInv, TypeOK, Row, Job, NoRow, QueueInv, RowInv,
         CountedRuns, HasRow, Report
<1>20. ASSUME NEW e \in Exports, Stalled(e) PROVE RetryInv(x)'
  BY <1>20 DEF Stalled, Goto, RetryInv, TypeOK, Row, Job, NoRow, QueueInv,
         RowInv, CountedRuns, HasRow, Report
<1>21. ASSUME NEW e \in Exports, WorkerThrow(e) PROVE RetryInv(x)'
  BY <1>21 DEF WorkerThrow, Goto, TryPoints, CatchPoints, RetryInv, TypeOK,
         Row, Job, NoRow, QueueInv, RowInv, CountedRuns, HasRow, Report
<1>22. ASSUME NEW e \in Exports, PollRender(e) PROVE RetryInv(x)'
  BY <1>22 DEF PollRender, RetryInv, TypeOK, Row, Job, NoRow, QueueInv,
         RowInv, CountedRuns, HasRow, Report
<1>23. ASSUME NEW r \in late, ReportFind(r) PROVE RetryInv(x)'
  BY <1>23 DEF ReportFind, ProcessDies, HasRow, RetryInv, TypeOK, Row, Job,
         NoRow, QueueInv, RowInv, CountedRuns, Report
<1>24. ASSUME NEW r \in late, ReportWrite(r) PROVE RetryInv(x)'
  <2>1. row'[x].retryCount = row[x].retryCount /\ row'[x].error = row[x].error
    BY <1>24, ReportWriteEffect
  <2>2. /\ UNCHANGED job
        /\ (HasRow(x) <=> HasRow(x)')
        /\ UNCHANGED pc \/ pc'[x] = (IF pc[x] = "idle" THEN "idle" ELSE "dead")
    BY <1>24, ReportWriteEffect DEF HasRow
  <2>3. /\ row[x].retryCount \in Nat
        /\ job[x].attempts \in Nat
        /\ job[x].stalled \in Nat
    BY DEF TypeOK, Row, Job
  <2> QED
    BY <2>1, <2>2, <2>3 DEF RetryInv, CountedRuns
<1>25. CASE Crash
  BY <1>25 DEF Crash, ProcessDies, RetryInv, TypeOK, Row, Job, NoRow,
         QueueInv, RowInv, CountedRuns, HasRow, Report
<1>26. CASE UNCHANGED vars
  BY <1>26 DEF vars, RetryInv, TypeOK, Row, Job, NoRow, QueueInv, RowInv,
         CountedRuns, HasRow, Report
<1> QED
  BY <1>1, <1>2, <1>3, <1>4, <1>5, <1>6, <1>7, <1>8, <1>9, <1>10,
         <1>11, <1>12, <1>13, <1>14, <1>15, <1>16, <1>17, <1>18, <1>19, <1>20,
         <1>21, <1>22, <1>23, <1>24, <1>25, <1>26
     DEF Next, Worker, Bull, User

(* No step separates a finished export from its file.                      *)
LEMMA FileStep ==
    ASSUME TypeOK, TypeOK', [Next]_vars,
           \A x \in Exports : QueueInv(x), \A x \in Exports : RowInv(x), \A x \in Exports : FileInv(x)
    PROVE  \A x \in Exports : FileInv(x)'
<1> SUFFICES ASSUME NEW x \in Exports PROVE FileInv(x)'
    OBVIOUS
<1> USE MaxAttemptsAssumption
<1>1. ASSUME NEW e \in Exports, CreateInsert(e) PROVE FileInv(x)'
  BY <1>1 DEF CreateInsert, FileInv, TypeOK, Row, Job, NoRow, QueueInv,
         RowInv, HasRow, Report
<1>2. ASSUME NEW e \in Exports, CreateEnqueue(e) PROVE FileInv(x)'
  BY <1>2 DEF CreateEnqueue, FileInv, TypeOK, Row, Job, NoRow, QueueInv,
         RowInv, HasRow, Report
<1>3. ASSUME NEW e \in Exports, CancelCheck(e) PROVE FileInv(x)'
  BY <1>3 DEF CancelCheck, FileInv, TypeOK, Row, Job, NoRow, QueueInv, RowInv,
         HasRow, Report
<1>4. ASSUME NEW e \in Exports, CancelMark(e) PROVE FileInv(x)'
  BY <1>4 DEF CancelMark, MarkAsFailed, HasRow, FileInv, TypeOK, Row, Job,
         NoRow, QueueInv, RowInv, Report
<1>5. ASSUME NEW e \in Exports, CancelRemove(e) PROVE FileInv(x)'
  BY <1>5 DEF CancelRemove, FileInv, TypeOK, Row, Job, NoRow, QueueInv,
         RowInv, HasRow, Report
<1>6. ASSUME NEW e \in Exports, Delete(e) PROVE FileInv(x)'
  BY <1>6 DEF Delete, HasRow, FileInv, TypeOK, Row, Job, NoRow, QueueInv,
         RowInv, Report
<1>7. ASSUME NEW e \in Exports, WorkerBegin(e) PROVE FileInv(x)'
  BY <1>7 DEF WorkerBegin, Goto, HasRow, FileInv, TypeOK, Row, Job, NoRow,
         QueueInv, RowInv, Report
<1>8. ASSUME NEW e \in Exports, WorkerMark(e) PROVE FileInv(x)'
  BY <1>8 DEF WorkerMark, Goto, SetStatus, HasRow, FileInv, TypeOK, Row, Job,
         NoRow, QueueInv, RowInv, Report
<1>9. ASSUME NEW e \in Exports, WorkerMake(e) PROVE FileInv(x)'
  BY <1>9 DEF WorkerMake, Goto, FileInv, TypeOK, Row, Job, NoRow, QueueInv,
         RowInv, HasRow, Report
<1>10. ASSUME NEW e \in Exports, WorkerFinish(e) PROVE FileInv(x)'
  BY <1>10 DEF WorkerFinish, Goto, HasRow, FileInv, TypeOK, Row, Job, NoRow,
         QueueInv, RowInv, Report
<1>11. ASSUME NEW e \in Exports, WorkerStore(e) PROVE FileInv(x)'
  BY <1>11 DEF WorkerStore, Goto, HasRow, FileInv, TypeOK, Row, Job, NoRow,
         QueueInv, RowInv, Report
<1>12. ASSUME NEW e \in Exports, WorkerAck(e) PROVE FileInv(x)'
  BY <1>12 DEF WorkerAck, Goto, FileInv, TypeOK, Row, Job, NoRow, QueueInv,
         RowInv, HasRow, Report
<1>13. ASSUME NEW e \in Exports, FailExport(e) PROVE FileInv(x)'
  BY <1>13 DEF FailExport, Goto, HasRow, FileInv, TypeOK, Row, Job, NoRow,
         QueueInv, RowInv, Report
<1>14. ASSUME NEW e \in Exports, FailIncrement(e) PROVE FileInv(x)'
  BY <1>14 DEF FailIncrement, Goto, HasRow, FileInv, TypeOK, Row, Job, NoRow,
         QueueInv, RowInv, Report
<1>15. ASSUME NEW e \in Exports, FailRequeue(e) PROVE FileInv(x)'
  BY <1>15 DEF FailRequeue, Goto, SetStatus, HasRow, FileInv, TypeOK, Row,
         Job, NoRow, QueueInv, RowInv, Report
<1>16. ASSUME NEW e \in Exports, FailGiveUp(e) PROVE FileInv(x)'
  BY <1>16 DEF FailGiveUp, Goto, MarkAsFailed, HasRow, FileInv, TypeOK, Row,
         Job, NoRow, QueueInv, RowInv, Report
<1>17. ASSUME NEW e \in Exports, Reject(e) PROVE FileInv(x)'
  BY <1>17 DEF Reject, Goto, FileInv, TypeOK, Row, Job, NoRow, QueueInv,
         RowInv, HasRow, Report
<1>18. ASSUME NEW e \in Exports, Take(e) PROVE FileInv(x)'
  BY <1>18 DEF Take, Goto, HasHandler, FileInv, TypeOK, Row, Job, NoRow,
         QueueInv, RowInv, HasRow, Report
<1>19. ASSUME NEW e \in Exports, Promote(e) PROVE FileInv(x)'
  BY <1>19 DEF Promote, FileInv, TypeOK, Row, Job, NoRow, QueueInv, RowInv,
         HasRow, Report
<1>20. ASSUME NEW e \in Exports, Stalled(e) PROVE FileInv(x)'
  BY <1>20 DEF Stalled, Goto, FileInv, TypeOK, Row, Job, NoRow, QueueInv,
         RowInv, HasRow, Report
<1>21. ASSUME NEW e \in Exports, WorkerThrow(e) PROVE FileInv(x)'
  BY <1>21 DEF WorkerThrow, Goto, TryPoints, CatchPoints, FileInv, TypeOK,
         Row, Job, NoRow, QueueInv, RowInv, HasRow, Report
<1>22. ASSUME NEW e \in Exports, PollRender(e) PROVE FileInv(x)'
  BY <1>22 DEF PollRender, FileInv, TypeOK, Row, Job, NoRow, QueueInv, RowInv,
         HasRow, Report
<1>23. ASSUME NEW r \in late, ReportFind(r) PROVE FileInv(x)'
  BY <1>23 DEF ReportFind, ProcessDies, HasRow, FileInv, TypeOK, Row, Job,
         NoRow, QueueInv, RowInv, Report
<1>24. ASSUME NEW r \in late, ReportWrite(r) PROVE FileInv(x)'
  BY <1>24, ReportWriteEffect DEF FileInv, HasRow
<1>25. CASE Crash
  BY <1>25 DEF Crash, ProcessDies, FileInv, TypeOK, Row, Job, NoRow, QueueInv,
         RowInv, HasRow, Report
<1>26. CASE UNCHANGED vars
  BY <1>26 DEF vars, FileInv, TypeOK, Row, Job, NoRow, QueueInv, RowInv,
         HasRow, Report
<1> QED
  BY <1>1, <1>2, <1>3, <1>4, <1>5, <1>6, <1>7, <1>8, <1>9, <1>10,
         <1>11, <1>12, <1>13, <1>14, <1>15, <1>16, <1>17, <1>18, <1>19, <1>20,
         <1>21, <1>22, <1>23, <1>24, <1>25, <1>26
     DEF Next, Worker, Bull, User

(* Nothing writes the row of an export that was cancelled before it started.*)
LEMMA CancelStep ==
    ASSUME TypeOK, TypeOK', [Next]_vars,
           \A x \in Exports : QueueInv(x), \A x \in Exports : RowInv(x), \A x \in Exports : CancelInv(x)
    PROVE  \A x \in Exports : CancelInv(x)'
<1> SUFFICES ASSUME NEW x \in Exports PROVE CancelInv(x)'
    OBVIOUS
<1> USE MaxAttemptsAssumption
<1>1. ASSUME NEW e \in Exports, CreateInsert(e) PROVE CancelInv(x)'
  BY <1>1 DEF CreateInsert, CancelInv, TypeOK, Row, Job, NoRow, QueueInv,
         RowInv, HasRow, Report
<1>2. ASSUME NEW e \in Exports, CreateEnqueue(e) PROVE CancelInv(x)'
  BY <1>2 DEF CreateEnqueue, CancelInv, TypeOK, Row, Job, NoRow, QueueInv,
         RowInv, HasRow, Report
<1>3. ASSUME NEW e \in Exports, CancelCheck(e) PROVE CancelInv(x)'
  BY <1>3 DEF CancelCheck, CancelInv, TypeOK, Row, Job, NoRow, QueueInv,
         RowInv, HasRow, Report
<1>4. ASSUME NEW e \in Exports, CancelMark(e) PROVE CancelInv(x)'
  BY <1>4 DEF CancelMark, MarkAsFailed, HasRow, CancelInv, TypeOK, Row, Job,
         NoRow, QueueInv, RowInv, Report
<1>5. ASSUME NEW e \in Exports, CancelRemove(e) PROVE CancelInv(x)'
  BY <1>5 DEF CancelRemove, CancelInv, TypeOK, Row, Job, NoRow, QueueInv,
         RowInv, HasRow, Report
<1>6. ASSUME NEW e \in Exports, Delete(e) PROVE CancelInv(x)'
  BY <1>6 DEF Delete, HasRow, CancelInv, TypeOK, Row, Job, NoRow, QueueInv,
         RowInv, Report
<1>7. ASSUME NEW e \in Exports, WorkerBegin(e) PROVE CancelInv(x)'
  BY <1>7 DEF WorkerBegin, Goto, HasRow, CancelInv, TypeOK, Row, Job, NoRow,
         QueueInv, RowInv, Report
<1>8. ASSUME NEW e \in Exports, WorkerMark(e) PROVE CancelInv(x)'
  BY <1>8 DEF WorkerMark, Goto, SetStatus, HasRow, CancelInv, TypeOK, Row,
         Job, NoRow, QueueInv, RowInv, Report
<1>9. ASSUME NEW e \in Exports, WorkerMake(e) PROVE CancelInv(x)'
  BY <1>9 DEF WorkerMake, Goto, CancelInv, TypeOK, Row, Job, NoRow, QueueInv,
         RowInv, HasRow, Report
<1>10. ASSUME NEW e \in Exports, WorkerFinish(e) PROVE CancelInv(x)'
  BY <1>10 DEF WorkerFinish, Goto, HasRow, CancelInv, TypeOK, Row, Job, NoRow,
         QueueInv, RowInv, Report
<1>11. ASSUME NEW e \in Exports, WorkerStore(e) PROVE CancelInv(x)'
  BY <1>11 DEF WorkerStore, Goto, HasRow, CancelInv, TypeOK, Row, Job, NoRow,
         QueueInv, RowInv, Report
<1>12. ASSUME NEW e \in Exports, WorkerAck(e) PROVE CancelInv(x)'
  BY <1>12 DEF WorkerAck, Goto, CancelInv, TypeOK, Row, Job, NoRow, QueueInv,
         RowInv, HasRow, Report
<1>13. ASSUME NEW e \in Exports, FailExport(e) PROVE CancelInv(x)'
  BY <1>13 DEF FailExport, Goto, HasRow, CancelInv, TypeOK, Row, Job, NoRow,
         QueueInv, RowInv, Report
<1>14. ASSUME NEW e \in Exports, FailIncrement(e) PROVE CancelInv(x)'
  BY <1>14 DEF FailIncrement, Goto, HasRow, CancelInv, TypeOK, Row, Job,
         NoRow, QueueInv, RowInv, Report
<1>15. ASSUME NEW e \in Exports, FailRequeue(e) PROVE CancelInv(x)'
  BY <1>15 DEF FailRequeue, Goto, SetStatus, HasRow, CancelInv, TypeOK, Row,
         Job, NoRow, QueueInv, RowInv, Report
<1>16. ASSUME NEW e \in Exports, FailGiveUp(e) PROVE CancelInv(x)'
  BY <1>16 DEF FailGiveUp, Goto, MarkAsFailed, HasRow, CancelInv, TypeOK, Row,
         Job, NoRow, QueueInv, RowInv, Report
<1>17. ASSUME NEW e \in Exports, Reject(e) PROVE CancelInv(x)'
  BY <1>17 DEF Reject, Goto, CancelInv, TypeOK, Row, Job, NoRow, QueueInv,
         RowInv, HasRow, Report
<1>18. ASSUME NEW e \in Exports, Take(e) PROVE CancelInv(x)'
  BY <1>18 DEF Take, Goto, HasHandler, CancelInv, TypeOK, Row, Job, NoRow,
         QueueInv, RowInv, HasRow, Report
<1>19. ASSUME NEW e \in Exports, Promote(e) PROVE CancelInv(x)'
  BY <1>19 DEF Promote, CancelInv, TypeOK, Row, Job, NoRow, QueueInv, RowInv,
         HasRow, Report
<1>20. ASSUME NEW e \in Exports, Stalled(e) PROVE CancelInv(x)'
  BY <1>20 DEF Stalled, Goto, CancelInv, TypeOK, Row, Job, NoRow, QueueInv,
         RowInv, HasRow, Report
<1>21. ASSUME NEW e \in Exports, WorkerThrow(e) PROVE CancelInv(x)'
  BY <1>21 DEF WorkerThrow, Goto, TryPoints, CatchPoints, CancelInv, TypeOK,
         Row, Job, NoRow, QueueInv, RowInv, HasRow, Report
<1>22. ASSUME NEW e \in Exports, PollRender(e) PROVE CancelInv(x)'
  BY <1>22 DEF PollRender, CancelInv, TypeOK, Row, Job, NoRow, QueueInv,
         RowInv, HasRow, Report
<1>23. ASSUME NEW r \in late, ReportFind(r) PROVE CancelInv(x)'
  BY <1>23 DEF ReportFind, ProcessDies, HasRow, CancelInv, TypeOK, Row, Job,
         NoRow, QueueInv, RowInv, Report
<1>24. ASSUME NEW r \in late, ReportWrite(r) PROVE CancelInv(x)'
  BY <1>24, ReportWriteEffect DEF CancelInv, QueueInv, HasRow
<1>25. CASE Crash
  BY <1>25 DEF Crash, ProcessDies, CancelInv, TypeOK, Row, Job, NoRow,
         QueueInv, RowInv, HasRow, Report
<1>26. CASE UNCHANGED vars
  BY <1>26 DEF vars, CancelInv, TypeOK, Row, Job, NoRow, QueueInv, RowInv,
         HasRow, Report
<1> QED
  BY <1>1, <1>2, <1>3, <1>4, <1>5, <1>6, <1>7, <1>8, <1>9, <1>10,
         <1>11, <1>12, <1>13, <1>14, <1>15, <1>16, <1>17, <1>18, <1>19, <1>20,
         <1>21, <1>22, <1>23, <1>24, <1>25, <1>26
     DEF Next, Worker, Bull, User

-----------------------------------------------------------------------------
(* The initial states satisfy the invariant.                               *)
LEMMA InitIInv == Init => IInv
<1> SUFFICES ASSUME Init PROVE IInv
    OBVIOUS
<1> USE MaxAttemptsAssumption, MaxCrashesAssumption DEF Init, NoRow, NoJob
<1>1. TypeOK
  BY DEF TypeOK, Row, Job, PCs, JobStates, Report
<1>2. ASSUME NEW e \in Exports
      PROVE  QueueInv(e) /\ RowInv(e) /\ RetryInv(e) /\ FileInv(e) /\ CancelInv(e)
  BY DEF QueueInv, RowInv, RetryInv, CountedRuns, FileInv, CancelInv, HasRow
<1> QED
  BY <1>1, <1>2 DEF IInv

(* The invariant is inductive: this rests on the six lemmas above.         *)
THEOREM Invariance == Spec => []IInv
<1>1. IInv /\ [Next]_vars => IInv'
  BY TypeStep, QueueStep, RowStep, RetryStep, FileStep, CancelStep DEF IInv
<1> QED
  BY InitIInv, <1>1, PTL DEF Spec

(* The types of all variables.                                             *)
THEOREM TypesCorrect == Spec => []TypeOK
<1>1. IInv => TypeOK
  BY DEF IInv
<1> QED
  BY Invariance, <1>1, PTL

(* A completed export has its file: completeExport writes both at once and *)
(* neither late reports nor retries nor a cancellation take it away.       *)
THEOREM DeliveredHasFileAlways == Spec => []DeliveredHasFile
<1>1. IInv => DeliveredHasFile
  BY DEF IInv, FileInv, DeliveredHasFile, HasRow
<1> QED
  BY Invariance, <1>1, PTL

(* failExport counts no run of the handler twice, for any limits.          *)
THEOREM RetriesAccountedAlways == Spec => []RetriesAccounted
<1>1. IInv => RetriesAccounted
  BY DEF IInv, RetryInv, RetriesAccounted
<1> QED
  BY Invariance, <1>1, PTL

(* failExport gives an export up only if the queue ran its job once more   *)
(* than its attempts, after a stall.                                       *)
THEOREM GivesUpOnlyAfterStallAlways == Spec => []GivesUpOnlyAfterStall
<1>1. IInv => GivesUpOnlyAfterStall
  BY DEF IInv, RetryInv, GivesUpOnlyAfterStall
<1> QED
  BY Invariance, <1>1, PTL

(* An export cancelled before a worker took it stays cancelled.            *)
THEOREM CancelBeforeStartSticksAlways == Spec => []CancelBeforeStartSticks
<1>1. IInv => CancelBeforeStartSticks
  BY DEF IInv, CancelInv, CancelBeforeStartSticks
<1> QED
  BY Invariance, <1>1, PTL
=============================================================================
