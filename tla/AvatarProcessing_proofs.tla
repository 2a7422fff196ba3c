----------------------- MODULE AvatarProcessing_proofs -----------------------
(* Theorems about AvatarProcessing, for any numbers of API calls, jobs,    *)
(* attempts, processors, faults and crashes.                               *)
EXTENDS AvatarProcessing, FiniteSetTheorems, TLAPS

-----------------------------------------------------------------------------
(* A processor works on a job only while the queue counts it as active,    *)
(* and nothing works on a job that was never added.                        *)
QueueInv(j) ==
    /\ pc[j] # "idle" => job[j].state = "active"
    /\ job[j].state = "none" => record[j] = "none"

(* Before the avatar there are no calls that go on and no jobs; a hard     *)
(* deletion leaves no row.                                                 *)
RowInv ==
    /\ deletion = "hard" => ~Exists
    /\ ~Exists /\ deletion = "no" =>
         (\A c \in Clients : call[c] = "idle") /\ (\A j \in Jobs : job[j].state = "none")

(* What the property says of one job.                                      *)
OwnInv(j) ==
    /\ record[j] = "failed" => \/ pc[j] \in {"reject", "dead"}
                              \/ job[j].attempts + job[j].stalled > 0
                              \/ job[j].state = "removed"
    /\ record[j] = "processing" =>
         pc[j] \in {"error", "failRecord"} \/ deletion # "no" \/ faults + crashes > 0

(* The clients that may still add a job without the processor writing      *)
(* ERROR again: those on the way to it, and, while the status lets them,   *)
(* those who have not started.  Each of them and each job added has one of *)
(* the chances there were: one for each client at the creation and with    *)
(* each error.                                                             *)
Asking == {"upload", "measure", "findPhotos", "findMeasurement", "enqueuePhotos", "enqueueManual"}
MayStart == status # "processing" /\ deletion = "no"
Able == {c \in Clients : call[c] \in Asking \/ (MayStart /\ call[c] \in {"idle", "deletePhoto"})}
AccountInv ==
    announced /\ errors < Cardinality(Jobs) =>
        Cardinality(Added) + Cardinality(Able) <= Cardinality(Clients) * (1 + errors)

IInv ==
    /\ TypeOK
    /\ RowInv
    /\ \A j \in Jobs : QueueInv(j) /\ OwnInv(j)
    /\ AccountInv

-----------------------------------------------------------------------------
(* The numbers.                                                            *)
LEMMA JobsCount == Cardinality(Jobs) \in Nat /\ Cardinality(Clients) \in Nat /\ Cardinality(Clients) > 0
    BY BoundsAssumption, FS_CardinalityType, FS_EmptySet

(* What is counted is finite.                                              *)
LEMMA Finite == /\ IsFiniteSet(Added) /\ Cardinality(Added) \in Nat /\ Cardinality(Added) <= Cardinality(Jobs)
                /\ IsFiniteSet(Able) /\ Cardinality(Able) \in Nat
<1>1. Added \subseteq Jobs /\ Able \subseteq Clients
    BY DEF Added, Able
<1> QED BY <1>1, BoundsAssumption, FS_Subset, FS_CardinalityType

(* The same of the next state.                                             *)
LEMMA FinitePrimed == /\ IsFiniteSet(Added') /\ Cardinality(Added') \in Nat
                      /\ IsFiniteSet(Able') /\ Cardinality(Able') \in Nat
<1>1. Added' \subseteq Jobs /\ Able' \subseteq Clients
    BY DEF Added, Able
<1> QED BY <1>1, BoundsAssumption, FS_Subset, FS_CardinalityType

(* Every action keeps the types; the job table, whose records are updated  *)
(* in place, in a step of its own.                                         *)
LEMMA TypeStep == TypeOK /\ [Next]_vars => TypeOK'
<1> SUFFICES ASSUME TypeOK, [Next]_vars PROVE TypeOK'
    OBVIOUS
<1>1. ASSUME NEW c \in Clients, CreateAvatar(c) PROVE TypeOK'
    BY <1>1 DEF CreateAvatar, Proceed, history, budget, TypeOK, PCs, Stages
<1>2. ASSUME NEW c \in Clients, UploadPhotos(c) PROVE TypeOK'
    BY <1>2 DEF UploadPhotos, Proceed, history, budget, TypeOK, PCs, Stages
<1>3. ASSUME NEW c \in Clients, CreateMeasurement(c) PROVE TypeOK'
    BY <1>3 DEF CreateMeasurement, Proceed, history, budget, TypeOK, PCs, Stages
<1>4. ASSUME NEW c \in Clients, RetryCheck(c) PROVE TypeOK'
    BY <1>4 DEF RetryCheck, Proceed, rows, history, budget, TypeOK, PCs, Stages
<1>5. ASSUME NEW c \in Clients, FindPhotos(c) PROVE TypeOK'
    BY <1>5 DEF FindPhotos, Proceed, rows, history, budget, TypeOK, PCs, Stages
<1>6. ASSUME NEW c \in Clients, RegenerateCheck(c) PROVE TypeOK'
    BY <1>6 DEF RegenerateCheck, Proceed, rows, history, budget, TypeOK, PCs, Stages
<1>7. ASSUME NEW c \in Clients, FindMeasurement(c) PROVE TypeOK'
    BY <1>7 DEF FindMeasurement, Proceed, rows, history, budget, TypeOK, PCs, Stages
<1>8. ASSUME NEW c \in Clients, Enqueue(c) PROVE TypeOK'
    <2> DEFINE p == call[c] = "enqueuePhotos"
    <2>1. \/ \E j \in Jobs : job' = [job EXCEPT ![j].state = "waiting", ![j].photos = p]
          \/ UNCHANGED job
        BY <1>8 DEF Enqueue
    <2>2. job \in [Jobs -> Job] /\ p \in BOOLEAN
        BY DEF TypeOK
    <2>3. ASSUME NEW j \in Jobs, NEW b \in BOOLEAN,
                 job' = [job EXCEPT ![j].state = "waiting", ![j].photos = b]
          PROVE  job' \in [Jobs -> Job]
        BY <2>2, <2>3 DEF Job, JobStates
    <2>4. UNCHANGED <<rows, pc, record, history, budget>> /\ Proceed(c, "announce")
        BY <1>8 DEF Enqueue
    <2> HIDE DEF p
    <2>5. job' \in [Jobs -> Job]
        BY <2>1, <2>2, <2>3, Zenon
    <2> QED BY <2>4, <2>5 DEF Proceed, TypeOK, Stages, rows, history, budget
<1>9. ASSUME NEW c \in Clients, Announce(c) PROVE TypeOK'
    BY <1>9 DEF Announce, Proceed, SetStatus, history, budget, TypeOK, PCs, Stages
<1>10. ASSUME NEW c \in Clients, DeletePhotoCheck(c) PROVE TypeOK'
    BY <1>10 DEF DeletePhotoCheck, Proceed, rows, history, budget, TypeOK, PCs, Stages
<1>11. ASSUME NEW c \in Clients, DeletePhoto(c) PROVE TypeOK'
    BY <1>11 DEF DeletePhoto, Proceed, history, budget, TypeOK, PCs, Stages
<1>12. ASSUME NEW c \in Clients, CallFails(c) PROVE TypeOK'
    BY <1>12 DEF CallFails, Proceed, history, budget, TypeOK, PCs, Stages
<1>13. ASSUME NEW j \in Jobs, CancelJob(j) PROVE TypeOK'
    <2>1. job' \in [Jobs -> Job]
        BY <1>13 DEF CancelJob, TypeOK, Job, JobStates
    <2> QED BY <1>13, <2>1 DEF CancelJob, Goto, rows, history, budget, TypeOK, PCs
<1>14. ASSUME NEW j \in Jobs, Take(j) PROVE TypeOK'
    <2>1. job' \in [Jobs -> Job]
        BY <1>14 DEF Take, TypeOK, Job, JobStates
    <2> QED BY <1>14, <2>1 DEF Take, Goto, rows, history, budget, TypeOK, PCs
<1>15. ASSUME NEW j \in Jobs, WorkerRecord(j) PROVE TypeOK'
    BY <1>15 DEF WorkerRecord, Goto, rows, history, budget, TypeOK, PCs, Stages
<1>16. ASSUME NEW j \in Jobs, WorkerError(j) PROVE TypeOK'
    <2>1. errors' \in 0..Cardinality(Jobs)
        BY <1>16, JobsCount DEF WorkerError, CountedUp, TypeOK
    <2> QED BY <1>16, <2>1 DEF WorkerError, Goto, SetStatus, budget, TypeOK, PCs
<1>17. ASSUME NEW j \in Jobs, WorkerFailRecord(j) PROVE TypeOK'
    BY <1>17 DEF WorkerFailRecord, Goto, rows, history, budget, TypeOK, PCs, Stages
<1>18. ASSUME NEW j \in Jobs, Reject(j) PROVE TypeOK'
    <2>1. PICK s \in JobStates : job' = [job EXCEPT ![j].attempts = @ + 1, ![j].state = s]
        BY <1>18 DEF Reject, JobStates
    <2>2. [job EXCEPT ![j].attempts = @ + 1] \in [Jobs -> Job]
        BY DEF TypeOK, Job
    <2>3. job' = [[job EXCEPT ![j].attempts = @ + 1] EXCEPT ![j].state = s]
        BY <2>1
    <2>4. job' \in [Jobs -> Job]
        BY <2>2, <2>3 DEF Job
    <2> QED BY <1>18, <2>4 DEF Reject, Goto, rows, history, budget, TypeOK, PCs
<1>19. ASSUME NEW j \in Jobs, WorkerThrow(j) PROVE TypeOK'
    BY <1>19, BoundsAssumption DEF WorkerThrow, Goto, rows, history, TypeOK, PCs
<1>20. ASSUME NEW j \in Jobs, WorkerDies(j) PROVE TypeOK'
    BY <1>20, BoundsAssumption DEF WorkerDies, Goto, rows, history, TypeOK, PCs
<1>21. ASSUME NEW j \in Jobs, Promote(j) PROVE TypeOK'
    <2>1. job' \in [Jobs -> Job]
        BY <1>21 DEF Promote, TypeOK, Job, JobStates
    <2> QED BY <1>21, <2>1 DEF Promote, rows, history, budget, TypeOK, PCs
<1>22. ASSUME NEW j \in Jobs, Stalled(j) PROVE TypeOK'
    <2>1. PICK s \in JobStates : job' = [job EXCEPT ![j].stalled = @ + 1, ![j].state = s]
        BY <1>22 DEF Stalled, JobStates
    <2>2. [job EXCEPT ![j].stalled = @ + 1] \in [Jobs -> Job]
        BY DEF TypeOK, Job
    <2>3. job' = [[job EXCEPT ![j].stalled = @ + 1] EXCEPT ![j].state = s]
        BY <2>1
    <2>4. job' \in [Jobs -> Job]
        BY <2>2, <2>3 DEF Job
    <2> QED BY <1>22, <2>4 DEF Stalled, Goto, rows, history, budget, TypeOK, PCs
<1>23. CASE SoftDelete
    BY <1>23 DEF SoftDelete, history, budget, TypeOK, PCs, Stages
<1>24. CASE HardDelete
    BY <1>24 DEF HardDelete, history, budget, TypeOK, PCs, Stages
<1>25. CASE UNCHANGED vars
    BY <1>25 DEF vars, history, budget, TypeOK, PCs, Stages
<1> QED
    BY <1>1, <1>2, <1>3, <1>4, <1>5, <1>6, <1>7, <1>8, <1>9, <1>10, <1>11, <1>12, <1>13,
       <1>14, <1>15, <1>16, <1>17, <1>18, <1>19, <1>20, <1>21, <1>22, <1>23, <1>24, <1>25
       DEF Next, Owner, Worker, Queue

(* Queue and processors stay in agreement.                                 *)
LEMMA QueueStep ==
    ASSUME TypeOK, TypeOK', [Next]_vars,
           \A j \in Jobs : QueueInv(j)
    PROVE  \A x \in Jobs : QueueInv(x)'
<1> SUFFICES ASSUME NEW x \in Jobs PROVE QueueInv(x)'
    OBVIOUS
<1>1. ASSUME NEW c \in Clients, CreateAvatar(c) PROVE QueueInv(x)'
    BY <1>1 DEF CreateAvatar, Proceed, history, budget, QueueInv, TypeOK, Job, NoJob
<1>2. ASSUME NEW c \in Clients, UploadPhotos(c) PROVE QueueInv(x)'
    BY <1>2 DEF UploadPhotos, Proceed, history, budget, QueueInv, TypeOK, Job, NoJob
<1>3. ASSUME NEW c \in Clients, CreateMeasurement(c) PROVE QueueInv(x)'
    BY <1>3 DEF CreateMeasurement, Proceed, history, budget, QueueInv, TypeOK, Job, NoJob
<1>4. ASSUME NEW c \in Clients, RetryCheck(c) PROVE QueueInv(x)'
    BY <1>4 DEF RetryCheck, Proceed, rows, history, budget, QueueInv, TypeOK, Job, NoJob
<1>5. ASSUME NEW c \in Clients, FindPhotos(c) PROVE QueueInv(x)'
    BY <1>5 DEF FindPhotos, Proceed, rows, history, budget, QueueInv, TypeOK, Job, NoJob
<1>6. ASSUME NEW c \in Clients, RegenerateCheck(c) PROVE QueueInv(x)'
    BY <1>6 DEF RegenerateCheck, Proceed, rows, history, budget, QueueInv, TypeOK, Job,
           NoJob
<1>7. ASSUME NEW c \in Clients, FindMeasurement(c) PROVE QueueInv(x)'
    BY <1>7 DEF FindMeasurement, Proceed, rows, history, budget, QueueInv, TypeOK, Job,
           NoJob
<1>8. ASSUME NEW c \in Clients, Enqueue(c) PROVE QueueInv(x)'
    BY <1>8 DEF Enqueue, Proceed, rows, history, budget, QueueInv, TypeOK, Job, NoJob
<1>9. ASSUME NEW c \in Clients, Announce(c) PROVE QueueInv(x)'
    BY <1>9 DEF Announce, Proceed, SetStatus, history, budget, QueueInv, TypeOK, Job, NoJob
<1>10. ASSUME NEW c \in Clients, DeletePhotoCheck(c) PROVE QueueInv(x)'
    BY <1>10 DEF DeletePhotoCheck, Proceed, rows, history, budget, QueueInv, TypeOK, Job,
           NoJob
<1>11. ASSUME NEW c \in Clients, DeletePhoto(c) PROVE QueueInv(x)'
    BY <1>11 DEF DeletePhoto, Proceed, history, budget, QueueInv, TypeOK, Job, NoJob
<1>12. ASSUME NEW c \in Clients, CallFails(c) PROVE QueueInv(x)'
    BY <1>12 DEF CallFails, Proceed, history, budget, QueueInv, TypeOK, Job, NoJob
<1>13. ASSUME NEW j \in Jobs, CancelJob(j) PROVE QueueInv(x)'
    BY <1>13 DEF CancelJob, Goto, rows, history, budget, QueueInv, TypeOK, Job, NoJob
<1>14. ASSUME NEW j \in Jobs, Take(j) PROVE QueueInv(x)'
    BY <1>14 DEF Take, Goto, rows, history, budget, QueueInv, TypeOK, Job, NoJob
<1>15. ASSUME NEW j \in Jobs, WorkerRecord(j) PROVE QueueInv(x)'
    BY <1>15 DEF WorkerRecord, Goto, rows, history, budget, QueueInv, TypeOK, Job, NoJob
<1>16. ASSUME NEW j \in Jobs, WorkerError(j) PROVE QueueInv(x)'
    BY <1>16 DEF WorkerError, Goto, SetStatus, CountedUp, history, budget, QueueInv, TypeOK,
           Job, NoJob
<1>17. ASSUME NEW j \in Jobs, WorkerFailRecord(j) PROVE QueueInv(x)'
    BY <1>17 DEF WorkerFailRecord, Goto, rows, history, budget, QueueInv, TypeOK, Job, NoJob
<1>18. ASSUME NEW j \in Jobs, Reject(j) PROVE QueueInv(x)'
    BY <1>18 DEF Reject, Goto, rows, history, budget, QueueInv, TypeOK, Job, NoJob
<1>19. ASSUME NEW j \in Jobs, WorkerThrow(j) PROVE QueueInv(x)'
    BY <1>19 DEF WorkerThrow, Goto, rows, history, budget, QueueInv, TypeOK, Job, NoJob
<1>20. ASSUME NEW j \in Jobs, WorkerDies(j) PROVE QueueInv(x)'
    BY <1>20 DEF WorkerDies, Goto, rows, history, budget, QueueInv, TypeOK, Job, NoJob
<1>21. ASSUME NEW j \in Jobs, Promote(j) PROVE QueueInv(x)'
    BY <1>21 DEF Promote, rows, history, budget, QueueInv, TypeOK, Job, NoJob
<1>22. ASSUME NEW j \in Jobs, Stalled(j) PROVE QueueInv(x)'
    BY <1>22 DEF Stalled, Goto, rows, history, budget, QueueInv, TypeOK, Job, NoJob
<1>23. CASE SoftDelete
    BY <1>23 DEF SoftDelete, history, budget, QueueInv, TypeOK, Job, NoJob
<1>24. CASE HardDelete
    BY <1>24 DEF HardDelete, history, budget, QueueInv, TypeOK, Job, NoJob
<1>25. CASE UNCHANGED vars
    BY <1>25 DEF vars, history, budget, QueueInv, TypeOK, Job, NoJob
<1> QED
    BY <1>1, <1>2, <1>3, <1>4, <1>5, <1>6, <1>7, <1>8, <1>9, <1>10, <1>11, <1>12, <1>13,
       <1>14, <1>15, <1>16, <1>17, <1>18, <1>19, <1>20, <1>21, <1>22, <1>23, <1>24, <1>25
       DEF Next, Owner, Worker, Queue

(* The row and its absence.                                                *)
LEMMA RowStep ==
    ASSUME TypeOK, TypeOK', [Next]_vars, RowInv, \A j \in Jobs : QueueInv(j)
    PROVE  RowInv'
<1>1. ASSUME NEW c \in Clients, CreateAvatar(c) PROVE RowInv'
    BY <1>1 DEF CreateAvatar, Proceed, history, budget, RowInv, QueueInv, Exists, Live,
           TypeOK, Job
<1>2. ASSUME NEW c \in Clients, UploadPhotos(c) PROVE RowInv'
    BY <1>2 DEF UploadPhotos, Proceed, history, budget, RowInv, QueueInv, Exists, Live,
           TypeOK, Job
<1>3. ASSUME NEW c \in Clients, CreateMeasurement(c) PROVE RowInv'
    BY <1>3 DEF CreateMeasurement, Proceed, history, budget, RowInv, QueueInv, Exists, Live,
           TypeOK, Job
<1>4. ASSUME NEW c \in Clients, RetryCheck(c) PROVE RowInv'
    BY <1>4 DEF RetryCheck, Proceed, rows, history, budget, RowInv, QueueInv, Exists, Live,
           TypeOK, Job
<1>5. ASSUME NEW c \in Clients, FindPhotos(c) PROVE RowInv'
    BY <1>5 DEF FindPhotos, Proceed, rows, history, budget, RowInv, QueueInv, Exists, Live,
           TypeOK, Job
<1>6. ASSUME NEW c \in Clients, RegenerateCheck(c) PROVE RowInv'
    BY <1>6 DEF RegenerateCheck, Proceed, rows, history, budget, RowInv, QueueInv, Exists,
           Live, TypeOK, Job
<1>7. ASSUME NEW c \in Clients, FindMeasurement(c) PROVE RowInv'
    BY <1>7 DEF FindMeasurement, Proceed, rows, history, budget, RowInv, QueueInv, Exists,
           Live, TypeOK, Job
<1>8. ASSUME NEW c \in Clients, Enqueue(c) PROVE RowInv'
    BY <1>8 DEF Enqueue, Proceed, rows, history, budget, RowInv, QueueInv, Exists, Live,
           TypeOK, Job
<1>9. ASSUME NEW c \in Clients, Announce(c) PROVE RowInv'
    BY <1>9 DEF Announce, Proceed, SetStatus, history, budget, RowInv, QueueInv, Exists,
           Live, TypeOK, Job
<1>10. ASSUME NEW c \in Clients, DeletePhotoCheck(c) PROVE RowInv'
    BY <1>10 DEF DeletePhotoCheck, Proceed, rows, history, budget, RowInv, QueueInv, Exists,
           Live, TypeOK, Job
<1>11. ASSUME NEW c \in Clients, DeletePhoto(c) PROVE RowInv'
    BY <1>11 DEF DeletePhoto, Proceed, history, budget, RowInv, QueueInv, Exists, Live,
           TypeOK, Job
<1>12. ASSUME NEW c \in Clients, CallFails(c) PROVE RowInv'
    BY <1>12 DEF CallFails, Proceed, history, budget, RowInv, QueueInv, Exists, Live,
           TypeOK, Job
<1>13. ASSUME NEW j \in Jobs, CancelJob(j) PROVE RowInv'
    BY <1>13 DEF CancelJob, Goto, rows, history, budget, RowInv, QueueInv, Exists, Live,
           TypeOK, Job
<1>14. ASSUME NEW j \in Jobs, Take(j) PROVE RowInv'
    BY <1>14 DEF Take, Goto, rows, history, budget, RowInv, QueueInv, Exists, Live, TypeOK,
           Job
<1>15. ASSUME NEW j \in Jobs, WorkerRecord(j) PROVE RowInv'
    BY <1>15 DEF WorkerRecord, Goto, rows, history, budget, RowInv, QueueInv, Exists, Live,
           TypeOK, Job
<1>16. ASSUME NEW j \in Jobs, WorkerError(j) PROVE RowInv'
    BY <1>16 DEF WorkerError, Goto, SetStatus, CountedUp, history, budget, RowInv, QueueInv,
           Exists, Live, TypeOK, Job
<1>17. ASSUME NEW j \in Jobs, WorkerFailRecord(j) PROVE RowInv'
    BY <1>17 DEF WorkerFailRecord, Goto, rows, history, budget, RowInv, QueueInv, Exists,
           Live, TypeOK, Job
<1>18. ASSUME NEW j \in Jobs, Reject(j) PROVE RowInv'
    BY <1>18 DEF Reject, Goto, rows, history, budget, RowInv, QueueInv, Exists, Live,
           TypeOK, Job
<1>19. ASSUME NEW j \in Jobs, WorkerThrow(j) PROVE RowInv'
    BY <1>19 DEF WorkerThrow, Goto, rows, history, budget, RowInv, QueueInv, Exists, Live,
           TypeOK, Job
<1>20. ASSUME NEW j \in Jobs, WorkerDies(j) PROVE RowInv'
    BY <1>20 DEF WorkerDies, Goto, rows, history, budget, RowInv, QueueInv, Exists, Live,
           TypeOK, Job
<1>21. ASSUME NEW j \in Jobs, Promote(j) PROVE RowInv'
    BY <1>21 DEF Promote, rows, history, budget, RowInv, QueueInv, Exists, Live, TypeOK, Job
<1>22. ASSUME NEW j \in Jobs, Stalled(j) PROVE RowInv'
    BY <1>22 DEF Stalled, Goto, rows, history, budget, RowInv, QueueInv, Exists, Live,
           TypeOK, Job
<1>23. CASE SoftDelete
    BY <1>23 DEF SoftDelete, history, budget, RowInv, QueueInv, Exists, Live, TypeOK, Job
<1>24. CASE HardDelete
    BY <1>24 DEF HardDelete, history, budget, RowInv, QueueInv, Exists, Live, TypeOK, Job
<1>25. CASE UNCHANGED vars
    BY <1>25 DEF vars, history, budget, RowInv, QueueInv, Exists, Live, TypeOK, Job
<1> QED
    BY <1>1, <1>2, <1>3, <1>4, <1>5, <1>6, <1>7, <1>8, <1>9, <1>10, <1>11, <1>12, <1>13,
       <1>14, <1>15, <1>16, <1>17, <1>18, <1>19, <1>20, <1>21, <1>22, <1>23, <1>24, <1>25
       DEF Next, Owner, Worker, Queue

(* A record follows the attempts of its own job.                           *)
LEMMA OwnStep ==
    ASSUME TypeOK, TypeOK', [Next]_vars, RowInv,
           \A j \in Jobs : QueueInv(j), \A j \in Jobs : OwnInv(j)
    PROVE  \A x \in Jobs : OwnInv(x)'
<1> SUFFICES ASSUME NEW x \in Jobs PROVE OwnInv(x)'
    OBVIOUS
<1>1. ASSUME NEW c \in Clients, CreateAvatar(c) PROVE OwnInv(x)'
    BY <1>1 DEF CreateAvatar, Proceed, history, budget, OwnInv, RowInv, QueueInv, Exists,
           Live, TypeOK, Job
<1>2. ASSUME NEW c \in Clients, UploadPhotos(c) PROVE OwnInv(x)'
    BY <1>2 DEF UploadPhotos, Proceed, history, budget, OwnInv, RowInv, QueueInv, Exists,
           Live, TypeOK, Job
<1>3. ASSUME NEW c \in Clients, CreateMeasurement(c) PROVE OwnInv(x)'
    BY <1>3 DEF CreateMeasurement, Proceed, history, budget, OwnInv, RowInv, QueueInv,
           Exists, Live, TypeOK, Job
<1>4. ASSUME NEW c \in Clients, RetryCheck(c) PROVE OwnInv(x)'
    BY <1>4 DEF RetryCheck, Proceed, rows, history, budget, OwnInv, RowInv, QueueInv,
           Exists, Live, TypeOK, Job
<1>5. ASSUME NEW c \in Clients, FindPhotos(c) PROVE OwnInv(x)'
    BY <1>5 DEF FindPhotos, Proceed, rows, history, budget, OwnInv, RowInv, QueueInv,
           Exists, Live, TypeOK, Job
<1>6. ASSUME NEW c \in Clients, RegenerateCheck(c) PROVE OwnInv(x)'
    BY <1>6 DEF RegenerateCheck, Proceed, rows, history, budget, OwnInv, RowInv, QueueInv,
           Exists, Live, TypeOK, Job
<1>7. ASSUME NEW c \in Clients, FindMeasurement(c) PROVE OwnInv(x)'
    BY <1>7 DEF FindMeasurement, Proceed, rows, history, budget, OwnInv, RowInv, QueueInv,
           Exists, Live, TypeOK, Job
<1>8. ASSUME NEW c \in Clients, Enqueue(c) PROVE OwnInv(x)'
    <2>1. UNCHANGED <<pc, record, deletion, faults, crashes>>
        BY <1>8 DEF Enqueue, rows, history, budget
    <2>2. CASE UNCHANGED job
        BY <2>1, <2>2 DEF OwnInv
    <2>3. ASSUME NEW j \in Jobs, job[j].state = "none",
                 job' = [job EXCEPT ![j].state = "waiting", ![j].photos = (call[c] = "enqueuePhotos")]
          PROVE  OwnInv(x)'
        <3>1. job'[x].attempts = job[x].attempts /\ job'[x].stalled = job[x].stalled
            BY <2>3 DEF TypeOK, Job
        <3>2. job[x].state = "removed" => job'[x].state = "removed"
            BY <2>3 DEF TypeOK, Job
        <3> QED BY <2>1, <3>1, <3>2 DEF OwnInv
    <2> QED BY <1>8, <2>2, <2>3 DEF Enqueue
<1>9. ASSUME NEW c \in Clients, Announce(c) PROVE OwnInv(x)'
    BY <1>9 DEF Announce, Proceed, SetStatus, history, budget, OwnInv, RowInv, QueueInv,
           Exists, Live, TypeOK, Job
<1>10. ASSUME NEW c \in Clients, DeletePhotoCheck(c) PROVE OwnInv(x)'
    BY <1>10 DEF DeletePhotoCheck, Proceed, rows, history, budget, OwnInv, RowInv, QueueInv,
           Exists, Live, TypeOK, Job
<1>11. ASSUME NEW c \in Clients, DeletePhoto(c) PROVE OwnInv(x)'
    BY <1>11 DEF DeletePhoto, Proceed, history, budget, OwnInv, RowInv, QueueInv, Exists,
           Live, TypeOK, Job
<1>12. ASSUME NEW c \in Clients, CallFails(c) PROVE OwnInv(x)'
    BY <1>12 DEF CallFails, Proceed, history, budget, OwnInv, RowInv, QueueInv, Exists,
           Live, TypeOK, Job
<1>13. ASSUME NEW j \in Jobs, CancelJob(j) PROVE OwnInv(x)'
    BY <1>13 DEF CancelJob, Goto, rows, history, budget, OwnInv, RowInv, QueueInv, Exists,
           Live, TypeOK, Job
<1>14. ASSUME NEW j \in Jobs, Take(j) PROVE OwnInv(x)'
    BY <1>14 DEF Take, Goto, rows, history, budget, OwnInv, RowInv, QueueInv, Exists, Live,
           TypeOK, Job
<1>15. ASSUME NEW j \in Jobs, WorkerRecord(j) PROVE OwnInv(x)'
    BY <1>15 DEF WorkerRecord, Goto, rows, history, budget, OwnInv, RowInv, QueueInv,
           Exists, Live, TypeOK, Job
<1>16. ASSUME NEW j \in Jobs, WorkerError(j) PROVE OwnInv(x)'
    BY <1>16 DEF WorkerError, Goto, SetStatus, CountedUp, history, budget, OwnInv, RowInv,
           QueueInv, Exists, Live, TypeOK, Job
<1>17. ASSUME NEW j \in Jobs, WorkerFailRecord(j) PROVE OwnInv(x)'
    BY <1>17 DEF WorkerFailRecord, Goto, rows, history, budget, OwnInv, RowInv, QueueInv,
           Exists, Live, TypeOK, Job
<1>18. ASSUME NEW j \in Jobs, Reject(j) PROVE OwnInv(x)'
    BY <1>18 DEF Reject, Goto, rows, history, budget, OwnInv, RowInv, QueueInv, Exists,
           Live, TypeOK, Job
<1>19. ASSUME NEW j \in Jobs, WorkerThrow(j) PROVE OwnInv(x)'
    BY <1>19 DEF WorkerThrow, Goto, rows, history, budget, OwnInv, RowInv, QueueInv, Exists,
           Live, TypeOK, Job
<1>20. ASSUME NEW j \in Jobs, WorkerDies(j) PROVE OwnInv(x)'
    BY <1>20 DEF WorkerDies, Goto, rows, history, budget, OwnInv, RowInv, QueueInv, Exists,
           Live, TypeOK, Job
<1>21. ASSUME NEW j \in Jobs, Promote(j) PROVE OwnInv(x)'
    BY <1>21 DEF Promote, rows, history, budget, OwnInv, RowInv, QueueInv, Exists, Live,
           TypeOK, Job
<1>22. ASSUME NEW j \in Jobs, Stalled(j) PROVE OwnInv(x)'
    BY <1>22 DEF Stalled, Goto, rows, history, budget, OwnInv, RowInv, QueueInv, Exists,
           Live, TypeOK, Job
<1>23. CASE SoftDelete
    BY <1>23 DEF SoftDelete, history, budget, OwnInv, RowInv, QueueInv, Exists, Live,
           TypeOK, Job
<1>24. CASE HardDelete
    BY <1>24 DEF HardDelete, history, budget, OwnInv, RowInv, QueueInv, Exists, Live,
           TypeOK, Job
<1>25. CASE UNCHANGED vars
    BY <1>25 DEF vars, history, budget, OwnInv, RowInv, QueueInv, Exists, Live, TypeOK, Job
<1> QED
    BY <1>1, <1>2, <1>3, <1>4, <1>5, <1>6, <1>7, <1>8, <1>9, <1>10, <1>11, <1>12, <1>13,
       <1>14, <1>15, <1>16, <1>17, <1>18, <1>19, <1>20, <1>21, <1>22, <1>23, <1>24, <1>25
       DEF Next, Owner, Worker, Queue

(* A step that adds no job and lets nobody start again.                    *)
LEMMA AccountKeeps ==
    ASSUME TypeOK, AccountInv, Added' = Added, errors' = errors, announced' => announced /\ Able' \subseteq Able
    PROVE  AccountInv'
<1> SUFFICES ASSUME announced', errors < Cardinality(Jobs)
             PROVE  Cardinality(Added) + Cardinality(Able') <= Cardinality(Clients) * (1 + errors)
    BY DEF AccountInv
<1>1. Cardinality(Added) + Cardinality(Able) <= Cardinality(Clients) * (1 + errors)
    BY DEF AccountInv
<1>2. Cardinality(Able') <= Cardinality(Able)
    BY Finite, FS_Subset
<1>3. Cardinality(Clients) * (1 + errors) \in Nat
    BY JobsCount DEF TypeOK
<1> QED BY <1>1, <1>2, <1>3, Finite, FinitePrimed

(* Jobs are added by those who may, and only an error lets them again.     *)
LEMMA AccountStep ==
    ASSUME TypeOK, TypeOK', [Next]_vars, RowInv, \A j \in Jobs : QueueInv(j), AccountInv
    PROVE  AccountInv'
<1>1. ASSUME NEW c \in Clients, CreateAvatar(c) PROVE AccountInv'
    <2>1. UNCHANGED <<job, errors>> /\ (announced' => announced /\ Able' \subseteq Able)
        BY <1>1 DEF CreateAvatar, Proceed, history, budget, Able, Asking, MayStart, RowInv, Live, Exists, TypeOK
    <2> QED BY <2>1, AccountKeeps DEF Added
<1>2. ASSUME NEW c \in Clients, UploadPhotos(c) PROVE AccountInv'
    <2>1. UNCHANGED <<job, errors>> /\ (announced' => announced /\ Able' \subseteq Able)
        BY <1>2 DEF UploadPhotos, Proceed, history, budget, Able, Asking, MayStart, RowInv, Live, Exists, TypeOK
    <2> QED BY <2>1, AccountKeeps DEF Added
<1>3. ASSUME NEW c \in Clients, CreateMeasurement(c) PROVE AccountInv'
    <2>1. UNCHANGED <<job, errors>> /\ (announced' => announced /\ Able' \subseteq Able)
        BY <1>3 DEF CreateMeasurement, Proceed, history, budget, Able, Asking, MayStart, RowInv, Live, Exists, TypeOK
    <2> QED BY <2>1, AccountKeeps DEF Added
<1>4. ASSUME NEW c \in Clients, RetryCheck(c) PROVE AccountInv'
    <2>1. UNCHANGED <<job, errors>> /\ (announced' => announced /\ Able' \subseteq Able)
        BY <1>4 DEF RetryCheck, Proceed, rows, history, budget, Able, Asking, MayStart, RowInv, Live, Exists, TypeOK
    <2> QED BY <2>1, AccountKeeps DEF Added
<1>5. ASSUME NEW c \in Clients, FindPhotos(c) PROVE AccountInv'
    <2>1. /\ UNCHANGED <<job, errors, announced, status, deletion>> /\ call[c] \in Asking
          /\ \A e \in Clients : e # c => call'[e] = call[e]
        BY <1>5 DEF FindPhotos, Proceed, rows, history, budget, Asking, TypeOK
    <2>2. Able' \subseteq Able
        BY <2>1 DEF Able, MayStart
    <2> QED BY <2>1, <2>2, AccountKeeps DEF Added
<1>6. ASSUME NEW c \in Clients, RegenerateCheck(c) PROVE AccountInv'
    <2>1. UNCHANGED <<job, errors>> /\ (announced' => announced /\ Able' \subseteq Able)
        BY <1>6 DEF RegenerateCheck, Proceed, rows, history, budget, Able, Asking, MayStart, RowInv, Live, Exists, TypeOK
    <2> QED BY <2>1, AccountKeeps DEF Added
<1>7. ASSUME NEW c \in Clients, FindMeasurement(c) PROVE AccountInv'
    <2>1. /\ UNCHANGED <<job, errors, announced, status, deletion>> /\ call[c] \in Asking
          /\ \A e \in Clients : e # c => call'[e] = call[e]
        BY <1>7 DEF FindMeasurement, Proceed, rows, history, budget, Asking, TypeOK
    <2>2. Able' \subseteq Able
        BY <2>1 DEF Able, MayStart
    <2> QED BY <2>1, <2>2, AccountKeeps DEF Added
<1>8. ASSUME NEW c \in Clients, Enqueue(c) PROVE AccountInv'
    <2>1. /\ c \in Able /\ Able' \subseteq Able \ {c} /\ UNCHANGED <<errors, announced>>
        BY <1>8 DEF Enqueue, Proceed, rows, history, Able, Asking, MayStart, TypeOK
    <2>2. PICK j \in Jobs : Added' \subseteq Added \cup {j}
        <3>1. job \in [Jobs -> Job]
            BY DEF TypeOK
        <3>2. CASE UNCHANGED job
            BY <3>2, <1>8 DEF Added, Enqueue
        <3>3. CASE \E j \in Jobs : \A k \in Jobs \ {j} : job'[k] = job[k]
            BY <3>3 DEF Added
        <3> QED BY <1>8, <3>1, <3>2, <3>3 DEF Enqueue
    <2>3. IsFiniteSet(Added) /\ IsFiniteSet(Able)
        BY Finite
    <2>4. /\ Cardinality(Added') <= Cardinality(Added) + 1
          /\ Cardinality(Able') <= Cardinality(Able) - 1
        <3>1. IsFiniteSet(Added \cup {j}) /\ Cardinality(Added \cup {j}) <= Cardinality(Added) + 1
            <4>1. Cardinality(Added) \in Nat
                BY Finite
            <4>2. /\ IsFiniteSet(Added \cup {j})
                  /\ Cardinality(Added \cup {j}) \in {Cardinality(Added), Cardinality(Added) + 1}
                BY <2>3, FS_AddElement
            <4> QED BY <4>1, <4>2
        <3>2. IsFiniteSet(Able \ {c}) /\ Cardinality(Able \ {c}) = Cardinality(Able) - 1
            BY <2>1, <2>3, FS_RemoveElement
        <3>3. Cardinality(Added') <= Cardinality(Added \cup {j})
            BY <2>2, <3>1, FS_Subset
        <3>4. Cardinality(Able') <= Cardinality(Able \ {c})
            BY <2>1, <3>2, FS_Subset
        <3>5. /\ Cardinality(Added') \in Nat /\ Cardinality(Added \cup {j}) \in Nat
              /\ Cardinality(Able') \in Nat /\ Cardinality(Able \ {c}) \in Nat
            BY <2>1, <2>2, <3>1, <3>2, FS_Subset, FS_CardinalityType
        <3> QED BY <2>3, <3>1, <3>2, <3>3, <3>4, <3>5, FS_CardinalityType
    <2>5. /\ Cardinality(Added) \in Nat /\ Cardinality(Able) \in Nat
          /\ Cardinality(Added') \in Nat /\ Cardinality(Able') \in Nat
        BY Finite, FinitePrimed
    <2>6. Cardinality(Clients) * (1 + errors) \in Nat
        BY JobsCount DEF TypeOK
    <2> QED BY <2>1, <2>4, <2>5, <2>6 DEF AccountInv
<1>9. ASSUME NEW c \in Clients, Announce(c) PROVE AccountInv'
    <2>1. UNCHANGED <<job, errors>> /\ (announced' => announced /\ Able' \subseteq Able)
        BY <1>9 DEF Announce, Proceed, SetStatus, history, budget, Able, Asking, MayStart, RowInv, Live, Exists, TypeOK
    <2> QED BY <2>1, AccountKeeps DEF Added
<1>10. ASSUME NEW c \in Clients, DeletePhotoCheck(c) PROVE AccountInv'
    <2>1. UNCHANGED <<job, errors>> /\ (announced' => announced /\ Able' \subseteq Able)
        BY <1>10 DEF DeletePhotoCheck, Proceed, rows, history, budget, Able, Asking, MayStart, RowInv, Live, Exists, TypeOK
    <2> QED BY <2>1, AccountKeeps DEF Added
<1>11. ASSUME NEW c \in Clients, DeletePhoto(c) PROVE AccountInv'
    <2>1. UNCHANGED <<job, errors>> /\ (announced' => announced /\ Able' \subseteq Able)
        BY <1>11 DEF DeletePhoto, Proceed, history, budget, Able, Asking, MayStart, RowInv, Live, Exists, TypeOK
    <2> QED BY <2>1, AccountKeeps DEF Added
<1>12. ASSUME NEW c \in Clients, CallFails(c) PROVE AccountInv'
    <2>1. /\ UNCHANGED <<job, errors, status, deletion>>
          /\ announced' => announced /\ call[c] \in Asking \cup {"deletePhoto"}
          /\ call'[c] = "idle" /\ \A e \in Clients : e # c => call'[e] = call[e]
        BY <1>12 DEF CallFails, Proceed, Asking, TypeOK, Stages, budget
    <2>2. announced' => Able' \subseteq Able
        BY <2>1 DEF Able, MayStart, Asking
    <2> QED BY <2>1, <2>2, AccountKeeps DEF Added
<1>13. ASSUME NEW j \in Jobs, CancelJob(j) PROVE AccountInv'
    <2>1. /\ Added' = Added /\ UNCHANGED <<errors, announced>> /\ Able' \subseteq Able
        BY <1>13 DEF CancelJob, Goto, rows, history, budget, Able, Asking, MayStart, Added, QueueInv, TypeOK, Job
    <2> QED BY <2>1, AccountKeeps
<1>14. ASSUME NEW j \in Jobs, Take(j) PROVE AccountInv'
    <2>1. /\ Added' = Added /\ UNCHANGED <<errors, announced>> /\ Able' \subseteq Able
        BY <1>14 DEF Take, Goto, rows, history, budget, Able, Asking, MayStart, Added, QueueInv, TypeOK, Job
    <2> QED BY <2>1, AccountKeeps
<1>15. ASSUME NEW j \in Jobs, WorkerRecord(j) PROVE AccountInv'
    <2>1. /\ Added' = Added /\ UNCHANGED <<errors, announced>> /\ Able' \subseteq Able
        BY <1>15 DEF WorkerRecord, Goto, rows, history, budget, Able, Asking, MayStart, Added, QueueInv, TypeOK, Job
    <2> QED BY <2>1, AccountKeeps
<1>16. ASSUME NEW j \in Jobs, WorkerError(j) PROVE AccountInv'
    <2>1. Added' = Added /\ announced' = announced /\ errors' = CountedUp /\ errors \in Nat
        BY <1>16 DEF WorkerError, budget, Added, TypeOK
    <2>2. SUFFICES ASSUME announced, errors' < Cardinality(Jobs)
                   PROVE  Cardinality(Added') + Cardinality(Able') <= Cardinality(Clients) * (1 + errors')
        BY <2>1 DEF AccountInv
    <2>3. errors' = errors + 1 /\ errors < Cardinality(Jobs)
        BY <2>1, <2>2, JobsCount DEF CountedUp
    <2>4. Cardinality(Added) + Cardinality(Able) <= Cardinality(Clients) * (1 + errors)
        BY <2>2, <2>3 DEF AccountInv
    <2>5. Cardinality(Able') <= Cardinality(Clients)
        BY BoundsAssumption, FS_Subset DEF Able
    <2>6. Cardinality(Clients) * (1 + (errors + 1)) = Cardinality(Clients) * (1 + errors) + Cardinality(Clients)
        BY <2>1, JobsCount
    <2>7. /\ Cardinality(Added) \in Nat /\ Cardinality(Able) \in Nat /\ Cardinality(Able') \in Nat
          /\ Cardinality(Clients) * (1 + errors) \in Nat
        BY <2>1, Finite, FinitePrimed, JobsCount
    <2> QED BY <2>1, <2>3, <2>4, <2>5, <2>6, <2>7, JobsCount
<1>17. ASSUME NEW j \in Jobs, WorkerFailRecord(j) PROVE AccountInv'
    <2>1. /\ Added' = Added /\ UNCHANGED <<errors, announced>> /\ Able' \subseteq Able
        BY <1>17 DEF WorkerFailRecord, Goto, rows, history, budget, Able, Asking, MayStart, Added, QueueInv, TypeOK, Job
    <2> QED BY <2>1, AccountKeeps
<1>18. ASSUME NEW j \in Jobs, Reject(j) PROVE AccountInv'
    <2>1. /\ Added' = Added /\ UNCHANGED <<errors, announced>> /\ Able' \subseteq Able
        BY <1>18 DEF Reject, Goto, rows, history, budget, Able, Asking, MayStart, Added, QueueInv, TypeOK, Job
    <2> QED BY <2>1, AccountKeeps
<1>19. ASSUME NEW j \in Jobs, WorkerThrow(j) PROVE AccountInv'
    <2>1. /\ Added' = Added /\ UNCHANGED <<errors, announced>> /\ Able' \subseteq Able
        BY <1>19 DEF WorkerThrow, Goto, rows, history, budget, Able, Asking, MayStart, Added, QueueInv, TypeOK, Job
    <2> QED BY <2>1, AccountKeeps
<1>20. ASSUME NEW j \in Jobs, WorkerDies(j) PROVE AccountInv'
    <2>1. /\ Added' = Added /\ UNCHANGED <<errors, announced>> /\ Able' \subseteq Able
        BY <1>20 DEF WorkerDies, Goto, rows, history, budget, Able, Asking, MayStart, Added, QueueInv, TypeOK, Job
    <2> QED BY <2>1, AccountKeeps
<1>21. ASSUME NEW j \in Jobs, Promote(j) PROVE AccountInv'
    <2>1. /\ Added' = Added /\ UNCHANGED <<errors, announced>> /\ Able' \subseteq Able
        BY <1>21 DEF Promote, rows, history, budget, Able, Asking, MayStart, Added, QueueInv, TypeOK, Job
    <2> QED BY <2>1, AccountKeeps
<1>22. ASSUME NEW j \in Jobs, Stalled(j) PROVE AccountInv'
    <2>1. /\ Added' = Added /\ UNCHANGED <<errors, announced>> /\ Able' \subseteq Able
        BY <1>22 DEF Stalled, Goto, rows, history, budget, Able, Asking, MayStart, Added, QueueInv, TypeOK, Job
    <2> QED BY <2>1, AccountKeeps
<1>23. CASE SoftDelete
    <2>1. /\ Added' = Added /\ UNCHANGED <<errors, announced>> /\ Able' \subseteq Able
        BY <1>23 DEF SoftDelete, history, budget, Able, Asking, MayStart, Added, QueueInv, TypeOK, Job
    <2> QED BY <2>1, AccountKeeps
<1>24. CASE HardDelete
    <2>1. /\ Added' = Added /\ UNCHANGED <<errors, announced>> /\ Able' \subseteq Able
        BY <1>24 DEF HardDelete, history, budget, Able, Asking, MayStart, Added, QueueInv, TypeOK, Job
    <2> QED BY <2>1, AccountKeeps
<1>25. CASE UNCHANGED vars
    <2>1. Added' = Added /\ UNCHANGED <<errors, announced>> /\ Able' = Able
        BY <1>25 DEF vars, Added, Able, MayStart
    <2> QED BY <2>1, AccountKeeps
<1> QED
    BY <1>1, <1>2, <1>3, <1>4, <1>5, <1>6, <1>7, <1>8, <1>9, <1>10, <1>11, <1>12, <1>13,
       <1>14, <1>15, <1>16, <1>17, <1>18, <1>19, <1>20, <1>21, <1>22, <1>23, <1>24, <1>25
       DEF Next, Owner, Worker, Queue

-----------------------------------------------------------------------------
(* Before the avatar is created every client has a chance.                 *)
LEMMA InitIInv == Init => IInv
<1> SUFFICES ASSUME Init PROVE IInv
    OBVIOUS
<1>1. TypeOK
    <2>1. NoJob \in Job
        BY DEF NoJob, Job, JobStates
    <2>2. 0 \in 0..Cardinality(Jobs) /\ 0 \in 0..MaxFaults /\ 0 \in 0..MaxCrashes
        BY BoundsAssumption, JobsCount
    <2> QED BY <2>1, <2>2 DEF Init, TypeOK, PCs, Stages
<1>2. RowInv /\ \A j \in Jobs : QueueInv(j) /\ OwnInv(j)
    BY DEF Init, RowInv, QueueInv, OwnInv, NoJob, Exists
<1>3. AccountInv
    <2>1. Added = {} /\ errors = 0
        BY DEF Init, Added, NoJob
    <2>2. Cardinality(Able) <= Cardinality(Clients)
        BY BoundsAssumption, FS_Subset DEF Able
    <2>3. Cardinality(Added) = 0
        BY <2>1, FS_EmptySet
    <2>4. Cardinality(Clients) * (1 + 0) = Cardinality(Clients)
        BY JobsCount
    <2> QED BY <2>1, <2>2, <2>3, <2>4, Finite, JobsCount DEF AccountInv
<1> QED BY <1>1, <1>2, <1>3 DEF IInv

(* The inductive invariant holds always.                                   *)
THEOREM Invariance == Spec => []IInv
<1>1. IInv /\ [Next]_vars => IInv'
    <2> SUFFICES ASSUME IInv, [Next]_vars PROVE IInv'
        OBVIOUS
    <2>1. TypeOK /\ RowInv /\ AccountInv /\ (\A j \in Jobs : QueueInv(j)) /\ (\A j \in Jobs : OwnInv(j))
        BY DEF IInv
    <2>2. TypeOK'
        BY <2>1, TypeStep
    <2>3. RowInv' /\ (\A j \in Jobs : QueueInv(j)') /\ (\A j \in Jobs : OwnInv(j)') /\ AccountInv'
        BY <2>1, <2>2, QueueStep, RowStep, OwnStep, AccountStep
    <2> QED BY <2>2, <2>3 DEF IInv
<1> QED BY <1>1, InitIInv, PTL DEF Spec

(* Type correctness.                                                       *)
THEOREM TypesCorrect == Spec => []TypeOK
<1>1. IInv => TypeOK
    BY DEF IInv
<1> QED BY <1>1, Invariance, PTL

(* A record of processing_jobs says failed or processing of attempts of    *)
(* its own job, but for deletions, faults and crashes.                     *)
THEOREM RecordsAreOwn == Spec => []RecordsOwn
<1>1. IInv => RecordsOwn
    BY DEF IInv, OwnInv, RecordsOwn
<1> QED BY <1>1, Invariance, PTL

(* Parallel clients get one job each at the creation, and one each for     *)
(* every time the processor wrote ERROR.                                   *)
THEOREM JobsAreAccounted == Spec => []JobsAccounted
<1>1. IInv => JobsAccounted
    <2> SUFFICES ASSUME IInv, announced
                 PROVE  Cardinality(Added) <= Cardinality(Clients) * (1 + errors)
        BY DEF JobsAccounted
    <2>1. errors \in 0..Cardinality(Jobs) /\ Cardinality(Clients) * (1 + errors) \in Nat
        BY JobsCount DEF IInv, TypeOK
    <2>2. CASE errors < Cardinality(Jobs)
        BY <2>1, <2>2, Finite DEF IInv, AccountInv
    <2>3. CASE errors = Cardinality(Jobs)
        <3>1. \A a, b \in Nat : a > 0 => b <= a * (1 + b)
            OBVIOUS
        <3> QED BY <2>3, <3>1, Finite, JobsCount
    <2> QED BY <2>1, <2>2, <2>3, JobsCount
<1> QED BY <1>1, Invariance, PTL
=============================================================================
