----------------------------- MODULE MCBackground -----------------------------
(***************************************************************************)
(* What runs beside the requests for designs and items, on small           *)
(* instances: auto-save, gateways, migrations, requests about avatars,     *)
(* the rate limit, monitoring, and the utilities.  They share no state:    *)
(* each behaviour exercises one of them, named by part.                    *)
(***************************************************************************)
EXTENDS Naturals, FiniteSets

CONSTANTS
    MaxEdits, Runs, Keep, MaxSaved, MaxSaveFails,
    Sockets, Namespace, Members, Categories, Topics, MaxEvents,
    Months, MaxReverts,
    Avatars, Calls, MaxRequests, MaxChanges,
    Checks, Limit, MaxChecks, MaxCacheErrors,
    Callers, MaxErrors,
    MaxItems, BatchSize, MaxAttempts, MaxRejects,
    Files, MaxTempCalls, MaxDiskErrors,
    NumParts, Concurrency, MaxResends, MaxLost,
    Uploads, Sizes, BatchFiles, MaxUploadErrors,
    Numbers, MaxLength, Amounts,
    Keys, Inner, Leaves,
    Connections, MaxQueries, MaxReadFailures

ASSUME LimitsAssumption ==
    {Keep, Limit, BatchSize, MaxAttempts, NumParts, Concurrency} \subseteq Nat \ {0}
ASSUME IdsAssumption ==
    /\ Sockets = DOMAIN Namespace /\ "anonymous" \notin Members
    /\ Months \subseteq 1..12 /\ Numbers \cup Amounts \cup Sizes \subseteq Nat /\ Inner \subseteq Keys
ASSUME BoundsAssumption ==
    {MaxEdits, MaxSaved, MaxSaveFails, MaxEvents, MaxReverts, MaxRequests, MaxChanges, MaxChecks,
     MaxCacheErrors, MaxErrors, MaxItems, MaxRejects, MaxTempCalls, MaxDiskErrors, MaxResends,
     MaxLost, MaxUploadErrors, MaxLength, MaxQueries, MaxReadFailures} \subseteq Nat
ASSUME SetsAssumption ==
    /\ \A S \in {Runs, Calls, Avatars, Checks, Files, Connections, BatchFiles, Sockets, Inner, Keys} : IsFiniteSet(S)
    /\ Avatars # {} /\ Months # {} /\ Uploads \cap BatchFiles = {}

VARIABLES
    content, foreign, deleted, timer, current, pending, run, docs, written, expired, reached,
    overlapped, saveFails, app,
    user, rooms, userSockets, categorySubscriptions, received, events,
    objects, applied, deployed, month, failed, reverts,
    avatar, ask, chosen, crossed, edited, views, requests, changes,
    counter, check, allowed, overlap, checks, cacheErrors,
    util, caller, order, held, locks, queue, due, debounced, latest, answer, cached, executions, errors,
    items, concurrency, next, step, executing, winner, item, tried, results, rejects,
    disk, known, used, call, interval, stranded, tempCalls, diskErrors,
    s3, stored, object, tracked, parts, sent, batch, awaited, uploaded, closing, listed, afterAll,
    refused, late, forgotten, resends, lost,
    size, upload, loaded, progress, single, result, inS3, uploadErrors,
    given, other, shuffled, i,
    target, source, merged,
    session, monitoring, reading, status, queries, readFailures,
    part  \* what a behaviour exercises

Saves == INSTANCE AutoSave
Gateway == INSTANCE Subscriptions
Migrate == INSTANCE Migrations
Request == INSTANCE AvatarRequests
Rate == INSTANCE RateLimit
Async == INSTANCE AsyncUtil WITH call <- caller, timer <- debounced
Batch == INSTANCE AsyncBatch
Temp == INSTANCE TempFiles
Multipart == INSTANCE MultipartUpload WITH known <- tracked, crossed <- late
Upload == INSTANCE FileUploads
Array == INSTANCE ArrayUtil
Object == INSTANCE ObjectUtil
Pool == INSTANCE PoolMonitor

autoVars == <<content, foreign, deleted, timer, current, pending, run, docs, written, expired, reached,
              overlapped, saveFails, app>>
gatewayVars == <<user, rooms, userSockets, categorySubscriptions, received, events>>
migrationVars == <<objects, applied, deployed, month, failed, reverts>>
requestVars == <<avatar, ask, chosen, crossed, edited, views, requests, changes>>
rateVars == <<counter, check, allowed, overlap, checks, cacheErrors>>
asyncVars == <<util, caller, order, held, locks, queue, due, debounced, latest, answer, cached,
               executions, errors>>
batchVars == <<items, concurrency, next, step, executing, winner, item, tried, results, rejects>>
tempVars == <<disk, known, used, call, interval, stranded, tempCalls, diskErrors>>
multipartVars == <<s3, stored, object, tracked, parts, sent, batch, awaited, uploaded, closing, listed,
                   afterAll, refused, late, forgotten, resends, lost>>
uploadVars == <<size, upload, loaded, progress, single, result, inS3, uploadErrors>>
pureVars == <<given, other, shuffled, i, target, source, merged>>
poolVars == <<session, monitoring, reading, status, queries, readFailures>>

serviceVars == <<autoVars, gatewayVars, requestVars, rateVars>>
databaseVars == <<migrationVars, poolVars>>
fileVars == <<tempVars, multipartVars, uploadVars>>
vars == <<serviceVars, databaseVars, asyncVars, batchVars, fileVars, pureVars, part>>

(* The sockets of the configuration: two of the catalog, one of avatars.   *)
TwoAndOne == <<"catalog", "catalog", "avatar">>

-----------------------------------------------------------------------------
(* What does not move has one initial state.                               *)
Init ==
    /\ part \in {"autosave", "gateway", "migrations", "requests", "rate", "async", "batch", "temp",
                 "multipart", "uploads", "arrays", "objects", "pool"}
    /\ Saves!Init /\ Gateway!Init /\ Request!Init /\ Rate!Init /\ Temp!Init /\ Multipart!Init
    /\ Pool!Init
    /\ Migrate!Init /\ (part # "migrations" => month = CHOOSE m \in Months : TRUE)
    /\ Async!Init /\ (part # "async" => util = "lock")
    /\ Batch!Init /\ (part # "batch" => items = 1 /\ concurrency = 1)
    /\ Upload!Init /\ (part # "uploads" => \A u, v \in Uploads : size[u] = 0)
    /\ IF part = "arrays" THEN Array!Init
       ELSE given = <<>> /\ other = <<>> /\ shuffled = <<>> /\ i = 0
    /\ IF part = "objects" THEN Object!Init
       ELSE target = Object!Empty /\ source = Object!Empty /\ merged = FALSE

OnAuto(A) == part = "autosave" /\ A
    /\ UNCHANGED <<gatewayVars, requestVars, rateVars, databaseVars, asyncVars, batchVars, fileVars,
                   pureVars, part>>
OnGateway(A) == part = "gateway" /\ A
    /\ UNCHANGED <<autoVars, requestVars, rateVars, databaseVars, asyncVars, batchVars, fileVars,
                   pureVars, part>>
OnRequest(A) == part = "requests" /\ A
    /\ UNCHANGED <<autoVars, gatewayVars, rateVars, databaseVars, asyncVars, batchVars, fileVars,
                   pureVars, part>>
OnRate(A) == part = "rate" /\ A
    /\ UNCHANGED <<autoVars, gatewayVars, requestVars, databaseVars, asyncVars, batchVars, fileVars,
                   pureVars, part>>
OnMigrate(A) == part = "migrations" /\ A
    /\ UNCHANGED <<serviceVars, poolVars, asyncVars, batchVars, fileVars, pureVars, part>>
OnPool(A) == part = "pool" /\ A
    /\ UNCHANGED <<serviceVars, migrationVars, asyncVars, batchVars, fileVars, pureVars, part>>
OnAsync(A) == part = "async" /\ A
    /\ UNCHANGED <<serviceVars, databaseVars, batchVars, fileVars, pureVars, part>>
OnBatch(A) == part = "batch" /\ A
    /\ UNCHANGED <<serviceVars, databaseVars, asyncVars, fileVars, pureVars, part>>
OnTemp(A) == part = "temp" /\ A
    /\ UNCHANGED <<serviceVars, databaseVars, asyncVars, batchVars, multipartVars, uploadVars, pureVars,
                   part>>
OnMultipart(A) == part = "multipart" /\ A
    /\ UNCHANGED <<serviceVars, databaseVars, asyncVars, batchVars, tempVars, uploadVars, pureVars, part>>
OnUpload(A) == part = "uploads" /\ A
    /\ UNCHANGED <<serviceVars, databaseVars, asyncVars, batchVars, tempVars, multipartVars, pureVars,
                   part>>
OnArray(A) == part = "arrays" /\ A
    /\ UNCHANGED <<serviceVars, databaseVars, asyncVars, batchVars, fileVars, target, source, merged, part>>
OnObject(A) == part = "objects" /\ A
    /\ UNCHANGED <<serviceVars, databaseVars, asyncVars, batchVars, fileVars, given, other, shuffled, i,
                   part>>

-----------------------------------------------------------------------------
Services ==
    \/ OnAuto(Saves!CancelAutoSave) \/ OnAuto(Saves!ScheduleAutoSave) \/ OnAuto(Saves!TimerFires)
    \/ OnAuto(Saves!OnModuleDestroy) \/ OnAuto(Saves!ShutDown)
    \/ OnAuto(Saves!DeleteDesign) \/ OnAuto(Saves!ExpireAutosave)
    \/ \E r \in Runs : OnAuto(Saves!SaveStep(r)) \/ OnAuto(Saves!SaveFails(r))
    \/ \E s \in Sockets :
        \/ OnGateway(Gateway!HandleConnection(s)) \/ OnGateway(Gateway!HandleDisconnect(s))
        \/ OnGateway(Gateway!HandleSubscribeAll(s)) \/ OnGateway(Gateway!HandleSubscribeTrending(s))
        \/ OnGateway(Gateway!HandleSubscribeItem(s)) \/ OnGateway(Gateway!HandleSubscribeCategory(s))
        \/ OnGateway(Gateway!HandleSubscribe(s)) \/ OnGateway(Gateway!HandleUnsubscribe(s))
    \/ OnGateway(Gateway!NotifyItemCreated) \/ OnGateway(Gateway!NotifyItemUpdated)
    \/ OnGateway(Gateway!NotifyItemDeleted) \/ OnGateway(Gateway!NotifyTrending)
    \/ OnGateway(Gateway!NotifyAll) \/ OnGateway(Gateway!NotifyUserRecommendation)
    \/ OnGateway(Gateway!EmitProcessing) \/ OnGateway(Gateway!HandleProcessingSettled)
    \/ \E c \in Calls :
        \/ OnRequest(Request!Take(c)) \/ OnRequest(Request!FindAvatar(c))
        \/ OnRequest(Request!IncrementViewCount(c)) \/ OnRequest(Request!UpdateAvatar(c))
        \/ OnRequest(Request!FindExisting(c)) \/ OnRequest(Request!UpdateMeasurements(c))
        \/ OnRequest(Request!SoftDelete(c)) \/ OnRequest(Request!HardDelete(c))
        \/ OnRequest(Request!UnsetDefaults(c)) \/ OnRequest(Request!SetDefault(c))
        \/ OnRequest(Request!CountTotal(c)) \/ OnRequest(Request!CountStatus(c))
        \/ OnRequest(Request!AnswerStats(c)) \/ OnRequest(Request!CallFails(c))
    \/ OnRequest(Request!Process)
    \/ \E c \in Checks :
        OnRate(Rate!GetCount(c)) \/ OnRate(Rate!SetCount(c)) \/ OnRate(Rate!CacheFails(c))
    \/ OnRate(Rate!Expire)

Database ==
    \/ OnMigrate(Migrate!Release) \/ OnMigrate(Migrate!NextMonth)
    \/ OnMigrate(Migrate!MigrationRun) \/ OnMigrate(Migrate!MigrationRevert)
    \/ \E c \in Connections :
        \/ OnPool(Pool!Query(c)) \/ OnPool(Pool!Wait(c)) \/ OnPool(Pool!Answered(c))
        \/ OnPool(Pool!Close(c)) \/ OnPool(Pool!GetPoolHealth(c)) \/ OnPool(Pool!GetPoolStats(c))
    \/ OnPool(Pool!StopMonitoring)

Utilities ==
    \/ \E c \in Callers :
        \/ OnAsync(Async!Lock(c)) \/ OnAsync(Async!Release(c)) \/ OnAsync(Async!Debounce(c))
        \/ OnAsync(Async!Settle(c)) \/ OnAsync(Async!Memoize(c)) \/ OnAsync(Async!StoreResult(c))
    \/ OnAsync(Async!Continue) \/ OnAsync(Async!TimerFires)
    \/ OnBatch(Batch!Start) \/ OnBatch(Batch!RaceEnds) \/ OnBatch(Batch!BatchEnds)
    \/ \E n \in 1..MaxItems :
        /\ n <= items
        /\ OnBatch(Batch!Resolves(n)) \/ OnBatch(Batch!Rejects(n)) \/ OnBatch(Batch!TryAgain(n))
    \/ \E c \in Calls :
        \/ OnTemp(Temp!Create(c)) \/ OnTemp(Temp!WriteFile(c)) \/ OnTemp(Temp!WriteFails(c))
        \/ OnTemp(Temp!SetMetadata(c))
        \/ OnTemp(Temp!Get(c)) \/ OnTemp(Temp!ReadFile(c)) \/ OnTemp(Temp!Delete(c))
        \/ OnTemp(Temp!Cleanup(c)) \/ OnTemp(Temp!CleanupAll(c)) \/ OnTemp(Temp!CleanNext(c))
        \/ OnTemp(Temp!Unlink(c)) \/ OnTemp(Temp!ForgetFile(c)) \/ OnTemp(Temp!IntervalFires(c))
    \/ OnTemp(Temp!Expire) \/ OnTemp(Temp!Extend) \/ OnTemp(Temp!ScheduleCleanup)
    \/ OnTemp(Temp!StopScheduledCleanup) \/ OnTemp(Temp!Restart)
    \/ OnMultipart(Multipart!Initiate) \/ OnMultipart(Multipart!UploadPartsParallel)
    \/ OnMultipart(Multipart!NextBatch)
    \/ \E n \in 1..NumParts :
        \/ OnMultipart(Multipart!UploadPart(n)) \/ OnMultipart(Multipart!PartStored(n))
        \/ OnMultipart(Multipart!PartAnswered(n)) \/ OnMultipart(Multipart!PartFails(n))
    \/ OnMultipart(Multipart!ClearAllStates) \/ OnMultipart(Multipart!Restart)
    \/ OnMultipart(Multipart!CompleteGiven) \/ OnMultipart(Multipart!Complete) \/ OnMultipart(Multipart!S3Completes)
    \/ OnMultipart(Multipart!Abort) \/ OnMultipart(Multipart!S3Aborts)
    \/ OnMultipart(Multipart!Closed) \/ OnMultipart(Multipart!CloseFails)
    \/ \E u \in Uploads :
        \/ OnUpload(Upload!UploadChunked(u)) \/ OnUpload(Upload!SendParts(u))
        \/ OnUpload(Upload!HttpUploadProgress(u)) \/ OnUpload(Upload!S3Stores(u))
        \/ OnUpload(Upload!Completed(u)) \/ OnUpload(Upload!UploadFails(u))
        \/ OnUpload(Upload!ClearProgress(u))
    \/ OnUpload(Upload!ClearAllProgress) \/ OnUpload(Upload!UploadBatch)
    \/ \E f \in BatchFiles : OnUpload(Upload!SingleAnswered(f)) \/ OnUpload(Upload!SingleFails(f))
    \/ OnArray(Array!Shuffle) \/ OnObject(Object!DeepMerge)

Next == Services \/ Database \/ Utilities

(* A timer's delay ends, and a query of a save is answered or rejected.    *)
Fairness ==
    /\ WF_vars(OnAuto(Saves!TimerFires))
    /\ \A r \in Runs : WF_vars(OnAuto(Saves!SaveStep(r)))

Spec == Init /\ [][Next]_vars /\ Fairness

-----------------------------------------------------------------------------
(* The state of what moves is well typed.                                  *)
TypeOK ==
    CASE part = "autosave" -> Saves!TypeOK [] part = "gateway" -> Gateway!TypeOK
      [] part = "migrations" -> Migrate!TypeOK [] part = "requests" -> Request!TypeOK
      [] part = "rate" -> Rate!TypeOK [] part = "async" -> Async!TypeOK
      [] part = "batch" -> Batch!TypeOK [] part = "temp" -> Temp!TypeOK
      [] part = "multipart" -> Multipart!TypeOK [] part = "uploads" -> Upload!TypeOK
      [] part = "arrays" -> Array!TypeOK [] part = "objects" -> Object!TypeOK
      [] part = "pool" -> Pool!TypeOK

(* The properties of the parts, stated and explained in their modules: an  *)
(* edit is saved some day;                                                 *)
EditsAreSaved == Saves!EditsAreSaved

(* auto-save implements Recovery: but for its age the newest autosave      *)
(* stays;                                                                  *)
ImplementsRecovery == Saves!ImplementsRecovery

(* requests about avatars hold what they promise, the autosaves stay few,  *)
(* the rate limit is exact for one call after the other, and so do shared  *)
(* functions and batches for their callers;                                *)
RequestsHold ==
    CASE part = "requests" -> Request!DefaultIsChosen /\ Request!NoFieldLost /\ Request!StatsAddUp
      [] part = "autosave" -> Saves!CollectionBounded /\ Saves!NewestHoldsMost
      [] part = "rate" -> Rate!LimitIsExact
      [] part = "async" ->
           Async!LockIsExclusive /\ Async!DebounceAnswersTheNewest /\ Async!MemoizedOnce
      [] part = "batch" -> Batch!BatchIsSound
      [] OTHER -> TRUE

(* the books of the gateways, of the pool's monitor, of the temporary      *)
(* files and of the uploads, whole or in parts, agree with what they are   *)
(* the books of;                                                           *)
BooksAgree ==
    CASE part = "gateway" -> Gateway!NoGhosts
      [] part = "pool" -> Pool!ReportsAgree
      [] part = "temp" -> Temp!FilesAccounted
      [] part = "uploads" -> Upload!UploadsReported
      [] part = "multipart" -> Multipart!UploadsFollow
      [] OTHER -> TRUE

(* and the migrations and the utilities for arrays and objects are what    *)
(* their callers rely on.                                                  *)
UtilitiesHold ==
    CASE part = "migrations" -> Migrate!RevertsAreClean
      [] part = "arrays" -> Array!ApartAndTogether /\ Array!InOrder /\ Array!ShuffleKeeps
      [] part = "objects" -> Object!MergesAgree /\ Object!FormsAgree
      [] OTHER -> TRUE
=============================================================================
