# A TLA+ verification of the fashion wallet backend

The backend (`src/src`) is one NestJS process over PostgreSQL (TypeORM), MongoDB
(Mongoose), Redis (ioredis) and Bull queues. Its modules share no state in memory;
what interacts are the HTTP and socket handlers of one process, its queue
consumers, timers and callbacks, and the stores they read and write between
awaits. This project models the parts where those interleavings, and failures in
the middle of them, decide whether the data is right.

`PROJECT.json` lists the components, the runs, which definition translates which
lines, the findings, the hazards and the theorems. Below, paths are relative to
`src/src`.

## 1. Inventory

| component | state it keeps | operations | what is hard about it | what makes it correct |
|---|---|---|---|---|
| Design exports (`modules/design/services/export.service.ts`, `workers/export.worker.ts`) | row of `design.exports` (status, progress, retryCount, file), Bull job | createExport, cancelExport, deleteExport, deleteExpired, three handlers, failExport, progress reports | row and job in two stores; progress reports fired without await; retries counted twice, by Bull and by the row; crashes and stalls; rejected promises nobody handles | a completed export has its file; counters agree; a cancellation before the start is final; every job ends |
| Avatar creation and processing (`modules/avatar`, `modules/queue`) | avatar status, photos, measurements, processing-job records, queue jobs | createFromPhotos, createFromMeasurements, retry, regenerate, delete, deletePhoto, job cancellation, the processor up to the call that its queue's jobs lack; views, updates, the default flag, statistics | job queued before the status is written; automatic retries beside the user's; UNIQUE measurements; deletion under a running job; writes over rows read earlier | no more jobs than the processor gave reason for; a record is about its own job's attempts; every job ends; a request writes its own fields only |
| Design layers (`layer.service.ts`, `layer.repository.ts`) | `order_index`, `is_locked` of each layer | add, duplicate, update, delete, reorder, four moves | no effective transaction, no unique index, updates sent with `Promise.all` | indexes 0 to n-1, kept or restored; the moves do what they say |
| Collaboration (`design.gateway.ts`, `collaboration.service.ts`) | rooms and `client.data` of the sockets; presence, locks and update log in Redis | join, leave, disconnect, lock, unlock, six kinds of update | one user over several sockets; handlers that go on after their socket closed; GET then DEL; KEYS then a loop; TTLs | no lock without a user behind it; the log keeps its newest entries |
| Design life cycle, versions, cache (`design.service.ts`, `version-control.service.ts`, `cache.service.ts`) | design row, versions, Mongo snapshots, four Redis entries | create, get, update, publish, unpublish, archive, delete, fork, edits of layers and canvas, createSnapshot, restoreVersion | cache-aside reads racing invalidation key by key; writes that invalidate less than they change; several inserts that no transaction holds together | nobody is served what was closed to them; without overlap only what a write left out of its DEL is stale; forks are counted |
| Auto-save (`auto-save.service.ts`) | timers and pending saves by design, Mongo autosaves | schedule, cancel, perform, clean up, recover, shutdown | a timer's `finally` deletes the entries of a newer schedule; timers are by design, not by user; two saves overlap; MongoDB deletes autosaves by their age | the owner's last edit is saved in the end; what is recovered is the last that was saved, until it is seven days old |
| Tier limits (`tier-limits.service.ts`) | counts read from the rows | validations of designs, layers, exports | check-then-act | a limit is passed by the calls in flight and no more |
| Rendering (`rendering.service.ts`, `render.worker.ts`, `fashion-render-helper.ts`) | render jobs with a copy of the layers, the scene | render, cancel, attempts, fallback | attempts that reject halfway; edits meanwhile | the scene is of what was queued; every way out releases it |
| Avatar rate limit, gateway, default flag | cache counters, rooms, `is_default` | checkRateLimit, setDefault, subscriptions | read-modify-write without atomicity | the limit is exact for checks that do not overlap; a default was chosen |
| Catalog (`modules/catalog`) | items, brands, collections, Mongo documents, Elasticsearch index, in-memory and Redis caches, interactions, views, sockets | create, update, delete, list, search, collect, reindex, warm, recommend, track, subscribe | four stores written one after the other, indexing not awaited, caches filled beside writes, flushes that fail | every copy was once committed; at rest the index is the rows, and so are the caches but for what their services are not told; nothing tracked is lost; answers are what was asked for |
| Database infrastructure (`infrastructure/database`) | schemas and tables, the pool's sessions | migrate, revert, monitor | a revert that leaves or takes more than its own | what is reverted is gone; the monitor knows what it says |
| Common utilities (`common/utils`) | temp files, uploads, promises in flight; otherwise none | lock, debounce, memoize, batch, retry; write, clean up; send parts; functions on arrays and objects | concurrency of the async helpers; late answers; unlinks that fail | one holder at a time; results in place; files and uploads accounted for |
| Authentication, ML service | none | guards; a mock over HTTP | - | - |

## 2. Modules

    ExportJobs          MCExportJobs          ExportJobs_proofs
    AvatarProcessing                          AvatarProcessing_proofs
    Layers              MCLayers              Layers_proofs
                        (extends LayerOrder)
    Collaboration       MCCollaboration       Collaboration_proofs

    MCDesignServices    DesignLifecycle  DesignCreation  Rendering     DesignServices_proofs
    MCCatalog           CatalogItems  CatalogCache  Collections        Catalog_proofs
                        BrandPartners  Reindex  Recommendation
                        Interactions  CatalogSearch
                        (CatalogItems and CatalogCache implement Followers)
    MCBackground        AutoSave (implements Recovery)                Services_proofs
                        Subscriptions  AvatarRequests  RateLimit
                        Migrations  PoolMonitor
                        AsyncUtil  AsyncBatch  TempFiles              Background_proofs
                        MultipartUpload  FileUploads                  (extends Services_proofs)
                        ArrayUtil  ObjectUtil

The last three MC modules instantiate components that share no state, so a product of
their states would only repeat each of them: a variable `part` names the one that a
behaviour exercises, and the others rest. Each component is a module with its own
`Init`, actions and properties; what the MC module states is that the part that moves has them.

Conventions common to all. An *action* is what the code does between two awaits, so a
database query, a Redis command and a queue operation are one step each, and
everything else may run between them. A call, a worker or a handler in flight is
a process with a program counter (`pc`, `call`, `task`, `req`, ...) whose value names the
await it is at. A query that rejects is a disjunct or an action of its own and
takes the code's catch path. What the code starts without awaiting it (indexing, counting a
view, a progress report) is posted and may happen at any later time. MC modules only give
constants their values. Mutated forms of definitions, marked `Mutant`, stand before the definition they
change; no run uses them as they are.

**ExportJobs.** `row` is the database row, `job` the Bull job, `pc` the await of the
worker, `late` the progress reports in flight, `creating` and `cancelling` the
calls of the user. The progress column is an integer: a report of `NaN` (image
exports scale `job.progress`, which is a method in Bull) or `27.5` is refused,
the promise is nobody's, and Node 20 ends the process on an unhandled rejection;
`ProcessDies` is that. Bull (the version installed is 4.16) is external: `Take`,
`Reject` with back-off, `Promote`, `Stalled`.

**AvatarProcessing.** One avatar: `status`, `measured`, photos, deletion, and for every
job its queue entry, its record and the await of the processor. Calls add their
job first and write `processing` afterwards. The queue is registered with `@nestjs/bull` 11 over Bull 4.16;
of bullmq the processor imports the types only, and the `updateProgress` it calls at
`avatar-processing.processor.ts:60` is not a method of Bull's jobs. So every attempt writes its record, throws there, and goes through
the catch block, whose awaits are `error`, `failRecord` and `reject`; the lines from 61 to 151 never run and are not
modelled. `errors` and `announced` are history: how often the processor wrote ERROR, and whether every call has got from
its job to its status.

**LayerOrder, Layers.** LayerOrder has the pure part: what each operation writes, as a
function from the numbering it read. Layers has the calls: each reads, then sends
updates; `Write` applies them one at a time in any order (`Promise.all`), a
failing one leaves the rest. `tidy` says whether the users number layers
from 0; the DTO accepts any index.

**Collaboration.** Sockets connect, join, leave, close; `task` has the handlers in
flight. All handlers share one ioredis connection, so commands take effect in the
order they are issued and a handler's HDEL happens in the step in which the socket
closes. `strict` says whether clients lock layers of the design they are in, wait
for a join, and leave one design before they join another.

**DesignLifecycle.** One design: `design` is the row, `layerRev` and `canvasRev` stand for
the rows beside it, `cache` for the four Redis keys, `req` for the calls. Contents are
revisions. A fork counts itself in the row of its original, a layer call changes the layers, and either leaves
entries behind; a call may fail between its UPDATE and its DEL. `missed` has the keys that a write left out of its DEL in one of
these ways, until their entry is stored anew; a state made of such a copy is left out with it.
`overlap` remembers that calls ran side by side; `saw` in a call, that the design was
open to its user at some time during it.

**DesignCreation.** The rows a creation or fork inserts one after the other over connections of
their own, so that a failure leaves what was inserted; the limits that are counted
first; versions. `createSnapshot` and `restoreVersion` end where the schema refuses them.

**Rendering.** `rjob` is the job with its copy of the layers, `rpc` the await of the worker, `scene`
what the helper has built. The worker encodes with `usePlaceholder: true`, so nothing draws the scene, and
the quality it passes is a word, which sharp refuses: an attempt ends in the fallback picture. What can go wrong is
the scene itself, built anew by each attempt and released on every way out.

**CatalogItems, CatalogCache, Followers.** Rows, documents and index are kept by item with their
revision; `posts` are indexings and counters under way. `committed` collects every
revision that ever was. In CatalogCache the read of the database calls a method that the repository has
not and gives null, so that items come in by `setCatalogItem` only. Followers says what any copy owes: it takes only what was
published before. CatalogItems maps its memo, list and index, and CatalogCache its two layers, to
the holders of a Followers.

**Collections, BrandPartners.** Rows behind an in-memory cache, with the checks that precede a
write as steps of their own. A cached collection holds its items and their brand partners (`stock` counts the writes to them),
and the key of the featured ones does not hold the limit they were asked with; neither is invalidated.

**Reindex.** Pages of active items by popularity, written in bulk, with the flag that refuses a second reindexing;
`quiet` in a job says that nobody wrote meanwhile.

**Recommendation, CatalogSearch.** One request each, with the queries of the request as
steps and the deletion of items between them. Scores are integers (tenths, sixths). A sorted list is given
by the rank of each entry, how many precede it, which is what the sort of the code and of Elasticsearch does.

**Interactions.** The buffer, the flushes in flight with their batches, and the rows. The
columns that the INSERT names are not those of the migrations (see Findings), so the success of
a flush is that of a table that has them.

**AutoSave, Recovery.** `timer[t]` is the timer of the t-th edit, `current` the one the map knows,
`run` the saves in flight and `docs` the collection. `foreign` has the schedules of users who do not own the
design: their timer takes the owner's place and saves nothing. `ExpireAutosave` is the TTL index, which takes the oldest first and the
newest too; `expired` says how far it got. Recovery is the promise to a user who
reopens the design: the last autosave written, which nothing but its age takes away. The mapping takes `latest` to
be what `findLatestAutosave` answers.

**Subscriptions.** Both gateways; handlers have no await, so each is one step. `rooms` is socket.io's,
`userSockets` and `categorySubscriptions` are the gateways' own books.

**Migrations.** Each migration as the objects it creates and drops. A migration that PostgreSQL
refuses leaves everything as it was (`failed`). The month of the first run is chosen, as its
partition depends on it.

**AvatarRequests, RateLimit.** Requests beside the processing, which moves statuses as it likes. In RateLimit
a check is a read and a write; `Expire` ends the window.

**AsyncUtil, AsyncBatch.** Promises: callers with the order in which continuations run; a batch with the
race of `parallel` and the attempts of `retry` around each item.

**TempFiles, MultipartUpload, FileUploads.** What is on disk or at S3 beside the map that knows it.
S3 acts before it answers; an answer may be lost. A write of a file may fail and leave it there; the map of the
uploads in parts may be cleared or lost with its process, and a completion may be given its parts by the caller.

**ArrayUtil, ObjectUtil.** Pure functions as operators, checked against each other and against
set-level definitions over all small inputs; `shuffle` and `deepMerge` step.

**PoolMonitor.** What the monitor reads in `pg_stat_activity` over a connection of the pool, its own query included.

## 3. Runs

| run | checks | result |
|---|---|---|
| `export_types` | TypeOK, DeliveredHasFile, RetriesAccounted, GivesUpOnlyAfterStall, CancelBeforeStartSticks, JobsSettle | pass |
| `export_cancel` | CancelStopsWorker | violated: a worker completes a cancelled export |
| `avatar_concurrent` | TypeOK, JobsAccounted, RecordsOwn | pass |
| `avatar_settle` | JobsSettle | pass |
| `avatar_ready` | OnlyFaultsFail | violated: a job fails for good although nothing went wrong |
| `layers_alone` | TypeOK, TidyStaysCompact, DeleteHeals, TopIsFirst | pass |
| `layers_overlap` | NoDrift | pass |
| `collab_locks` | TypeOK, NoOrphanLocks, LogKeepsNewest | pass |
| `collab_unlock` | OwnerReleases | violated: GET and DEL of an unlock are two commands |
| `design_services` | TypeOK, ServedOnlyIfOpen, CacheFreshAlone, QuotaOvershoot, ForksCounted, SceneIsWhatWasQueued, SceneReleased | pass |
| `catalog` | TypeOK, CopiesFollow, IndexAgrees, CachesFreshAlone, TidyAlone, AnswersAreSound, NothingLost | pass |
| `background` | TypeOK, EditsAreSaved, ImplementsRecovery, RequestsHold, BooksAgree, UtilitiesHold | pass |

In the last three runs a property is the conjunction, over the parts it concerns, of the
properties of the components' own modules, where each is stated and explained:

* CopiesFollow and ImplementsRecovery are refinements: an abstract specification as the
  property of a detailed one under a mapping.
* CachesFreshAlone: while calls do not overlap, what is cached is what the database has, but for the items and partners
  inside a cached collection, which may be earlier ones, and the featured list, which may have the length somebody else asked for.
* IndexAgrees: once calls that did not overlap have ended and what they posted has happened, the
  index has the undeleted rows at their revisions; an undisturbed reindexing covers every active item or names it as failed.
* RequestsHold: the default avatar was chosen, no request loses another's field, statistics add up while
  nothing changes under them; the autosaves outgrow their limit only by those in flight or failed, and the newest
  holds the most until saves overlap; while its checks do not overlap the rate limit lets through as many as it
  says; one lock holder at a time, a debounced call answers the newest arguments, nobody executes a memoized
  function after somebody was given the kept value; no item of a batch is tried too often and, with a
  concurrency of one or more than a batch, every result is in its place.
* BooksAgree: no closed socket in a gateway's books or rooms; temporary files are on disk or accounted for; the
  map of the uploads in parts follows S3 unless it was cleared or an answer lost, and an object completed of its own parts has every
  one; a batch of uploads resolves when all are stored; the pool's monitor keeps to the connections of the pool
  and counts every session once, and its thresholds agree with each other.
* UtilitiesHold: a reverted migration leaves nothing behind; laws of the array and object functions.

### Bounds and why they are enough

* Exports: one export of each kind that behaves differently (image, turntable, a type
  without handler; a model export is a turntable with one more report). Rows of two exports
  meet only in the process that dies under both, which the environment's crash
  (`MaxCrashes`) stands for. The three attempts are the code's; a stall limit of 1 is Bull's default.
* Avatars: two calls in flight and two processors are the least for "two jobs race" and "a call races a job", and with three
  jobs the bound of JobsAccounted, two jobs before the first error, is met and passed after it; one crash lets another
  processor take a job whose record the dead one wrote. JobsSettle runs with one call, two jobs, one fault and one
  crash, and one processor, which is what the queue registers.
  `avatar_ready` needs one call and one job, and neither fault nor crash.
* Layers: three layers, with a user-given index outside 0..2, so that permutations, gaps and
  repeats occur; two overlapping calls.
* Collaboration: two users, one with two sockets (the least for a user who leaves
  with one socket and locks with the other), one design and layer, two
  handlers, a log of 1 with two updates, one expiry and one fault. The theorem
  has no such bounds. A join of a second design is not in the run, and is in the theorem.
* Design services: two calls (one writes while one reads) of an owner and an editor over a shared design, three calls in
  all and four revisions, enough for a write that leaves an entry behind, a read of it and a write that mends it;
  a tier of one design, one owner and two calls of theirs at once, with one failing query; a
  render of two layers with two attempts and two glitches, the least for a failing retry.
* Catalog: two calls in flight over two items, names or collections, three calls in all, so that a
  third meets what two overlapping ones left; one fault of each store; three items in pages of
  two for a reindexing; four items for a recommendation, as diversity needs two categories of two;
  three interactions over a buffer of two; four documents and three filters for pages of one or two.
* Background: two edits, three autosaves written, two saves in flight and one autosave kept (an older schedule and a newer
  one, cancelled or another user's), with one failing query; three sockets, two of them in one namespace; the migrations in June and December
  with four reverts; two requests over two avatars; a limit of two with two checks in flight and up to nine
  checks, so that a window is used up, renewed and over more than once; three callers of the async helpers; four items in batches of three; two
  temporary files with four calls and one error of the disk; three parts two at a time with one sent twice and one answer lost;
  sequences up to three numbers with repeats; objects of two keys, one of them nested, with null and undefined.

Every `cfg` says CHECK_DEADLOCK FALSE: bounded inputs run out, and a system
nobody calls stands still.

### Fairness

`JobsSettle` of ExportJobs assumes weak fairness of the worker (a promise that is settled
continues), of Bull's moves (its timers and blocking pop run as long as the process is up or
restarted) and of pending reports. That of AvatarProcessing adds strong
fairness of `Take`: jobs compete for one processor, and the queue serves them in
order, so a job that can be taken again and again is taken. Users are never
assumed to do anything. EditsAreSaved of AutoSave assumes that an armed timer fires, which Node does while the
process is up, and that a query of a save is answered or rejected; it promises nothing once a save has failed, the edit or a newer one was
cancelled or scheduled by another user than the owner, the row of the design is gone, or the process went down.

## 4. Proofs

All theorems hold for any sets of exports, clients, jobs, users, sockets, designs, layers, items,
collections and partners, any number of calls in flight and any limits. They assume only the named
ASSUMEs of the modules, which the runs evaluate: limits, bounds and identifiers of items are naturals,
pages are not empty, maps are functions between the right sets. Finiteness is assumed where something is
counted (the designs and creators of DesignCreation, the items in CatalogItems and Reindex), and that no
identifier is one of the fixed words among which it is stored: `none` beside identifiers, the names
of the cached lists beside UUIDs.

Every invariant below was first checked by TLC, on the configuration of the run.

* **ExportJobs_proofs**: TypeOK, DeliveredHasFile, RetriesAccounted,
  GivesUpOnlyAfterStall, CancelBeforeStartSticks. None is inductive: `IInv` adds that
  the handler runs only while its job is active and has attempts left
  (QueueInv), that what failExport read is still true when it writes (RetryInv),
  that the file is stored before the handler returns (FileInv), and that a
  cancellation marks the row before it touches the job (CancelInv).
* **AvatarProcessing_proofs**: TypeOK, RecordsOwn, JobsAccounted. `IInv` adds that a processor works only on a job the
  queue counts as active (QueueInv), that before the avatar nothing goes on (RowInv), and the count behind JobsAccounted (AccountInv):
  the jobs added and the clients still able to add one without another error, together, are at most one
  for each client at the creation and one more with each error. A client that adds a job stops being able to until the processor
  writes ERROR again, as its own status forbids it.
* **Layers_proofs**: TypeOK and the action properties NoDrift and ReindexIsCompact, whatever
  overlaps; TidyStaysCompact, DeleteHeals and TopIsFirst for calls that do not overlap. TLC checks those three
  with one call in flight at a time, and the theorems say the same with the hypothesis `[]Alone`.
  They rest on lemmas about LayerOrder: to-top, to-bottom and the swaps map a numbering 0 to
  n-1 of any size to one, a new layer of such a numbering gets n, and a re-indexing makes one of any numbering.
  The invariant is that the updates still to be sent, in whichever order they arrive, complete one order
  of the rows, which is compact if the user is tidy or the call renumbers, and has the layer first if it was moved to the top.
* **Collaboration_proofs**: TypeOK, NoOrphanLocks, and LogKeepsNewest. `IInv` adds that a handler
  in flight has its socket, design and layer, and that a strict client has one join in
  flight, and only from outside other designs; without it an `Enter` could take the last
  socket away from a locked layer. Then every step keeps somebody behind a lock:
  leaving and closing hand over to the cleanup they start, and a cleanup loses a layer only
  by freeing it or by reading somebody else's lock. For the log, `LogInv` says that it has
  the newest updates of those counted, as many as the cap, and more only while a handler is about to trim it.
* **DesignServices_proofs**: TypeOK and the six other properties of the run.
  - `LifeInv` (ServedOnlyIfOpen, CacheFreshAlone): whoever may see the design now has, in each of the calls
    under way, seen it open, and nothing is handed out or stored by a call that has not. While calls never
    overlapped (`overlap`), what a call carries is current, unless it was read from an entry that a write left out, and a call
    between its write and its invalidation, of the keys it will delete, and the keys in `missed` are the only excuses for a stale entry.
  - `CreationInv` (QuotaOvershoot, ForksCounted): the designs there are and those admitted by a check together exceed the
    tier by the other calls in flight at most; a counter of forks is behind by the forks being built and
    those that failed; an unfinished design that nobody builds is one of a failed call.
  - `RenderInv` (SceneIsWhatWasQueued, SceneReleased): what the scene holds at each await of the worker, in
    the order of the job's own copy of the layers, and that it is empty wherever an attempt begins or ends.
* **Catalog_proofs**: TypeOK, CopiesFollow, IndexAgrees, CachesFreshAlone, TidyAlone, NothingLost and AnswersAreSound.
  - `ItemInv`: every copy that is cached, listed, indexed, posted or carried by a call was
    committed; the rows of a transaction under way are in none of them. That gives the refinement: every step
    adds to what is committed, or a holder drops copies or takes committed ones. While calls do not overlap
    and nothing is rejected, the index of an item is what its row says, or the only indexing of it
    under way will bring just that, or the deletion in flight has still to post it.
  - `CacheInv`: the layers hold revisions no newer than the row. While nothing overlaps, what a reader carries is
    the row's, an invalidation is the only call, and L1 stays empty between its deletion there
    and the DEL in Redis, so an item without a write since its invalidation has current entries only. The
    database layer gives nothing, so what is stored is what a caller of `setCatalogItem` brought.
  - `BrandInv`, `CollInv`: while calls do not overlap, a stale entry waits for the clearing of the call in flight, which names its key, but for
    the items inside a cached collection, which are those of some earlier time, and the length of the featured list, which some caller asked for;
    a name is taken after nobody was seen to have it, and a place in a collection is beyond all others. That there
    is a greatest place to go beyond is by well-founded induction over the finite sets of places.
  - `IndexInv`: an undisturbed reindexing has, before page p, indexed or reported exactly the
    items whose position among the active ones, divided by the page size, is less than p-1, and counted each once. The
    lemmas are about that order: no item has as many before it as there are, so the number of
    pages, rounded up, covers all, and a page has nothing in common with those before.
  - `InteractInv`: the buffer, the table and the batches under way have no interaction in common and none twice, and
    together, unless the buffer was cleared, all that were tracked. Each operation only moves a batch from one to another.
  - `SearchInv`: while the index stands, the cached pages are those it would give and the client has seen the
    first hits, up to the page it is at, so at the last page all of them. `RecInv`: what the queries of a
    request have given is a `Listing`, different items, of what was for sale. They rest on what sorting by rank gives for
    any finite set and any strict order without ties: there is exactly one member that so many precede, so the
    list enumerates the set; that results by score and age have such an order; and that the greedy first
    pass of the diversity exists, is the only one, and takes every category of the best.
  - TypeOK says more of three parts than these invariants do. `RoomLeft`: a place in a collection may exceed the number of
    items by the additions made, because each makes room for one place more and those still to ask for theirs have not used it.
    `Counters`: what is still to be counted was tracked, and the counters have counted no more than the rest.
    `Flagged` and `IndexFits`: one reindexing at most is in progress and the flag says
    whether one is; documents and batches have one written revision of an item, and without an index there are no documents.
* **Services_proofs**, **Background_proofs**: TypeOK, RequestsHold, BooksAgree, and that auto-save implements
  Recovery, all for MCBackground as a whole. Fairness is assumed nowhere. `PartsInv` is the conjunction of one
  inductive invariant for each part; a step of the system is one of a part and leaves the others alone.
  - `SaveInv` (Recovery): the last autosave written is in the collection with an id of its own until its age takes it,
    and the collection is empty just when it has (LastThere); no clean-up under way has it on its list (ListsOld), and saves that never
    overlapped are alone and have read no less than is written (Alone). A creation is then a `Save` of Recovery, a start
    beside another save an `Overlap`, an edit an `Edit`, the TTL index an `Expire`, and everything else, the deletions of the
    clean-ups, failures and the shutdown included, stutters. `SaveRests` (CollectionBounded) counts: whichever of the listed autosaves are taken away, those that remain
    exceed the limit by the failures and the clean-ups still to come at most.
  - `RequestInv`: every row has the fields and the views that were written to it, views under way counted; while
    choices of the default do not cross, there is no default between the two updates of a
    choice and the chosen one after them; while nothing changed since a statistic began, its counts are those of the rows.
  - `RateInv`: without overlap there is one check in flight, and it has read what the counter still is.
  - `GatewayInv`: a user is in the book of a gateway exactly when a socket is theirs, and the entry names their
    sockets; the rooms and the book of the categories have open sockets only, and who is in the room of a
    category is in its book. `PoolInv`: the connection the monitor reads with is itself active.
  - `AsyncInv`: the calls have an order without repeats. Those who wait for the lock do so in that order, behind its one
    holder; a debounced function has the resolve of the newest call, and fewer executions than calls while it has one; whoever
    was given a memoized value called after all who executed.
  - `BatchInv`: attempts are counted, and what is collected ascends. With a concurrency of one, what executes is the item
    the loop is at and all before it are settled; with more than a batch, no race takes place and all that was
    started is awaited; then, in both, the results are in their places.
  - `TempInv`: what a call creates is not known yet and no other call's; a file on disk is in the map, of a
    call about to put it there, or stranded by a write or an unlink that failed or by the end of its process. `UploadInv`: what is stored was sent to the last part, and an entry says completed of
    such an upload only. `MultipartInv`: what the map lists is at S3, a batch's parts are awaited or listed, a completion
    names them in order and none twice unless one was sent again, and what closes an upload has happened at S3
    unless an answer was lost; an open upload is in the map unless its opening was not answered or the map was cleared. That no list without repeats is longer than there are numbers is the pigeonhole principle of the library.
  - `ArrayInv`, `ObjectInv`: the types of what is shuffled and merged; that `deepMerge` of two objects of the given
    keys, nested once, is such an object is a lemma.

  That a set of naturals has a least member, and a bounded one a greatest, is by the library's theorem that `<` on the
  naturals is well-founded. The theorems assume `LimitsAssumption` (limits are positive), `BoundsAssumption`
  (bounds are naturals), `IdsAssumption` (every socket has a namespace, nobody is called "anonymous", months are
  months, the keys of nested objects are keys) and `SetsAssumption` (what is
  counted is finite; there are an avatar and a month; uploads and files of a batch are apart).

Only model-checked:

* The liveness properties (JobsSettle, EditsAreSaved): fairness and ENABLED are beyond the prover.
* UtilitiesHold of `background`: the folds and sorts of ArrayUtil and the forms of objects in ObjectUtil are
  recursive over data, and what they compute for every input needs an induction theorem with an operator
  parameter, which no installed prover instantiates; RevertsAreClean follows seven fixed migrations, which TLC runs in every order there is, and
  concatenates the names of partitions.

## 5. Findings

The three violated runs are described under `findings` with the lines they contradict.
What else the models show or were built around, without a run of its own:

Designs
* `failExport` leaves the row queued after each of the three runs Bull makes and marks it failed only at a
  fourth, which only a stall brings (`export.service.ts:239`, "Mark export as failed").
* An export of type `techpack` is accepted and queued under a name for which
  no handler is registered: its row stays queued (`export.service.ts:291`). So does the row of an export whose job
  Redis refused, as the row is inserted first (`export.service.ts:81`).
* The first layer of a design gets index 1, for the maximum of no rows is 0, and `moveLayerToBottom` gives n-1:
  it need not be the last (`layer.service.ts:418`, "max index").
* `duplicateLayer` never asks for the layer limit (`layer.service.ts:465`).
* Transactions of the design services do not contain the repositories' writes, which go over
  other connections (`layer.service.ts:65`, `design.service.ts`).
* TypeORM drops `null` from a `where`: `deletedAt: null` filters nothing, and deleted designs are read and counted.
* `createSnapshot` saves a Mongo document whose required `versionId` is empty, so no checkpoint is ever
  stored, and restoreVersion and compareVersions always refuse (`version-control.service.ts:101`).
* `hasStateChanged` compares differently shaped objects and never finds them equal: every scheduled save writes.
* Two autosaves that overlap may be written in the other order, and the clean-up of the older deletes the newer
  content; the `finally` of a save deletes the entries of a newer schedule (`auto-save.service.ts:68`).
* The TTL index of the autosaves deletes them after seven days, the newest too, so a design left for a week has
  nothing to recover (`design-autosave.schema.ts:62`). A schedule asked for by a user who does not own the design cancels
  the owner's timer and then saves nothing (`auto-save.service.ts:110`). Nothing calls AutoSaveService.
* A fork counts itself in its original and leaves the four entries of its cache (`design.service.ts:363`); layer operations leave
  the `metadata` entry, whose copy has the layers (`cache.service.ts:45`), and the next state is made of that copy; a DEL that fails after the
  UPDATE leaves all entries to their TTL (`design.service.ts:181`).
* No picture shows a design: the worker asks for a placeholder, which never reads the scene (`render.worker.ts:114`);
  sharp refuses the quality, a word, so every job is given the fallback, reported as a success; and uploadRender
  ignores the buffer it is given. The sizes of a preset are overridden by a width that is undefined.
* Nothing calls `cacheRender`, so no render is ever found in the cache.
* A join that finishes after its socket closed leaves a ghost in the presence
  hash until the hash expires (`design.gateway.ts:112`).

Avatars
* No avatar becomes READY: `job.updateProgress` is of bullmq and the registered queue is Bull (`avatar-processing.processor.ts:60`),
  so every attempt throws and every avatar ends in ERROR (run `avatar_ready`).
* Were that call there: a job made by createFromMeasurements has no photos and would throw in every attempt all the same
  (`avatar.service.ts:251`).
* Deleting the default avatar leaves none; setDefault is two updates. An update of an avatar deleted meanwhile
  writes and then throws. The statistics' `pending` can be wrong, even negative, when statuses change between its counts.
* A refused call renews the window of the rate limit. Checks that overlap read the same count and write it back one higher, so the count
  falls behind and nothing in the code bounds how many pass; while they do not overlap the limit is exact, and only that is
  checked (`avatar/services/rate-limit.service.ts`). Nothing calls the rate limit service or the avatar cache.

Catalog
* updateCatalogItem (and its kin of collections and brand partners) saves the whole cached copy:
  counters go back and a concurrent deletion is undone. Nothing calls `invalidateItem`.
* The INSERT of flushInteractions names columns that `item_analytics` has not: every flush fails and the buffer only grows.
* getTrending refers to an alias in HAVING and is always refused; the price filter of a search asks for a
  field the index has not; warmPopularItems sorts by fields the entity has not; getItemDailyStats filters by a column the view has not.
* REFRESH MATERIALIZED VIEW CONCURRENTLY needs a unique index, which the views have not: they are never refreshed.
* invalidateAll deletes `catalog:*`, but items are under `item:*`; pages of collections and partners of a type are never invalidated;
  the key of featured collections ignores their limit, and the items and partners inside a cached collection are
  as they were when it was read, for the hour of its TTL (`collection.repository.ts:17`). The third layer of the item cache calls
  `findById`, which the repository has not, and gives null (`catalog-cache.service.ts:95`); nobody calls `setCatalogItem`. "L1 will expire naturally" (`catalog-cache.service.ts:198`), but
  reads renew its age.
* rebuildIndex deletes the index before it notices that a reindexing is under way; pages by popularity skip items
  whose popularity changes; a bulk without operations makes reindexAll throw.
* brand_partners.name is UNIQUE for deleted partners too. getSimilar may return an undefined item.
* Of the gateway: the channel acknowledged for a category is not the room joined, so unsubscribing from it does nothing; who
  subscribes to everything and to a category gets each event twice.

Infrastructure and utilities
* The catalog's migration run in December names a month 13 and fails; only one month has a partition. Reverting the designs'
  migration always fails (DROP FUNCTION without CASCADE); the catalog's revert takes the trigger of users for good.
* The pool's monitor counts a session that waits for its client as a waiting query (`wait_event_type` is then `Client`), so any idle
  connection makes the pool unhealthy.
* `parallel` removes the promise just added instead of the one that ended: with a concurrency from 2 to the size of a batch the
  limit is not kept and it returns early with holes. A
  lock whose holder throws rejects everyone waiting; a superseded debounced call never settles.
* A temporary file whose unlink fails is forgotten; a restart strands all. A part answered after the end of its upload puts the upload back
  into the map; one sent twice makes S3 refuse the completion. A failed upload says "uploading" for ever, as its status is looked up under a new id (`file-uploader.util.ts:233`,
  "Update progress to failed"). A temporary file whose write fails is left there, known to nobody; clearing the map of
  the uploads in parts, or a restart, leaves open uploads at S3 that nobody aborts.
* `rotate` says positive is right and rotates left (`array.util.ts:388`); `takeLast(0)` is everything. `isEqual` is not
  symmetric where undefined is involved; `deepMerge` loses an object that meets a truthy leaf; `flatten` loses empty objects.

## 6. Not modelled, and why

* Bytes: files, images, videos, 3D models, CDN links; the utilities that convert them by external tools.
* The processor of avatars past line 60, which no attempt reaches with the queue that is registered; the drawing of scenes, which
  the worker's placeholder replaces.
* The materialized views: REFRESH ... CONCURRENTLY needs a unique index and they have none, so each refresh is refused
  and logged, and they hold what they held at their creation.
* Numbers nobody's control flow depends on: customization values, geometry, light, metrics (`metrics.service.ts` is recorded to by nobody).
* Reads that write nothing, DTO validation other than the ranges a
  property depends on, logging, formatting of errors, broadcasts of the design gateway (their delivery is socket.io's).
* AutoSaveService is modelled although nothing in the repository calls it: its edits are the calls its methods are made for.
* Code that no call reaches: `updateUserPresence`, `clearDesignCollaboration`, `cacheRender`, the avatar cache,
  `validateCollaboratorAddition`, the restoration and comparison of versions past the checkpoint that is never found.
* Dates and strings (wrappers of date-fns and of regular expressions), security helpers, test doubles.
* The audit logger, seeds and connection modules: rows inserted and constants. Authentication: guards without state. The ML service: a mock.
* In Collaboration: the session key, which nothing reads; an update's score ties (two updates
  in one millisecond count as one after the other).
* Clocks: expiry of a key or of an autosave and back-off of a retry are steps that may come at any time.

## 7. Plan

Done: the components above, and the theorems of section 4, which state every invariant of the passing runs but
UtilitiesHold. What is left to prove of it is RevertsAreClean, and of AsyncBatch what holds at the limits of concurrency
that its race bites at.

Twelve runs and thirty-eight properties are in use: a property that is added replaces a weaker one, or joins the
conjunction of its part.
