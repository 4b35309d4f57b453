# A TLA+ verification development for qBittorrent

The specifications in this directory model parts of qBittorrent (C++ and Qt, on
top of libtorrent) that are hard to get right and hard to test: queues whose
entries outlive the objects they refer to, handlers that run between a request
and its late answer, an exit that races both. They are translated from the
source under `src/src/`; file and line of each definition are in
`PROJECT.json` (`map`). TLC checks them on small instances, and the TLA+ proof
system proves the results listed below for every value of the constants.

## 1. The system

qBittorrent's core is single-threaded: a Qt event loop runs one handler at a
time to completion. What makes it concurrent are the parties that run beside
it: libtorrent's network and disk threads, the worker threads of the resume
data, settings and key-value storages, external search processes, and remote
peers (web clients, RSS servers). They are called through queues and answer
through alerts, signals or promises, so a handler often acts on a state that
the request it answers no longer describes.

| Part | State it keeps | Interacts through | What makes it correct |
|---|---|---|---|
| Storage moves (`SessionImpl`, `TorrentImpl`) | the queue of moves, the flags and paths of each torrent, the entries of torrents being removed | libtorrent handles and alerts, queued events | moves are serialized, never stall, and both classes agree on what moves where |
| Torrent registry (`SessionImpl`) | registered torrents, hybrid IDs, metadata downloads, handlers of `add_torrent` alerts | libtorrent alerts in order, user requests | one torrent per ID, each alert meets its own handler |
| Startup restore | batches of resume data, queue positions | storage thread, `add_torrent` alerts | every stored torrent is restored once, migration loses none |
| Torrent lifecycle (`TorrentImpl`) | state, file priorities and names, metadata | native handle, alerts | the state shown follows the last request |
| Resume data storages (SQLite, files) | job queue, database, files | worker thread, mutex and condition | the last request for a torrent is what is stored |
| Key-value storage | the same, and promises | worker thread | every fetch is answered |
| Settings storage | values, dirty flag, two files | timer, file system | after a crash or a failure the settings are an old or a new version |
| Watched folders | known folders, failed files with retries | timers, signals to the session | a file is added once, or rejected |
| Download manager | waiting requests, busy services | network replies, timers | requests to a sequential service take turns and none waits for ever |
| RSS | tree of feeds, auto-downloader jobs and rules | timers, downloads, session | an article is processed once, by one rule |
| Search | processes, results | process output, timeout | a search ends and its results are complete |
| Torrent creation | bounded set of tasks | thread pool | the limit holds, running tasks survive |
| Web interface sessions | sessions, failed logins | HTTP requests, timers | limits on number and age hold |
| Web interface synchronization | snapshots, differences, response IDs | lossy, repeated requests | a client that applies what it is sent has the server's state |
| Embedded tracker, HTTP server, scheduler, IP filter, port forwarding, plugins, mail, GeoIP, DNS | little or none of their own | sockets, threads, timers | see `PROJECT.json`, `components` |
| Graphical interface, application shell | views | signals | not modelled |

`PROJECT.json` lists every part with its sources, what is modelled of it or why
it is not, and under `hazards` the places in the code where things can go wrong
in a way a test would hardly reach, with the properties that watch each one.

## 2. Modules and plan

| Order | Module | Content | Status |
|---|---|---|---|
| 1 | `MoveStorage`, `MCMoveStorage` | storage moves, removal, reload, resume data requests, exit | done |
| 2 | `MoveStorageProofs`, `MoveTorrentsProofs` | type correctness, serialization of moves; what torrents own and wait for, the queue and the locations; proved | done |
| 3 | `ResumeData`, `ResumeStore`, `ResumeWorker`, `ResumeWorkerProofs` | a storage as its users see it, and the SQLite storage's worker thread that implements it, proved | done |
| 4 | `InfoHashes`, `TorrentRegistry` | additions, IDs, conflicts, metadata, alert handlers in order | done |
| 5 | `StartupRestore` (on `InfoHashes`) | loading, rows of hybrid torrents, migration, end of the startup, crashes | done |
| 6 | `SettingsFile`, `Downloads`, `SyncMaindata`, `SyncPeers`, `ResumeFiles`, `WatchedFolders`, composed by `MCServices` | the services around the core | done |
| 7 | `ServicesProofs` | settings survive crashes and failures, the list of peers is exact, proved | done |
| 8 | `ResumeFilesProofs`, `SyncMaindataProofs`, `StartupRestoreProofs` | metadata is never missing, the synchronized page is exact, the startup's counter and its torrents, proved | done |
| 9 | `TorrentRegistryProofs` | alerts meet their handlers, the indexes are exact, torrents have their natives, stored torrents are found, removed ones are gone, two native torrents at most for each request; proved | done |
| 10 | more of `StartupRestoreProofs` | every torrent is restored and has its native torrent, and none is lost when its row is migrated or merged; proved | done |
| 11 | more of `ServicesProofs`, `ResumeFilesProofs`, `ResumeWorkerProofs` | the type invariants of the services and of the worker, the restored queue; proved | done |

Planned once and given up: the key-value storage, whose thread is the one of
`ResumeWorker`; torrent creation tasks, web interface sessions and the RSS
auto-downloader, which are sets or queues changed on one thread.

Ordering: first what can lose or damage user data (moves, resume data,
settings), then what decides which torrents exist (registry, restore), then the
services around them. Each module is written to be proved about: parameters are
CONSTANTS with named assumptions, one action per handler, invariants are
conjunctions of named parts, and no RECURSIVE operator is used in a module
that has theorems.

The abstract specification stated is a storage that applies requests in the
order in which they were made, `ResumeStore`; the worker thread of the SQLite
storage implements it. The file storage does not, as each of its requests is two
steps that the process may end between; what it, the registry and the
synchronization of the web interface promise is stated directly as invariants.

Every invariant and every action property of a passing run is proved, some under
a hypothesis on the constants that the section of the module gives; the liveness
properties stay with the runs.

## 3. Storage moves (`MoveStorage`)

### The code

A torrent's files are moved when its save path or download path is changed, when
it finishes, or when a check shows that it is finished. `TorrentImpl` asks
`SessionImpl::addMoveTorrentStorageJob`, which keeps one queue for all torrents.
Only the job at its head has been handed to libtorrent. A new job of a torrent
replaces its queued one; the replaced job is reported to its torrent as
finished at the torrent's current location. libtorrent answers a move by an
alert (moved or failed), whose handler takes the head off the queue, starts the
next job and informs the torrent.

A torrent may be removed while it moves. With its content kept, libtorrent's
torrent object is released when its last job ends; otherwise at once, and the
alert that it is gone triggers the removal of the files. A torrent whose files
are missing may be *reloaded*, when libtorrent rejects its resume data, when the user
starts it or when it was moved: it gets a new libtorrent object under the same ID.

On exit, `~SessionImpl` cancels the queued jobs, asks every torrent for resume
data and handles alerts until the queue is empty and all answers have come.

### The model

| Variable | Code |
|---|---|
| `torrents`, `tor` | `m_torrents`, and of each `TorrentImpl` the native handle, `m_savePath`, `m_downloadPath`, `m_nativeStatus.save_path`, `m_ltAddTorrentParams.save_path`, finished, `m_hasFinishedStorage`, `m_storageIsMoving`, `m_hasMissingFiles`, `m_missingFilesStateRecovered`, the finish notice in `m_moveFinishedTriggers`, `m_deferredRequestResumeDataInvoked` |
| `queue` | `m_moveStorageQueue` |
| `removing` | `m_removingTorrents` |
| `pendingFinished` | `m_pendingFinishedTorrents` |
| `numResume` | `m_numResumeData` |
| `stored` | what the resume data storage was last given |
| `phase` | running; draining: the loop of `saveResumeData` on exit; stopped |
| `native`, `ops`, `alerts` | libtorrent's torrent objects, the disk moves it executes, its alert queue (external) |

Each action is one handler run to completion. `AddTorrent`, `SetSavePath`,
`SetDownloadPath`, `RemoveTorrent` and `StartMissing` are requests of the user;
`TorrentFinished` and `TorrentChecked` include the call of
`adjustStorageLocation` and everything `moveStorage` does. `HandleMoved`,
`HandleMoveFailed`, `HandleDeleted`, `HandleFastResumeRejected`,
`HandleStateUpdate` and `HandleSaveResumeData` are the alert handlers, with the
exceptions that `handleAlert` catches: a throwing handler keeps what it has
changed. `HandleFastResumeRejected` marks the torrent as missing files and, when
it can recover the state of the other files (a mismatch of sizes, with the storage
there: a choice of the action), reloads it at once without a check of its files
(`torrentimpl.cpp:2625`); `StartMissing` reloads it when the state was not
recovered. `RunDeferredRequest` is the queued event of
`deferredRequestResumeData`. `BeginShutdown` and `EndShutdown` are the exit.
`DiskMoveEnds`, `RejectResumeData`, `PostStateUpdate`, `SaveResumeData` and
`CloseNative` are steps of libtorrent's threads and may happen between any two
handlers.

What is assumed of libtorrent, from how the code uses it: alerts are delivered
in the order in which they were posted; a move handed to an object that is
being removed is refused with an alert, and to one that is gone throws; a gone
object cannot tell its ID, so `getTorrent` does not find its torrent; the disk
move of a removed torrent completes before libtorrent reports the removal; a
torrent cannot be added while libtorrent has a live one with its ID.

Abstractions: torrents have metadata and are in manual management mode; "recheck
on completion", renaming of files, share limits and the timer that saves resume
data periodically are left out; each alert is a batch of `readAlerts` of its
own; a forced recheck is left out, and so is a reload that libtorrent refuses;
`EndShutdown` stands for the normal end of the exit loop and for its limit
of 30 seconds without a wanted alert; events posted before the exit have been
run when `~SessionImpl` starts, and none runs during it.

### What is checked

The runs that must pass:

| Run | Instance | Shows |
|---|---|---|
| `moves_queue` | two torrents that download to p2 and belong in p1, queue of 3 | moves are serialized (`OneMoveAtATime`), the head is always ongoing (`HeadJobIsOngoing`), `TorrentImpl` says it moves exactly while the queue has a job for it (`MovingAgreesWithQueue`), a torrent without jobs knows where its files are (`LocationIsKnown`), nothing stays behind in libtorrent (`NoOrphanedNative`), a finish notice waits only for a job that is in the queue (`NoticeWaitsForMove`), and types (`TypeOK`) |
| `moves_missing` | one torrent with missing files, three handles | reloads at any point of a move, by the rejection of its resume data, a restart, or the end of a move or of a cancelled one: the torrent always has its own native object, which is alive (`OwnsNative`) |
| `moves_exit` | one torrent with moves, resume data requests, state updates, removal, additions and the exit, under fairness | the counter that the exit waits for is exact (`AnswersAreCounted`), late state updates do not undo a move, the exit loop ends (`ShutdownEnds`), and a removed torrent leaves libtorrent (`RemovalEnds`); with state updates, `LocationIsKnown` again |

Bounds: three jobs in the queue are an active one, a queued one and one that
replaces it, for one or two torrents (`moves_queue`); with two, in the other runs,
what may add a job or restart a torrent (`Running`) happens while the queue holds at
most one, whereas ends of moves, rejections of resume data, which may reload, and
removals also happen with two; two paths are enough for a move to be
needed, meaningless or reversed; two native handles per torrent are one reload
or one new addition, and three, with missing files, a reload of a torrent that was
reloaded before; `MaxRequests` and `MaxUpdates` bound the answers waiting at
a time, and one of each is enough for it to be late. `Symmetry` permutes torrents
and handles, in runs that check no liveness.

Fairness (`Fairness`): the event loop runs the handlers of waiting alerts and
posted events, and libtorrent finishes its moves, saves and removals; both are
threads that never stop on their own. Nothing is assumed of the user, nor is it
assumed that moves succeed.

The runs that must find a violation, here and in the sections below, show where
the code does not keep to what a comment or an assertion in it says. Each is a
finding in `PROJECT.json`.

| Run | What the code does |
|---|---|
| `stuck_reload` | the rejection of the resume data (`torrentimpl.cpp:2625`), or `start()` of a torrent with missing files (2149), replaces the handle that its move jobs hold: the head of the queue is never answered |

Six more configurations, kept out of the list of runs because each concerns a
narrower constellation, make TLC find a violation of the property they name:

| Configuration | What the code does |
|---|---|
| `MoveStorage_v_cancel.cfg` | cancelling a queued change of save path sets the save path to where the files still are |
| `MoveStorage_v_stale.cfg` | the answer to a move of a removed torrent is applied to the torrent added again under its ID |
| `MoveStorage_v_remove.cfg` | a failed move of a torrent that is gone throws in its handler before the job is taken off the queue (`sessionimpl.cpp:6722`) |
| `MoveStorage_v_exit.cfg` | a move that ends during the exit leaves the old location in the resume data (`sessionimpl.cpp:3401`) |
| `MoveStorage_v_finished.cfg` | cancelling a queued move on request announces a finished torrent outside of alert handling; removing it then leaves a dangling entry in `m_pendingFinishedTorrents` (`sessionimpl.cpp:5774`) |
| `MoveStorage_v_content.cfg` | the entry of a torrent removed twice is taken by the end of the first of its native objects (`sessionimpl.cpp:7061`) |

The passing runs therefore leave out the constellation that a finding is about
where it would break the property: `HeadJobIsOngoing` is checked without missing
files and removals with content, `LocationIsKnown` without torrents that are
added again while their old native object is still closing.

### What is proved (`MoveStorageProofs`, `MoveTorrentsProofs`)

`TypeCorrect` (`Spec => []TypeOK`) and `SerialMoves` (`Spec =>
[]OneMoveAtATime`), for any sets of torrents, handles and paths, any layouts
and bounds, with reloads, removals and failures of every kind. `OneMoveAtATime`
is what the assertions of the two move alert handlers rely on.

Neither is inductive alone. A handler of a move alert takes the head off the
queue, which is well typed only if the queue is not empty; that follows from
`OneMoveAtATime`, whose own preservation needs the types. The inductive
invariant `Inv` is their conjunction, regrouped by the parts of the state that
change together, with the finiteness of the set of registered torrents (the exit
counts them): `Session` for the session's records, `NativeLocated` for
libtorrent's objects, and `Moves(queue, ops, alerts)`. The steps that concern
the queue are lemmas on `Moves`: changing the queue behind its head, posting or
handling another alert, starting the first job, answering a disk move, and
taking the answer. `SmallestExists` shows that the job cancelled by
`addMoveTorrentStorageJob` exists whenever there is one. Assumptions used:
`NullAssumption` and `ParameterAssumption`, both checked by TLC in every run.

`NativeOwned` (`OwnsNative`) and `AnswersCounted` (`AnswersAreCounted`) hold for
all constants as well. To `Inv` they add `Owning`: what the two properties say, that
a torrent whose finish notice waits says that it is moving, that a native torrent
that is not in use owes no answer, and that the counter is exact (`Counted`). The answers owed are a
set of pairs of a handle and a number (`OwedIn`), so that asking for another or
posting one changes it by one element (`OwedChanges`); the alerts that wait are
the set of their positions. `TorrentStep` is what all handlers of a single torrent
have in common.

`HeadIsOngoing`, `MovingAgrees`, `NoticeDelivered`, `NoneOrphaned` and
`LocationKnown` need the
hypothesis `KeptFiles`: no torrent misses files, and torrents are removed without
their content. The runs check these properties under the same restriction,
because the code does not fulfil them otherwise: `MoveStorage_v_reload.cfg`,
`MoveStorage_v_remove.cfg` and `MoveStorage_v_stale.cfg` have the counterexamples.
`NoticeWaitsForMove` would be violated by the first of them too: after a reload the
flag of a torrent no longer stands for a job of its native torrent.
Their invariant, `Settled`, is about what connects queue, torrents and
libtorrent: the owner of a native torrent that is alive is the registered torrent
of that handle (`Owners`); jobs are of live native torrents (`JobsAlive`), one of each
at most behind the head (`OneInactive`), and the head is being executed or its answer
waits (`Ongoing`); what a torrent takes for its location is right, or the alert that
corrects it has been posted (`Located`, `Reported`). The last is why the location
cannot be proved of the torrent alone: it is wrong between libtorrent's
move and the handling of the alert.

Only model-checked: liveness (`ShutdownEnds`, `RemovalEnds`), which is outside of
what the prover supports.


## 4. The SQLite resume data storage (`ResumeStore`, `ResumeWorker`)

### The code

`DBResumeDataStorage` stores and removes the resume data of torrents, and the
order of the queue, by jobs that a worker thread performs. `addJob` pushes under
`m_jobsMutex` and then signals `m_waitCondition`. The worker begins a transaction
when it wakes, under the write lock `m_dbLock`, performs jobs until it finds
the queue empty, and then commits and releases the lock. At startup a third
thread lists the torrents and then reads their rows under the read lock. The
destructor asks the worker to stop and waits for it.

### The models

`ResumeData` has the rows, the jobs and what each job does to the rows: storing
keeps the queue position of a row, and its metadata if none is given; storing the
queue updates the rows of the torrents listed and no others.

`ResumeStore` is what the session may rely on: `pending` requests, of which a
first part may take effect at once (`Flush`), be rolled back or fail (only with
`Failures`), or be lost when the process ends. Nothing takes effect twice or out
of order.

`ResumeWorker` has the three threads, each with a program counter:

| Variable | Code |
|---|---|
| `main` | between `push` and `wakeAll`; in the destructor between the interruption request, `wakeAll` and `wait` |
| `worker` | the statements of `Worker::run`; it holds `m_jobsMutex` in the states of `JobsLocked` |
| `loader`, `announced`, `delivered` | `doLoadAll` and what it has passed to the session |
| `jobs`, `current` | `m_jobs`, the job being performed |
| `interrupted`, `lock` | the interruption request, `m_dbLock` (released by whoever calls `unlock`) |
| `db`, `transacted`, `inTransaction`, `counted` | the committed rows, what the open transaction has done, `transactedJobsCount > 0` |

A step is what no other thread can observe in part: an access to the queue under
the mutex, the check of the interruption request, going to sleep, waking up,
beginning, committing, one job. The process may end anywhere (`Crash`) and start
again. Without an open transaction (a job queued before the worker's first look
at the queue) each statement is committed by itself. Taking the front of an
empty queue is undefined; the pointer it yields is null or garbage and the call
through it ends the process (`PopEmpty`). `Pending == transacted \o current \o
jobs` is the refinement mapping.

Not modelled: the creation and the upgrade of the schema, a database that the
worker cannot open, reads by the main thread (`load`, `registeredTorrents`), and
deleting the storage while it is being loaded.

### What is checked

| Run | Shows |
|---|---|
| `resume_order` | the refinement (`ImplementsStore`), with every kind of request, failures, early jobs and crashes; no wake for a job is lost (`NoLostWakeup`); types |
| `resume_live` | the two queries of the startup agree (`LoadIsConsistent`) if the worker waits before the first job is queued (`EarlyJobs = FALSE`); without failures every request takes effect (`EventuallyDurable`), provided requests pause: a stream of requests that keeps the queue from running empty postpones the commit for ever |
| `resume_exit` (violation) | the wake of the destructor is lost between the worker's check and its wait, and the exit hangs |

Two further configurations find a violation. `ResumeWorker_v_saved.cfg`: a worker
that is woken for a job and then asked to stop quits without performing it.
`ResumeWorker_v_commit.cfg`, of `CommittedAsLogged`: the message that changes are
committed does not depend on the result of the commit
(`dbresumedatastorage.cpp:763`).

Bounds: `MaxPending = 3` allows a performed, a current and a waiting job, or two
waiting ones behind the first; two torrents are enough for rows to be ordered and for
the startup to see one and miss the other. Fairness: the threads run; nothing is
assumed of the user, of failures or of crashes.

### What is proved (`ResumeWorkerProofs`)

`WorkerImplementsStore` (`Spec => ImplementsStore`), for any torrents, requests
and bounds, with failures, early jobs and crashes. The mapping needs to know
where jobs can be: `JobsInv` says that a job is current exactly while the worker
performs it, that only an open transaction holds performed jobs, and that
without failures none is left there when the worker checks whether to quit. Each
action is then a lemma on the sequence `Pending`: cut at the join (`CutConcat`,
for commit and roll-back), extended at its end (`PushedLast`), regrouped (`PopStore`,
`PerformStore`), or changed in the middle (`CutMiddle`, for a failed job).

`WakeupKept` (`Spec => []NoLostWakeup`) by `WakeInv`: the queue is empty from the
worker's look at it until it sleeps. `LoadConsistent` (`Spec =>
[]LoadIsConsistent` if jobs are not queued early) by `LockInv`: jobs are
performed and committed under the write lock, read under the read lock.

`WorkerTypes` (`Spec => []TypeOK`): the rows of the table are a fold of the jobs
over the rows committed before. `PerformSteps` unfolds the fold into a state for each
job, by an induction over sets of numbers (`Induction`); `PerformAllTyped` then
follows from one job (`PerformTyped`). The assumptions are those of the module.

Only model-checked: `EventuallyDurable`, which is liveness.

## 5. The registry of torrents (`InfoHashes`, `TorrentRegistry`)

### The code

A torrent is known by a hash of version 1, one of version 2, or both (a *hybrid*
torrent). Its ID is the second hash if it is known and else the first, so the
ID of a torrent that was added by its first hash changes when its metadata
arrives. `SessionImpl` keeps `m_torrents` by ID and `m_hybridTorrentsByAltID` by
the other hash; `m_changedTorrentIDs` remembers the ID that the resume data is
still stored under. Additions are asynchronous: libtorrent answers each by one
`add_torrent` alert, and the session takes the first function in
`m_addTorrentAlertHandlers` for it. The same queue serves additions by the
user, hidden additions that only download metadata, and torrents that are
*reloaded* (removed and added again, with metadata). When two native torrents
turn out to be one hybrid torrent libtorrent posts a conflict.

### The model

| Variable | Code |
|---|---|
| `registry`, `altIndex` | `m_torrents`, `m_hybridTorrentsByAltID` |
| `torrents` | the `TorrentImpl` objects: hashes, native handle, whether they have metadata, `m_maintenanceJob`, whether resume data has been stored |
| `downloaded` | `m_downloadedMetadata` |
| `changedIDs`, `rows` | `m_changedTorrentIDs`, the IDs in the resume data storage |
| `addHandlers` | `m_addTorrentAlertHandlers`, by the kind of caller |
| `pending` | calls queued for the main thread or the worker thread: a bag, as they come from different objects |
| `natives`, `alerts` | libtorrent's torrents and alert queue (external) |

`AddTorrent`, `AddDuplicate`, `DownloadMetadata`, `CancelDownloadMetadata` and
`RemoveTorrent` are requests. `HandleAdded`, `HandleHidden` and `HandleReloaded`
are the handlers of the three kinds of additions; `HandleMetadata`,
`HandleHiddenMetadata`, `HandleResumeData` and `HandleConflict` the alert
handlers. `RequestResumeData`, `SetMetadata` and `EndMetadata` are queued calls:
metadata is handled in five steps, from the alert through the deferred request,
its answer and the search for files to the reload. `ReceiveMetadata` is
libtorrent's.

Left out: merging trackers and web seeds into a torrent that is added again,
torrent file backups, and errors of `add_torrent` other than a duplicate.

### What is checked

`registry`: every alert meets the handler of the call that it answers
(`HandlersMatchAlerts`); both indexes name exactly the torrents there are
(`IndexIsExact`); what a torrent refers to is in libtorrent (`TorrentHasNative`);
a stored torrent is found by the next start under its ID or the one it changed
from (`StoredIsFound`); a torrent that has received its metadata is loaded with
it (`MetadataIsLoaded`).

Bounds: one hybrid torrent, as torrents of different content meet nowhere but in
the order of alerts, and two of its hashes are already two torrents. Four
requests are two additions, a removal and a download of metadata. Fairness: the
event loop and the worker thread run; libtorrent may never receive metadata.

The passing run leaves out two constellations (`Races`), each of which breaks a
property:

| Configuration | What the code does |
|---|---|
| `TorrentRegistry_v_share.cfg` | metadata of a torrent is asked for while its addition is on its way, or by a hash that only libtorrent knows to be its own: the hidden torrent is given the native torrent of the user's, and its end removes it (`sessionimpl.cpp:3289`) |
| `TorrentRegistry_v_removed.cfg` | a torrent is removed between the change of its ID and its next resume data: its row stays under the old ID, and comes back with the next start (`sessionimpl.cpp:2712`) |
| `TorrentRegistry_v_stored.cfg` | the entry of `m_changedTorrentIDs` left by such a removal makes the next torrent of that ID remove its own row |

### What is proved (`TorrentRegistryProofs`)

For any hashes, any number of requests and any bound on handles:

| Theorem | Property | Hypothesis |
|---|---|---|
| `HandlersMatch` | `HandlersMatchAlerts` | none |
| `IndexExact`, `TorrentsHaveNatives` | `IndexIsExact`, `TorrentHasNative` | `"share" \notin Races` |
| `StoredFound`, `RemovedGone` | `StoredIsFound`, `RemovedIsGone` | `Races = {}` |
| `RegistryTyped` | `TypeOK` | `"share" \notin Races` |

The hypotheses are needed: `TorrentRegistry_v_share.cfg`, `_v_removed.cfg` and
`_v_stored.cfg` are counterexamples without them. The run `registry` has
`Races = {}`.

`HandlersMatch` is inductive by itself, once the position of an addition is that
of the additions counted before it: a posted alert and its handler go to the
ends of the two queues, a handled one leaves at both heads, and any other alert
changes no count.

`RegistryInv` is the invariant of all the others, and enough for two. The indexes are exact
(`IndexesAgree`) only if no two torrents share a hash. They do not because each
has a native torrent of its own that knows all its hashes (`TorrentsOwn`) and
libtorrent keeps native torrents apart (`NativesApart`). That must hold already
of the additions whose alerts are waiting (`AdditionsOwn`), and none of either may
be a hidden torrent, which is removed with its download (`HiddenApart`: this
is where a shared torrent breaks it). A torrent takes over all hashes of its
native torrent when its metadata comes, so behind an alert of metadata no other torrent
of the same content may be without them (`MetadataIsFull`, `JobsAreFull`). Most
handlers only shorten the queue of alerts or append to it; `AlertsStep` says so
once, and lemmas carry each part of the invariant over such a step.

`StoredInv` adds what is stored. An entry of `m_changedTorrentIDs` belongs to a
torrent of the session that knows both hashes now, and leads from its second
hash to its first (`ChangesAreKnown`). The two properties hold only together: a
row that no torrent owns could be overwritten or removed by the next one of its ID.

`TypeOK` says that the native torrents are at most two for each request
(`Handle`), which none of its other parts implies: a torrent that is loaded again
brings another native torrent, and the calls that lead there are queued, answered
and queued again. `CountInv` charges each second one before it comes: to a native
torrent that has no metadata yet, then to the alert of its metadata, then to the
torrent whose files are looked for, where the reload takes it; an addition still
queued is charged with both. Every step moves a charge or drops it, and only an
addition or a download makes one. `CountGrows` adds up what a step changes of the
five numbers; the lemmas on bags say what queuing, doing and dropping a call
changes of the additions queued.

Only model-checked: `MetadataIsLoaded`, which is liveness.

## 6. Startup and migration (`StartupRestore`)

### The code

Resume data is loaded by a thread from the *startup storage*: the database, or
the files if there is no database yet. Rows are handed over in batches;
`handleLoadedResumeData` takes them one by one, as long as fewer than a limit
are being processed by libtorrent, and each `add_torrent` alert makes room for
another. Rows of hybrid torrents may be stored under the ID of the first hash
(`TorrentID` changed since): the loop looks for the other row of the torrent in an
index of all loaded rows, takes metadata from it and skips or removes it. If the
startup storage is not the one in use, every torrent is stored in the latter.
The startup ends when everything has been loaded and nothing is being processed.

### The model

| Variable | Code |
|---|---|
| `stored`, `dbExists` | the rows of both storages, `torrents.db` |
| `jobs` | what the worker of `m_resumeDataStorage` has not done |
| `storageType`, `startupStorage`, `phase` | the storage in use, the one loaded from, the state of the session |
| `loading`, `loadedData` | the loading thread, `m_loadedResumeData` |
| `context` | `ResumeSessionContext`: rows, `processingResumeDataCount`, `isLoadFinished`, `indexedTorrents`, `skippedIDs` |
| `events`, `handling`, `batch` | the main thread's queue, which of its loops it is in, the alerts that `readAlerts` has fetched |
| `natives`, `adding`, `posted` | libtorrent's torrents, additions it has not answered, alerts it has posted (external) |
| `restored` | the `TorrentImpl` objects |
| `starts`, `incident`, `owned`, `removed` | the number of starts; which disturbance this behaviour may have; what could be read at this start and what was removed since: what properties compare with |

`PrepareStartup` is `prepareStartup`, `LoaderStep` the thread, `MainStep` the
events of the main thread, `AddNative` and `AlertStep` libtorrent and the
delivery of alerts, `PerformStorageJob` the worker of the storage. The user may
remove a restored torrent, the program may exit or crash and be started again,
with the other storage type if the user has chosen so.

Left out: categories and tags recovered from resume data, `add_torrent` alerts
with errors, and the queue positions that are recorded for files.

### What is checked

`startup`: the counter that the end of the startup depends on is the number of
additions that libtorrent has not answered and does not exceed its limit
(`ProcessingIsOutstanding`); no queued call outlives the context it points to
(`ContextOutlivesCalls`); when the startup has ended every readable torrent is in
the session with its metadata (`AllRestored`), none twice (`RestoredOnce`), and
the next start will find all of them (`StoredIsKept`); the startup ends
(`StartupEndsUndisturbed`). With reloads in between (`incident = "reject"`) the
first three and the last cannot hold:

`startup_stuck` (violation): a torrent that is reloaded during the startup has a
second `add_torrent` alert, which is counted although its handler is empty; the
counter is never 0 again when it matters. In other orders the startup ends too
early, or the context is used after it was deleted.

| Configuration | What the code does |
|---|---|
| `StartupRestore_v_twice.cfg` | the old row of a hybrid torrent, left by an exit between storing the new and removing the old, is loaded first and restored, and so is the new one: two torrents share a native one |
| `StartupRestore_v_crash.cfg` | the database exists from the first step of the migration; a crash before its end leaves it incomplete, and the files are not looked at again (`sessionimpl.cpp:1486`) |
| `StartupRestore_v_metadata.cfg` | metadata taken from the row under the other ID is not stored with the row that is kept, and the other is removed (`sessionimpl.cpp:1605`) |
| `StartupRestore_v_removed.cfg` | the files stay when torrents are migrated to the database; torrents removed since come back when the user returns to files |

Bounds: a hybrid torrent stored under both IDs beside another torrent is the
largest row set in which the order of rows matters; a limit of 2 lets torrents wait
while two are processed; two starts are a migration and what it has left, or a
crash and the start after it. Fairness: all threads run; the user, exits and
crashes are free.

### What is proved (`StartupRestoreProofs`)

For any finite set of torrents, any rows to begin with, any limit, and every
sequence of starts, migrations, reloads, removals and crashes:

`OutstandingCounted` (`ProcessingIsOutstanding`) and `NoCallAfterContext`
(`ContextOutlivesCalls`). The properties themselves except behaviours with
reloads (`incident = "reject"`), where `StartupRestore_v_stuck.cfg` shows what
happens. `StartInv` is inductive: `Types`; `Control`, the course of every start
(nothing is left of a process that has ended; nothing is handled before the
thread has said which torrents there are; who may enter the loop), and `Calm`,
which holds when no torrent is reloaded: every alert is the answer to one call, at
most one queued call enters the loop, and it is queued exactly while the context
says so (`enqueued`), so that none is left when the deletion of the context is queued.

`RestoredOnlyOnce` (`RestoredOnce`), reloads and crashes included, unless the last
exit came between storing the row of a hybrid torrent under its new ID and
removing the old one (`incident = "leftover"`): then it is violated
(`StartupRestore_v_twice.cfg`). Its invariant, `OneTorrent`, follows the rows
through the storages, the jobs of the worker, the loading thread, the loop and
libtorrent: all rows of one content that are known anywhere know both hashes or
one (`Alike`); an ID that still waits is one that no torrent in libtorrent has,
unless it is to be passed over (`Unused`); so no two additions share a hash
(`ApartRows`), libtorrent makes a new native torrent of each, and the handles in
posted alerts, in the batch and in the torrents differ (`DistinctHandles`).

`StoredKept` (`StoredIsKept`), with no restriction: rows left over, reloads and
earlier crashes included. The property speaks of the moments when the worker is
done; its invariant, `Course`, of all others. `Preserved`: while the process runs,
every torrent the user has not removed has an ID whose last job stores a readable
row, or which has such a row and no job (`WillStore`), or, in a migration, one whose
row is still to be taken (`NotYet`). It needs that a row to be taken is as it was
loaded, which is so because no job is about its ID unless the jobs go to the other
storage (`Unaltered`): a job is about the row that was taken or about one that is
passed over from then on, and the latter holds as all IDs are indexed before the
first row is taken (`Announced`). `Drained` and `InUse` say that nothing is deleted
before all rows are taken, and that the storage the next start will choose is the
one in use or is about to be deleted.

`EveryRestored` (`AllRestored`), unless rows were left over: then a row under the
old ID may have lost its metadata to the new one. Its invariant adds `Accounted`:
every torrent has a row that is restored or on its way to be (given to libtorrent,
in a posted alert, in the batch), with metadata if any of its rows had it, or one
that is still to be taken. That libtorrent makes a new native torrent of every
addition, and so with the row it was given, comes from `OneTorrent`.

`StartupTyped` (`StartupTypeOK`), with no restriction. That the handle of a torrent
is that of a native torrent that is still there needs `AreThere`: the torrents, and
the answers on their way, have live natives (`Living`) of their own content
(`OfContent`), so that the guard of a removal spares those of the others; and a
native torrent is rejected after its answer (`RejectsFollow`), so that its torrent
has been made when it is reloaded.

Only model-checked: that the startup ends.

## 7. Services (`MCServices`)

Six services around the core that share no state. `MCServices` composes them for
one run, `services`: `service` says which one a behaviour is of, so that the
state space is their sum and not their product. Fairness is per service;
`ServicesSymmetry` permutes torrents, the contents of fields and the requests for
peers, which occur in no liveness property and no fairness condition.

### Settings (`SettingsFile`)

`SettingsStorage` keeps `m_data` in memory, and some seconds after a change
writes all of it to `qBittorrent_new.ini`, removes `qBittorrent.ini` and renames
the new file. A start that finds the new file takes it and finishes the
replacement. `storage` is the place in `save` or `readNativeSettings`; each file
operation is an action that may fail on a disk where it can (`DiskFaults`), and
the process may end between any two. The two files are maps from keys to values.
`QSettings` merges what it writes with what is in its file (`Merged`).

`SettingsAtomic`: each step leaves to the next start the settings that it would
have read before, or those in memory; checked where renaming and removing work, as
a new file that was left behind is merged and keys removed since are in it
again. `SettingsNotLost`: there is always something to read, unless both writing
and renaming fail, which together can lose all settings. `ChangesAreSaved`: a
failed save is retried. Assumed: the program never removes its last setting.

### Downloads (`Downloads`)

`DownloadManager` lets one request at a time run to a *sequential* service; others
wait, and the end of a reply starts a timer that starts the next. `download` is
each `DownloadHandlerImpl`, `busy`, `waitingJobs` and `nextJob` the maps by
service. A redirection goes on at another service, which may have a queue of its
own. `WaitingIsStarted`: whatever happens to the requests before it, a waiting
one is started or cancelled. A download ends in the end (it has a transfer
timeout), and its redirections are limited.

That at most one request runs (`OneAtATime`) is violated when a service is
registered while requests to it run (`Downloads_v_parallel.cfg`,
`downloadmanager.cpp:225`). Left out: the size limit, which finishes a handler
twice (`downloadhandlerimpl.cpp:200`).

### Web interface synchronization (`SyncMaindata`, `SyncPeers`)

`api/v2/sync/maindata` sends what has changed since the response that the page
acknowledges; `m_maindataSyncBuf` gathers the changes of all responses since the
last acknowledged one, `m_maindataSnapshot` is what the next change is compared
with. `Signal` and the actions that use it are the handlers of the session's
signals; `Maindata` is a request with its response, which may be lost, and
`Shown` what `client.js` makes of it. Request and response are one step, since a
page has one request at a time (`syncRequestInProgress`, `client.js:1016`).

The list of peers has a protocol of its own (`generateSyncData`), in which the
server keeps the last response and the last acknowledged one and compares with
the latter. Here the page does not wait: `updateData` (`prop-peers.js:123`), called
at every selection of a torrent and of the tab, asks whether or not a request is
under way. So `LoadPeers` sends a request with the ID that the list has then,
`TorrentPeers` is the server's answer, `ReceivePeers` applies it to what the list
shows by then, and `LosePeers` loses a request or its answer; each list may have
`Fetch` requests under way, which the server handles and the list receives in
any order. `ClosePane` is the list that is hidden or has no torrent, `ClearPane`
the `clear` of `client.js`, which keeps the response ID.

`MaindataIsExact`: a page that has received the last response shows the server's
state, over the wrap-around of response IDs, with one page and single lost
responses. `PeersAreExact`: a list that has received the last response shows the
peers of that response, over lost requests and responses, as long as it is
*undisturbed*: `undisturbed` is a history variable that says that the list, since its
last request for everything, has had one request at a time and has not been
cleared. It becomes false with a request sent beside another one or a `clear`, and
true again with a request for everything that is the only one. In between
the property says nothing, and nothing of the kind holds
(`SyncPeers_v_overlap.cfg`).

Bounds: for maindata two torrents with two values each; for peers one peer with
two values and two requests. Response IDs up to 3 wrap around within a few
requests; one response is lost in a row.

`sync_tags` (violation): a tag removed and added again between two requests is in
the snapshot twice, and stays after it is removed (`synccontroller.cpp:650`).

| Configuration | What the code does |
|---|---|
| `SyncMaindata_v_tabs.cfg` | two pages of one web session share one acknowledged ID and one buffer: an ID acknowledged by one of them is taken for what the other has (`synccontroller.cpp:534`) |
| `SyncPeers_v_overlap.cfg` | two requests with one ID overlap (`prop-peers.js:123-127`): the second difference is made from what the list showed before the first was applied, so that a peer that the first has added and that is gone in the second stays (`GonePeersVanish`). Two lists of one web session disturb each other as well: `PeersAreExact` is violated with `Pane = {p1, p2}` |
| `SyncMaindata_v_lost.cfg` | with two lost responses an ID can be twice in `removedTorrents` of the buffer; one of the two stays when the torrent is added again |

### Resume data in files (`ResumeFiles`)

`BencodeResumeDataStorage` posts its calls to a worker thread, in their order
(`calls`). `store` writes the `.torrent` file with the metadata and then the
`.fastresume` file, `remove` removes them in the opposite order, `storeQueue`
writes the file with the order of the queue; `writing` is the call being performed
and the file it is at. Operations fail on disks where they can, the process may
end between files, and an exit drops the calls that the thread has not taken
when it is told to quit. `MetadataIsThere`: resume data of a torrent with
metadata is never without the metadata file, unless a removal failed.
`QueueIsRestored`: `loadQueue`, translated with its index and its swaps, yields all
torrents of the folder, and before each torrent of the queue file only those that
precede it there. It is a statement about that one function, which does not
depend on the state; checked for all folders and all queue files of four torrents, and
proved for all.

### Watched folders (`WatchedFolders`)

`TorrentFilesWatcher` posts changes of its folder to a worker thread that looks at
the folder some seconds after a change is reported, or by a timer if it is
recursive. A `.torrent` file that cannot be loaded is taken for partial and tried
again by another timer, up to a limit, and then rejected, which is to be renamed to
its name with `.qbt_rejected`, and forgotten. The renaming does not replace a file
(`Utils::Fs::renameFile`), and its result is not looked at
(`torrentfileswatcher.cpp:496`): `rejected` are the names that are taken, and only a
`Rejectable` file is renamed. A magnet file that cannot be opened or is too big
(418–426) is only logged and stays (`unreadable`).

`FilesAreTaken`: a file in a watched folder that is being written or complete is
taken or rejected in the end, unless it is deleted, the folder is no longer
watched, or there is a rejected file of its name already. Assumed is that timers
fire, that the thread runs, that files can be removed and, without a file in the
way, renamed, and that a magnet file that cannot be read stays so until it is
deleted; not that a file is ever completed. Of all files this is not true
(`WatchedFolders_v_left.cfg`).

| Configuration | What the code does |
|---|---|
| `WatchedFolders_v_removed.cfg` | a look that was scheduled before the folder was removed is performed, with default options (`torrentfileswatcher.cpp:361`) |
| `WatchedFolders_v_left.cfg` | a file that arrives again under the name of a rejected one cannot be renamed, is forgotten, and is not looked at again in a plain folder, not even when it has become complete (`NoFileIsLeft`); a magnet file that cannot be read is neither taken nor rejected |
| `WatchedFolders_v_magnet.cfg` | a `.magnet` file has no form that shows that it is partial: it is taken while it is written, and its links are cut |

### What is proved (`ServicesProofs`, `SyncMaindataProofs`, `ResumeFilesProofs`)

`SettingsSurvive` (`SettingsSpec => []SettingsNotLost`) and `SettingsReplaced`
(`SettingsSpec => SettingsAtomic`), for any keys, values, disks and bounds. The
inductive invariant `SettingsInv` adds to the types which files have settings in
each state of a save or a start: `NotLostInv`, where a disk does not fail both
in writing and in renaming, and `NothingLeftInv`, where renaming and removing
work, so that the new file is empty before it is written. The disk of a behaviour
does not change, so each part is inductive under its own assumption.
`ContentsFacts` are the facts about merging: settings merged with an empty
file are the settings, and what is merged with settings is not empty.

`PaneExact` (`PeersSpec => []PeersAreExact` if there is a single list), for any
peers, contents, numbers of requests under way and ranges of IDs larger than the
number of responses lost in a row. `PaneInv` says what the server's two responses
are to an undisturbed list. With no answer on its way (`NothingToCome`), the last
response is what the list shows, or the acknowledged one is and the last one's ID
is as many steps after it as responses were lost (`PaneBehind`, `Later`), so that
it is never taken for the list's own. With a request under way (`ToCome`) it is the
only one, and its answer applied to what the list shows gives the last response.
`DifferenceApplied` is the heart: a difference applied to what it was made from
gives the new list; it is what overlapping requests break.

`MaindataExact` (`SyncSpec => []MaindataIsExact`), for any torrents, tags, values
and ranges of IDs, with a single page (`Tab = {p}`) and no two responses lost in a
row (`MaxLost \in 0..1`), the constellation that the run checks: with two pages or
two losses it is violated (`SyncMaindata_v_tabs.cfg`, `SyncMaindata_v_lost.cfg`).
`SyncInv` says what the lists of changes are to the snapshot (`TorrentsInv`,
`TagsInv`) and what the snapshot and the buffer are to the page (`PageInv`): the
snapshot is what it shows, or the last response is lost and the buffer leads from
what it shows to the snapshot (`Leads`).

`MetadataSurvives` (`FilesSpec => []MetadataIsThere`), for all constants. Between the
two files of a torrent (`BetweenFiles`), a store has written the metadata of the
resume data it writes next, and a removal has removed the resume data whose
metadata it removes next; both orders are needed.

`QueueRestored` (`FilesSpec => []QueueIsRestored`), for any finite set of IDs: the
folder's list, the file's lines and which of them are of torrents that are gone are
arbitrary. `AllLines` is the fold over the lines; `LoadSteps` unfolds its
recursive function once and for all into a state before and after each line, by an
induction over the sets of lines. `LoadedSoFar` is then the loop invariant of
`loadQueue`: the positions before the next one hold exactly the torrents whose
lines have come, in the order of the lines, and the index finds every torrent
whose line is still to come. `LineOfOne` shows why the index of the torrent that
makes room must be changed (`moved`). Induction is stated over sets of numbers
(`Induction`), from the well-foundedness of `<`, as the library's induction theorems
take an operator.

`ServicesTyped` (`ServicesSpec => []ServicesTypeOK`), for all constants, with one
page, one list of peers and no two responses lost in a row. It composes the
invariants of the services: a step of one is a step, or none, of each (`OneRuns`).
New are those of the downloads and the watched folders. `DownloadTypeOK` says that
`waitingJobs[s]` holds exactly the downloads that wait for `s`; that is inductive
only with `NotTwice`, since `removeOne` takes one entry, and with a service for
every download that waits or runs (`DownloadInv`). `Entered`, `HeadLeft` and `OneLeft`
say what a queue holds after an entry, a start and a cancellation. `WatchedTypeOK` is
inductive by itself.

Only model-checked: the liveness properties (`ChangesAreSaved`,
`WaitingIsStarted`, `FilesAreTaken`).

## 8. Not modelled, and why

Each part is listed in `PROJECT.json` (`components`) with its reason. In short:

- sequential computations that unit tests reach: categories and share limits, the
  bandwidth scheduler, filters, path handling, feeds and their rules;
- sets with a limit changed on one thread: web interface sessions, torrent
  creation tasks, the embedded tracker;
- text processing and external processes: HTTP parsing, search plugins, scripts,
  mail, GeoIP and DNS clients;
- what a model would have to invent, because libtorrent decides it: the transfer
  state of a torrent, priorities and renaming of files, the disk operations
  behind a move;
- the key-value storage, whose worker thread is that of `ResumeWorker`;
- the graphical interface.

## Reading and running

Each `.cfg` belongs to the module named in `PROJECT.json` (`runs`):
`tlc -config MoveStorage_queue.cfg MCMoveStorage`. `tlapm
MoveStorageProofs.tla` checks the proofs of a module. Mutants (`PROJECT.json`, `mutants`)
are definitions with a suffix (`KeepsNative_Always`): replacing the definition
of the same name by one of them breaks the property listed with it.
