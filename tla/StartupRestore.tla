--------------------------- MODULE StartupRestore ---------------------------
(***************************************************************************)
(* The start of a session: resume data is loaded from the startup storage  *)
(* by a thread, taken over by the main thread a limited number of torrents *)
(* at a time, and stored anew when the type of storage has changed or when *)
(* a hybrid torrent is stored under the ID of its first hash.              *)
(*                                                                         *)
(* Four threads: the loading thread, the main thread with its queue of     *)
(* events, libtorrent, and the worker of the storage in use.               *)
(***************************************************************************)
EXTENDS InfoHashes, Integers, Sequences, SequencesExt

CONSTANTS
  MaxProcessing,   \* MAX_PROCESSING_RESUMEDATA_COUNT
  Incidents,       \* what may happen besides, in one run of the model at most one of:
                   \*   "none": nothing;
                   \*   "crash": the process ends at any time (and no torrent is removed);
                   \*   "leftover": the last exit came between storing a torrent under
                   \*     its new ID and removing it under the old one;
                   \*   "reject": files are missing and a torrent is reloaded
  MaxStarts        \* bound: starts of the program

ASSUME StartupAssumption ==
  /\ IsFiniteSet(Content)     \* so that a storage has finitely many rows
  /\ MaxProcessing \in Nat \ {0}
  /\ Incidents \subseteq {"none", "crash", "leftover", "reject"} /\ Incidents # {}
  /\ MaxStarts \in Nat

VARIABLES
  stored,          \* the resume data in the files and in the database
  dbExists,        \* torrents.db is there
  jobs,            \* what the worker of m_resumeDataStorage has not done yet
  storageType,     \* resumeDataStorageType()
  startupStorage,  \* where the resume data is loaded from
  starts,          \* the number of starts so far
  phase,           \* of the session
  loading,         \* the loading thread: what it does, and the IDs it has not loaded
  loadedData,      \* m_loadedResumeData of the startup storage
  context,         \* the ResumeSessionContext
  events,          \* queued for the main thread
  handling,        \* what the main thread is in: handleLoadedResumeData, or readAlerts
  natives,         \* the native torrents in the order of their handles
  adding,          \* calls of async_add_torrent libtorrent has not answered
  posted,          \* alerts libtorrent has posted
  batch,           \* alerts readAlerts has fetched
  restored,        \* the TorrentImpl objects
  incident,        \* which of the Incidents may happen
  owned,           \* what could be read at this start: torrents, and those with metadata
  removed          \* what the user has removed

diskVars == <<stored, dbExists>>
loadVars == <<loading, loadedData>>
nativeVars == <<natives, adding, posted, batch>>
startVars == <<storageType, startupStorage, starts, incident, owned>>
userVars == <<restored, removed>>
startupVars ==
  <<diskVars, jobs, startVars, phase, loadVars, context, events, handling, nativeVars, userVars>>

Storage == {"files", "db"}

\* Resume data as it is stored: with the metadata all hashes are known.
Row == {row \in [hashes: InfoHash, meta: BOOLEAN, readable: BOOLEAN] :
          row.meta => row.hashes = AllHashes(ContentOf(row.hashes))}
NoRows == [id \in {} |-> {}]
Without(rows, id) == [other \in DOMAIN rows \ {id} |-> rows[other]]
With(rows, id, row) == [other \in DOMAIN rows \cup {id} |-> IF other = id THEN row ELSE rows[other]]

Unreadable(id) == [hashes |-> {id}, meta |-> FALSE, readable |-> FALSE]
Load(id) == IF id \in DOMAIN stored[startupStorage] THEN stored[startupStorage][id] ELSE Unreadable(id)

Migrating == startupStorage # storageType

\* The main thread handles its events one by one.
Event(type, ids) == [type |-> type, ids |-> ids]
CanHandle(type) == phase # "undefined" /\ handling = "none" /\ events # <<>> /\ Head(events).type = type

NoContext ==
  [alive |-> FALSE, loaded |-> <<>>, processing |-> 0, finished |-> FALSE, enqueued |-> FALSE,
   indexed |-> {}, skipped |-> {}]

\* What the user has when this is stored.
OwnedIn(rows) ==
  LET readable == {rows[id] : id \in {i \in DOMAIN rows : rows[i].readable}} IN
  [torrents |-> {ContentOf(row.hashes) : row \in readable},
   metadata |-> {ContentOf(row.hashes) : row \in {r \in readable : r.meta}}]

\* The rows of one hybrid torrent: an old row may know one hash only, and the new
\* one both, if the last exit came too early for the removal of the old one.
LeftOver(rows) ==
  \E old, new \in DOMAIN rows :
    /\ rows[old].hashes = {old} /\ rows[new].hashes = {old, new} /\ old # new
    /\ old = V1({old, new})

SameHybrid(rows) ==
  \A id, other \in DOMAIN rows :
    id[1] = other[1] /\ rows[id].readable /\ rows[other].readable =>
      IsHybrid(rows[id].hashes) = IsHybrid(rows[other].hashes)

\* The rows of hybrid torrents vary; that of another has its metadata.
RowsUnder(id) ==
  IF id[1] \in Hybrid
  THEN {row \in Row : row.readable /\ id \in row.hashes} \cup {Unreadable(id)}
  ELSE {[hashes |-> {id}, meta |-> TRUE, readable |-> TRUE]}
InitialRows == {rows \in UNION {[ids -> Row] : ids \in SUBSET ID} : \A id \in DOMAIN rows : rows[id] \in RowsUnder(id)}

-----------------------------------------------------------------------------
StartupInit ==
  /\ \E rows \in InitialRows, source \in Storage :
       /\ stored = [s \in Storage |-> IF s = source THEN rows ELSE NoRows]
       /\ dbExists = (source = "db")
       /\ incident \in Incidents
       /\ SameHybrid(rows) \/ (incident = "leftover" /\ LeftOver(rows))
  /\ owned = [torrents |-> {}, metadata |-> {}]
  /\ removed = {}
  /\ jobs = <<>>
  /\ storageType = "files" /\ startupStorage = "files" /\ starts = 0
  /\ phase = "off"
  /\ loading = [state |-> "done", todo |-> <<>>]
  /\ loadedData = <<>>
  /\ context = NoContext
  /\ events = <<>>
  /\ handling = "none"
  /\ natives = <<>> /\ adding = <<>> /\ posted = <<>> /\ batch = <<>>
  /\ restored = <<>>

\* prepareStartup.  Whether torrents.db exists decides what is loaded; a
\* database that is to be used is created at once.
PrepareStartup(type) ==
  /\ phase = "off" /\ starts < MaxStarts
  /\ starts' = starts + 1
  /\ storageType' = type
  /\ startupStorage' = IF dbExists THEN "db" ELSE "files"
  /\ dbExists' = (dbExists \/ type = "db")
  /\ \E order \in SetToSeqs(DOMAIN stored[startupStorage']) :
       loading' = [state |-> "start", todo |-> order]
  /\ context' = [NoContext EXCEPT !.alive = TRUE]
  /\ phase' = "startup"
  /\ owned' = OwnedIn(stored[startupStorage'])
  /\ UNCHANGED <<stored, jobs, loadedData, events, handling, nativeVars, incident, userVars>>

-----------------------------------------------------------------------------
(* The loading thread. *)

LoadStarted ==
  /\ loading.state = "start"
  /\ loading' = [loading EXCEPT !.state = "load"]
  /\ events' = Append(events, Event("started", ToSet(loading.todo)))
  /\ UNCHANGED <<diskVars, jobs, startVars, phase, loadedData, context, handling, nativeVars, userVars>>

\* onResumeDataLoaded
LoadNext ==
  /\ loading.state = "load" /\ loading.todo # <<>>
  /\ LET id == Head(loading.todo) IN
     loadedData' = Append(loadedData, [id |-> id, row |-> Load(id)])
  /\ loading' = [loading EXCEPT !.todo = Tail(@)]
  /\ UNCHANGED <<diskVars, jobs, startVars, phase, context, events, handling, nativeVars, userVars>>

LoadFinished ==
  /\ loading.state = "load" /\ loading.todo = <<>>
  /\ loading' = [loading EXCEPT !.state = "done"]
  /\ events' = Append(events, Event("finished", {}))
  /\ UNCHANGED <<diskVars, jobs, startVars, phase, loadedData, context, handling, nativeVars, userVars>>

-----------------------------------------------------------------------------
(* The main thread: events one by one, and the loop of handleLoadedResumeData. *)


\* Calls handleLoadedResumeData later, once.
Enqueued(ctx) == [ctx EXCEPT !.enqueued = TRUE]
EventsWithHandling(ctx) == IF ctx.enqueued THEN events ELSE Append(events, Event("handle", {}))

\* The handler of loadStarted, or the queued call, enters the loop.
BeginHandling ==
  /\ \/ CanHandle("started") /\ context' = [context EXCEPT !.enqueued = FALSE, !.indexed = Head(events).ids]
     \/ CanHandle("handle") /\ context.alive /\ context' = [context EXCEPT !.enqueued = FALSE]
  /\ handling' = "data"
  /\ events' = Tail(events)
  /\ UNCHANGED <<diskVars, jobs, startVars, phase, loadVars, nativeVars, userVars>>

\* The queued call is not bound to the context: it comes after its end as well.
HandleWithoutContext ==
  /\ CanHandle("handle")
  /\ ~context.alive
  /\ phase' = "undefined"
  /\ events' = Tail(events)
  /\ UNCHANGED <<diskVars, jobs, startVars, loadVars, context, handling, nativeVars, userVars>>

NoteLoadFinished ==
  /\ CanHandle("finished")
  /\ context' = [context EXCEPT !.finished = TRUE]
  /\ events' = Tail(events)
  /\ UNCHANGED <<diskVars, jobs, startVars, phase, loadVars, handling, nativeVars, userVars>>

Available == IF context.loaded = <<>> THEN loadedData ELSE context.loaded

WithMetadata(row, other) ==
  IF other.readable /\ other.meta
  THEN [row EXCEPT !.meta = TRUE, !.hashes = AllHashes(ContentOf(@))]
  ELSE row

StoreJob(id, row) == [op |-> "store", id |-> id, row |-> row]
RemoveJob(id) == [op |-> "remove", id |-> id, row |-> Unreadable(id)]

\* processNextResumeData: a hybrid torrent belongs under its second hash.
Old(id, row) == id # ToTorrentID(row.hashes)
HasAlternative(id, row) == ~Old(id, row) /\ IsHybrid(row.hashes) /\ V1(row.hashes) \in context.indexed
HasPreferred(id, row) == Old(id, row) /\ V2(row.hashes) \in context.indexed

\* Mutant: the other row is not skipped when its turn comes.
Skips_None(id, row) == {}

\* The row under the other hash is not to be loaded any more.
Skips(id, row) ==
  IF HasAlternative(id, row) THEN {V1(row.hashes)}
  ELSE IF HasPreferred(id, row) THEN {V2(row.hashes)}
  ELSE {}

\* Mutant: the metadata of the row that is removed is not looked at.
Used_NoMetadata(id, row) ==
  IF HasPreferred(id, row) /\ Load(V2(row.hashes)).readable THEN Load(V2(row.hashes)) ELSE row

\* The row under the first hash adds its metadata, if that is missing, or is
\* used itself when there is no other.
Used(id, row) ==
  IF HasAlternative(id, row) THEN WithMetadata(row, Load(V1(row.hashes)))
  ELSE IF HasPreferred(id, row) /\ Load(V2(row.hashes)).readable
  THEN WithMetadata(Load(V2(row.hashes)), row)
  ELSE row

\* Mutant: a row that is used as it is, is not stored in the new storage.
StorageJobs_NotMigrated(id, row) ==
  (IF HasAlternative(id, row) \/ Old(id, row) THEN <<RemoveJob(V1(row.hashes))>> ELSE <<>>)
  \o (IF Old(id, row) THEN <<StoreJob(ToTorrentID(row.hashes), Used(id, row))>> ELSE <<>>)

StorageJobs(id, row) ==
  (IF HasAlternative(id, row) \/ Old(id, row) THEN <<RemoveJob(V1(row.hashes))>> ELSE <<>>)
  \o (IF Old(id, row) \/ Migrating THEN <<StoreJob(ToTorrentID(row.hashes), Used(id, row))>> ELSE <<>>)

CanProcess == handling = "data" /\ context.processing < MaxProcessing

\* Passed over: taken over already, or not readable.
SkipNext ==
  /\ CanProcess /\ Available # <<>>
  /\ Head(Available).id \in context.skipped \/ ~Head(Available).row.readable
  /\ context' = [context EXCEPT !.loaded = Tail(Available)]
  /\ loadedData' = IF context.loaded = <<>> THEN <<>> ELSE loadedData
  /\ UNCHANGED <<diskVars, jobs, startVars, phase, loading, events, handling, nativeVars, userVars>>

ProcessNext ==
  /\ CanProcess /\ Available # <<>>
  /\ LET next == Head(Available)
     IN /\ next.id \notin context.skipped /\ next.row.readable
        /\ jobs' = jobs \o StorageJobs(next.id, next.row)
        /\ adding' = Append(adding, Used(next.id, next.row))
        /\ context' = [context EXCEPT !.loaded = Tail(Available),
                                      !.processing = @ + 1,
                                      !.skipped = @ \cup Skips(next.id, next.row)]
  /\ loadedData' = IF context.loaded = <<>> THEN <<>> ELSE loadedData
  /\ UNCHANGED <<diskVars, startVars, phase, loading, events, handling, natives, posted, batch, userVars>>

\* Enough torrents are on their way.
PauseHandling ==
  /\ handling = "data" /\ context.processing >= MaxProcessing
  /\ handling' = "none"
  /\ UNCHANGED <<diskVars, jobs, startVars, phase, loadVars, context, events, nativeVars, userVars>>

Exhausted == CanProcess /\ Available = <<>>

\* Nothing is loaded: wait for the alerts of torrents that are on their way ...
AwaitAlerts ==
  /\ Exhausted /\ context.processing # 0
  /\ handling' = "none"
  /\ UNCHANGED <<diskVars, jobs, startVars, phase, loadVars, context, events, nativeVars, userVars>>

\* ... or for the loading thread ...
AwaitData ==
  /\ Exhausted /\ context.processing = 0 /\ ~context.finished
  /\ events' = EventsWithHandling(context)
  /\ context' = Enqueued(context)
  /\ handling' = "none"
  /\ UNCHANGED <<diskVars, jobs, startVars, phase, loadVars, nativeVars, userVars>>

\* Mutant: the startup ends when nothing is left to load.
EndStartup_Outstanding ==
  /\ Exhausted /\ context.finished
  /\ phase' = "ending"
  /\ events' = Append(events, Event("delete context", {}))
  /\ handling' = "none"
  /\ UNCHANGED <<diskVars, jobs, startVars, loadVars, context, nativeVars, userVars>>

\* ... or end: the startup storage and the context are deleted later.
EndStartup ==
  /\ Exhausted /\ context.processing = 0 /\ context.finished
  /\ phase' = "ending"
  /\ events' = (IF Migrating THEN Append(events, Event("delete storage", {})) ELSE events)
               \o <<Event("delete context", {})>>
  /\ handling' = "none"
  /\ UNCHANGED <<diskVars, jobs, startVars, loadVars, context, nativeVars, userVars>>

\* A database that is not used any more is removed.
DeleteStorage ==
  /\ CanHandle("delete storage")
  /\ IF storageType = "files"
     THEN stored' = [stored EXCEPT !["db"] = NoRows] /\ dbExists' = FALSE
     ELSE UNCHANGED diskVars
  /\ events' = Tail(events)
  /\ UNCHANGED <<jobs, startVars, phase, loadVars, context, handling, nativeVars, userVars>>

DeleteContext ==
  /\ CanHandle("delete context")
  /\ context' = NoContext
  /\ phase' = "running"
  /\ events' = Tail(events)
  /\ UNCHANGED <<diskVars, jobs, startVars, loadVars, handling, nativeVars, userVars>>

-----------------------------------------------------------------------------
(* libtorrent and its alerts. *)

Owners(hashes) == {h \in DOMAIN natives : natives[h].alive /\ natives[h].row.hashes \cap hashes # {}}

\* The first alert after the last were fetched calls readAlerts later.
Post(alerts) ==
  /\ posted' = posted \o alerts
  /\ events' = IF posted = <<>> THEN Append(events, Event("alerts", {})) ELSE events
NativeAlert(type, handle, row) == [type |-> type, handle |-> handle, row |-> row]

\* async_add_torrent: a torrent that is there already is answered with its handle.
AddNative ==
  /\ adding # <<>>
  /\ LET row == Head(adding)
         owners == Owners(row.hashes)
         handle == IF owners = {} THEN Len(natives) + 1 ELSE CHOOSE h \in owners : TRUE
     IN IF owners = {}
        THEN /\ natives' = Append(natives, [row |-> row, alive |-> TRUE])
             /\ Post(<<NativeAlert("added", handle, row)>>
                     \o IF incident = "reject" /\ row.meta THEN <<NativeAlert("rejected", handle, row)>> ELSE <<>>)
        ELSE /\ Post(<<NativeAlert("added", handle, row)>>)
             /\ UNCHANGED natives
  /\ adding' = Tail(adding)
  /\ UNCHANGED <<diskVars, jobs, startVars, phase, loadVars, context, handling, batch, userVars>>

\* readAlerts
FetchAlerts ==
  /\ CanHandle("alerts")
  /\ events' = Tail(events)
  /\ batch' = posted
  /\ posted' = <<>>
  /\ handling' = "alerts"
  /\ UNCHANGED <<diskVars, jobs, startVars, phase, loadVars, context, natives, adding, userVars>>

CanReadAlert(type) == handling = "alerts" /\ batch # <<>> /\ Head(batch).type = type

AlertsRead ==
  /\ handling = "alerts" /\ batch = <<>>
  /\ handling' = "none"
  /\ UNCHANGED <<diskVars, jobs, startVars, phase, loadVars, context, events, nativeVars, userVars>>

\* Mutant: handleLoadedResumeData is not called for the torrents that wait.
AlertReceived_NotHandled ==
  IF context.alive
  THEN context' = [context EXCEPT !.processing = @ - 1] /\ UNCHANGED events
  ELSE UNCHANGED <<context, events>>

\* Mutant: the torrents that are on their way are not counted down.
AlertReceived_NotCounted ==
  IF context.alive
  THEN context' = Enqueued(context) /\ events' = EventsWithHandling(context)
  ELSE UNCHANGED <<context, events>>

\* endAlertSequence emits addTorrentAlertsReceived: the context counts every
\* add_torrent alert.  (The code counts those of a sequence together.)
AlertReceived ==
  IF context.alive
  THEN /\ context' = Enqueued([context EXCEPT !.processing = @ - 1])
       /\ events' = EventsWithHandling(context)
  ELSE UNCHANGED <<context, events>>

\* The handler of a restored torrent: createTorrent.
TorrentRestored ==
  /\ CanReadAlert("added")
  /\ restored' = Append(restored, [handle |-> Head(batch).handle, row |-> Head(batch).row])
  /\ AlertReceived
  /\ batch' = Tail(batch)
  /\ UNCHANGED <<diskVars, jobs, startVars, phase, loadVars, handling, natives, adding, posted, removed>>

\* Mutant: the torrent keeps the handle of the native torrent that was removed.
ReloadRestored_OldHandle ==
  /\ CanReadAlert("rejected")
  /\ LET old == Head(batch).handle
     IN /\ natives' = Append([natives EXCEPT ![old].alive = FALSE], natives[old])
        /\ Post(<<NativeAlert("reloaded", Len(natives) + 1, natives[old].row)>>)
  /\ batch' = Tail(batch)
  /\ UNCHANGED <<diskVars, jobs, startVars, phase, loadVars, context, handling, adding, userVars>>

\* handleFastResumeRejected: files are missing, and the torrent is reloaded at
\* once; that posts an alert as well.
ReloadRestored ==
  /\ CanReadAlert("rejected")
  /\ LET old == Head(batch).handle
         handle == Len(natives) + 1
     IN /\ natives' = Append([natives EXCEPT ![old].alive = FALSE], natives[old])
        /\ restored' = [i \in DOMAIN restored |->
             IF restored[i].handle = old THEN [restored[i] EXCEPT !.handle = handle] ELSE restored[i]]
        /\ Post(<<NativeAlert("reloaded", handle, natives[old].row)>>)
  /\ batch' = Tail(batch)
  /\ UNCHANGED <<diskVars, jobs, startVars, phase, loadVars, context, handling, adding, removed>>

\* The empty handler of the reloaded torrent.
IgnoreReloaded ==
  /\ CanReadAlert("reloaded")
  /\ AlertReceived
  /\ batch' = Tail(batch)
  /\ UNCHANGED <<diskVars, jobs, startVars, phase, loadVars, handling, natives, adding, posted, userVars>>

-----------------------------------------------------------------------------
(* The worker of m_resumeDataStorage, and the end of the process. *)

\* The worker of the database waits while the loading thread reads it.
PerformStorageJob ==
  /\ jobs # <<>>
  /\ phase # "off"
  /\ storageType = "db" /\ ~Migrating => loading.state = "done"
  /\ LET job == Head(jobs) IN
     stored' = [stored EXCEPT ![storageType] =
       IF job.op = "store" THEN With(@, job.id, job.row) ELSE Without(@, job.id)]
  /\ jobs' = Tail(jobs)
  /\ UNCHANGED <<dbExists, startVars, phase, loadVars, context, events, handling, nativeVars, userVars>>

\* The user removes a torrent (the last one of its content).
RemoveRestored(i) ==
  /\ phase = "running" /\ handling = "none" /\ incident # "crash"
  /\ \A j \in DOMAIN restored \ {i} : ContentOf(restored[j].row.hashes) # ContentOf(restored[i].row.hashes)
  /\ LET torrent == restored[i] IN
     /\ natives' = [natives EXCEPT ![torrent.handle].alive = FALSE]
     /\ removed' = removed \cup {ContentOf(torrent.row.hashes)}
     /\ jobs' = Append(jobs, RemoveJob(ToTorrentID(torrent.row.hashes)))
  /\ restored' = RemoveAt(restored, i)
  /\ UNCHANGED <<diskVars, startVars, phase, loadVars, context, events, handling, adding, posted, batch>>

ProcessEnds ==
  /\ phase' = "off"
  /\ jobs' = <<>>
  /\ loading' = [state |-> "done", todo |-> <<>>]
  /\ loadedData' = <<>>
  /\ context' = NoContext
  /\ events' = <<>>
  /\ handling' = "none"
  /\ natives' = <<>> /\ adding' = <<>> /\ posted' = <<>> /\ batch' = <<>>
  /\ restored' = <<>>
  /\ UNCHANGED <<diskVars, startVars, removed>>

\* The worker is waited for.
ProgramExit == phase = "running" /\ jobs = <<>> /\ starts < MaxStarts /\ ProcessEnds
ProgramCrash == phase # "off" /\ incident = "crash" /\ starts < MaxStarts /\ ProcessEnds

-----------------------------------------------------------------------------
LoaderStep == LoadStarted \/ LoadNext \/ LoadFinished

MainStep ==
  \/ BeginHandling
  \/ HandleWithoutContext
  \/ NoteLoadFinished
  \/ SkipNext
  \/ ProcessNext
  \/ PauseHandling
  \/ AwaitAlerts
  \/ AwaitData
  \/ EndStartup
  \/ DeleteStorage
  \/ DeleteContext
  \/ FetchAlerts
  \/ AlertsRead

AlertStep == TorrentRestored \/ ReloadRestored \/ IgnoreReloaded

StartupNext ==
  \/ \E type \in Storage : PrepareStartup(type)
  \/ LoaderStep
  \/ MainStep
  \/ AddNative
  \/ AlertStep
  \/ PerformStorageJob
  \/ \E i \in DOMAIN restored : RemoveRestored(i)
  \/ ProgramExit
  \/ ProgramCrash

\* All threads run on.
StartupFairness ==
  /\ WF_startupVars(LoaderStep)
  /\ WF_startupVars(MainStep)
  /\ WF_startupVars(AddNative)
  /\ WF_startupVars(AlertStep)
  /\ WF_startupVars(PerformStorageJob)

StartupSpec == StartupInit /\ [][StartupNext]_startupVars
StartupFairSpec == StartupSpec /\ StartupFairness

-----------------------------------------------------------------------------
(* Properties. *)

(* Types of the variables; the handle of a torrent is that of a native torrent
   that is still there. *)
StartupTypeOK ==
  /\ \A s \in Storage : DOMAIN stored[s] \subseteq ID /\ \A id \in DOMAIN stored[s] : stored[s][id] \in Row
  /\ dbExists \in BOOLEAN /\ handling \in {"none", "data", "alerts"}
  /\ storageType \in Storage /\ startupStorage \in Storage
  /\ starts \in 0..MaxStarts
  /\ phase \in {"off", "startup", "ending", "running", "undefined"}
  /\ loading.state \in {"start", "load", "done"} /\ loading.todo \in Seq(ID)
  /\ \A i \in DOMAIN jobs : jobs[i].op \in {"store", "remove"} /\ jobs[i].id \in ID /\ jobs[i].row \in Row
  /\ \A i \in DOMAIN restored : restored[i].handle \in DOMAIN natives /\ natives[restored[i].handle].alive

(* As many torrents are being processed as libtorrent has not answered for, and
   no more than the limit, unless torrents are reloaded meanwhile. *)
Answers(alerts) == {i \in DOMAIN alerts : alerts[i].type = "added"}
ProcessingIsOutstanding ==
  context.alive /\ incident # "reject" =>
    /\ context.processing =
         Len(adding) + Cardinality(Answers(posted)) + Cardinality(Answers(batch))
    /\ context.processing <= MaxProcessing

(* The queued calls of handleLoadedResumeData hold a pointer to the context:
   none comes after the context is deleted, unless torrents are reloaded. *)
ContextOutlivesCalls == incident # "reject" => phase # "undefined"

(* Once the startup has ended every torrent that could be read is in the
   session, with its metadata if that could be read under either of its IDs,
   unless torrents are reloaded: the startup may then end too early. *)
AllRestored ==
  phase \in {"ending", "running"} /\ incident # "reject" =>
    LET rows == {natives[restored[i].handle].row : i \in DOMAIN restored} IN
    /\ owned.torrents \ removed \subseteq {ContentOf(row.hashes) : row \in rows}
    /\ owned.metadata \ removed \subseteq {ContentOf(row.hashes) : row \in {r \in rows : r.meta}}

(* "skip the attempt to load it": the rows of one hybrid torrent make one
   torrent.  No two torrents share a native one. *)
RestoredOnce == \A i, j \in DOMAIN restored : i # j => restored[i].handle # restored[j].handle

WouldRestore == OwnedIn(stored[IF dbExists THEN "db" ELSE "files"])

(* When the worker has done its work, the next start finds all torrents again,
   whatever was migrated from one storage to the other or from one ID to the
   other, and whatever was removed for it. *)
StoredIsKept ==
  phase = "running" /\ events = <<>> /\ jobs = <<>> =>
    owned.torrents \ removed \subseteq WouldRestore.torrents

(* "if we don't have metadata, try to find it in alternative resume data": what
   is found there is still found by the next start. *)
MetadataIsKept ==
  phase = "running" /\ events = <<>> /\ jobs = <<>> =>
    owned.metadata \ removed \subseteq WouldRestore.metadata

(* Wherever the process ends, the next start finds all torrents again. *)
CrashKeepsTorrents == owned.torrents \ removed \subseteq WouldRestore.torrents

(* A torrent that was removed is not restored by a later start. *)
RemovedStaysRemoved == \A i \in DOMAIN restored : ContentOf(restored[i].row.hashes) \notin removed

(* "libtorrent will post an add_torrent_alert anyway, so we have to add an
   empty handler to ignore it": no alert keeps the startup from ending. *)
StartupEnds == phase = "startup" ~> phase \in {"running", "off"}

(* It ends unless torrents are reloaded meanwhile. *)
StartupEndsUndisturbed == (phase = "startup" /\ incident # "reject") ~> phase \in {"running", "off"}

=============================================================================
