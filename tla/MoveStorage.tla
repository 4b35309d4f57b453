---------------------------- MODULE MoveStorage ----------------------------
(***************************************************************************)
(* The storage-move queue of SessionImpl and the TorrentImpl hooks it      *)
(* calls: queueing, cancelling, finishing and failing moves of torrents'   *)
(* files, removing torrents that are moving, replacing a torrent's native  *)
(* handle (reload), announcing finished torrents, and the saving of resume *)
(* data when the session is shut down.                                     *)
(*                                                                         *)
(* Main-thread handlers are actions; libtorrent, which runs in threads of  *)
(* its own, is external: its torrents (native), its disk moves (ops) and   *)
(* the alerts it posts, in order, are modelled from how the session uses   *)
(* them.  Torrents are in manual management mode and have metadata.        *)
(***************************************************************************)
EXTENDS Integers, Sequences, FiniteSets, SequencesExt

CONSTANTS
    Torrent,        \* torrent IDs
    Handle,         \* libtorrent torrent objects (bounds additions and reloads)
    Path,           \* storage locations
    NoTorrent, NoHandle, NoPath,
    Layouts,        \* the paths torrents are added with
    MissingFiles,   \* torrents whose resume data libtorrent may reject
    RemoveOptions,  \* the TorrentRemoveOption values in use
    AllowAdd,       \* may torrents be added, and added again, or only restored?
    MaxQueue,       \* bound on the number of queued move jobs
    MaxUpdates,     \* bound on state updates waiting to be handled
    MaxRequests     \* bound on the deferred requests for resume data

ASSUME NullAssumption ==
    NoTorrent \notin Torrent /\ NoHandle \notin Handle /\ NoPath \notin Path
ASSUME ParameterAssumption ==
    /\ Layouts \subseteq [savePath : Path, downloadPath : Path \cup {NoPath}, location : Path]
    /\ MissingFiles \subseteq Torrent
    /\ RemoveOptions \subseteq {"KeepContent", "RemoveContent"}
    /\ AllowAdd \in BOOLEAN
    /\ MaxQueue \in Nat
    /\ MaxUpdates \in Nat
    /\ MaxRequests \in Nat

VARIABLES
    torrents,         \* IDs registered in m_torrents
    tor,              \* ID -> the fields of its TorrentImpl
    queue,            \* m_moveStorageQueue
    removing,         \* m_removingTorrents
    pendingFinished,  \* m_pendingFinishedTorrents
    numResume,        \* m_numResumeData
    stored,           \* ID -> what the resume data storage holds of it
    phase,            \* running, draining (saveResumeData on exit), stopped
    native,           \* libtorrent's torrent objects
    ops,              \* moves libtorrent's disk threads are executing
    alerts            \* alerts posted and not yet handled, oldest first

sessionVars == <<torrents, tor, queue, removing, pendingFinished, numResume, stored, phase>>
nativeVars == <<native, ops, alerts>>
vars == <<torrents, tor, queue, removing, pendingFinished, numResume, stored, phase,
          native, ops, alerts>>

Context == {"ChangeSavePath", "ChangeDownloadPath", "AdjustCurrentLocation"}
MaybePath == Path \cup {NoPath}

MoveStorageJob == [handle : Handle, path : Path, context : Context]

TorrentRec ==
    [handle : Handle \cup {NoHandle},
     savePath : MaybePath, downloadPath : MaybePath,
     location : MaybePath,         \* m_nativeStatus.save_path
     paramsPath : MaybePath,       \* m_ltAddTorrentParams.save_path
     finished : BOOLEAN,           \* isFinished() or m_hasFinishedStatus
     finishedStorage : BOOLEAN, moving : BOOLEAN, missing : BOOLEAN,
     recovered : BOOLEAN,          \* m_missingFilesStateRecovered
     notify : BOOLEAN,             \* m_moveFinishedTriggers holds the finish notice
     deferred : BOOLEAN]           \* m_deferredRequestResumeDataInvoked

\* A torrent registered in the session has a native handle and known paths.
RegisteredRec ==
    {rec \in TorrentRec : rec.handle \in Handle
                          /\ {rec.savePath, rec.location, rec.paramsPath} \subseteq Path}

NativeRec ==
    [state : {"unused", "alive", "closing", "dead"},
     owner : Torrent \cup {NoTorrent},
     location : MaybePath,
     unchecked : BOOLEAN,          \* its resume data will be rejected
     dirty : BOOLEAN,              \* need_save_resume_data
     requests : Nat,               \* save_resume_data calls not executed yet
     flush : BOOLEAN]              \* the only_if_modified one of the shutdown

RemovingRec ==
    [option : {"none", "KeepContent", "RemoveContent"}, path : MaybePath]

StoredRec == [savePath : MaybePath, location : MaybePath]

Alert ==
    [type : {"moved", "move_failed", "deleted", "rejected", "status",
             "resume", "resume_failed"},
     handle : Handle, path : MaybePath]

Blank ==
    [handle |-> NoHandle, savePath |-> NoPath, downloadPath |-> NoPath,
     location |-> NoPath, paramsPath |-> NoPath, finished |-> FALSE,
     finishedStorage |-> FALSE, moving |-> FALSE, missing |-> FALSE,
     recovered |-> FALSE, notify |-> FALSE, deferred |-> FALSE]
NotRemoving == [option |-> "none", path |-> NoPath]
NotStored == [savePath |-> NoPath, location |-> NoPath]

Init ==
    /\ torrents = {}
    /\ tor = [t \in Torrent |-> Blank]
    /\ queue = <<>>
    /\ removing = [t \in Torrent |-> NotRemoving]
    /\ pendingFinished = {}
    /\ numResume = 0
    /\ stored = [t \in Torrent |-> NotStored]
    /\ phase = "running"
    /\ native = [h \in Handle |->
                   [state |-> "unused", owner |-> NoTorrent, location |-> NoPath,
                    unchecked |-> FALSE, dirty |-> FALSE, requests |-> 0, flush |-> FALSE]]
    /\ ops = {}
    /\ alerts = <<>>

-----------------------------------------------------------------------------
(* libtorrent, as far as the session uses it.                              *)

Unused == {h \in Handle : native[h].state = "unused"}

NewNative(owner, path, dirty) ==
    [state |-> "alive", owner |-> owner, location |-> path,
     unchecked |-> owner \in MissingFiles, dirty |-> dirty, requests |-> 0, flush |-> FALSE]

\* lt::session::remove_torrent; a torrent that is closing or dead is left as it is.
Closed(nat, h) ==
    IF nat[h].state = "alive" THEN [nat EXCEPT ![h].state = "closing"] ELSE nat

\* torrent_handle::info_hashes, which a dead object cannot answer.
OwnerOf(h) == IF native[h].state \in {"alive", "closing"} THEN native[h].owner ELSE NoTorrent

\* What posting the alert "type" of handle h about path appends.
Posted(type, h, path) == [type |-> type, handle |-> h, path |-> path]

\* torrent_handle::move_storage of the job at the head of the queue: a torrent
\* that is being removed refuses, a dead one makes the call throw.
StartedOps(job) ==
    IF native[job.handle].state = "alive"
    THEN {[handle |-> job.handle, path |-> job.path]} ELSE {}
StartAlerts(job) ==
    IF native[job.handle].state = "closing"
    THEN <<Posted("move_failed", job.handle, NoPath)>> ELSE <<>>
StartThrows(job) == native[job.handle].state \in {"unused", "dead"}

-----------------------------------------------------------------------------
(* TorrentImpl.                                                            *)

\* TorrentImpl::reload gives the torrent the new native object f, made from
\* m_ltAddTorrentParams.
Reloaded_SameHandle(rec, f) == [rec EXCEPT !.location = rec.paramsPath]
Reloaded(rec, f) == [rec EXCEPT !.handle = f, !.location = rec.paramsPath]
NativeReloaded(nat, rec, f) ==
    [Closed(nat, rec.handle) EXCEPT
        ![f] = NewNative(nat[rec.handle].owner, rec.paramsPath, FALSE)]

\* TorrentImpl::handleFastResumeRejected: when files are missing where the storage
\* is there, the torrent goes on with what it had of the others, reloaded as f
\* without a check of its files; otherwise it is left as libtorrent has it.
Rejected(rec) == [rec EXCEPT !.missing = TRUE, !.recovered = FALSE]
Recovered(rec, f) ==
    [Reloaded(rec, f) EXCEPT !.missing = TRUE, !.recovered = TRUE,
                             !.finished = FALSE, !.deferred = TRUE]
NativeRecovered(nat, rec, f) == [NativeReloaded(nat, rec, f) EXCEPT ![f].unchecked = FALSE]

\* TorrentImpl::handleMoveStorageJobFinished without its reload.
MoveRecorded_KeepsNotice(rec, path, context, outstanding) ==
    [rec EXCEPT
        !.savePath = IF context = "ChangeSavePath" THEN path ELSE @,
        !.downloadPath = IF context = "ChangeDownloadPath" THEN path ELSE @,
        !.moving = outstanding, !.location = path, !.deferred = TRUE]
MoveRecorded(rec, path, context, outstanding) ==
    LET saved == [rec EXCEPT
            !.savePath = IF context = "ChangeSavePath" THEN path ELSE @,
            !.downloadPath = IF context = "ChangeDownloadPath" THEN path ELSE @,
            !.moving = outstanding,
            !.location = path,
            !.deferred = TRUE]
        promoted == [saved EXCEPT !.finishedStorage = @ \/ path = saved.savePath]
    IN  IF outstanding THEN promoted
        ELSE [promoted EXCEPT
                !.missing = FALSE,
                !.recovered = FALSE,
                !.paramsPath = IF rec.missing THEN path ELSE @,
                !.notify = FALSE]

\* It replaces the native object of a torrent that had missing files.
ReloadsAfterMove(rec, outstanding) == rec.missing /\ ~outstanding
\* It delivers the finish notice that was waiting for the end of the move.
NotifiesAfterMove(rec, outstanding) == rec.notify /\ ~outstanding

ShouldUseDownloadPath(rec) ==
    ~rec.finishedStorage /\ ~rec.finished /\ rec.downloadPath # NoPath

\* The native objects a handler may end up with: a fresh one when it reloads.
HandlesFor(rec, reloads) == IF reloads THEN Unused ELSE {rec.handle}

-----------------------------------------------------------------------------
(* SessionImpl::addMoveTorrentStorageJob as called by                      *)
(* TorrentImpl::moveStorage.                                               *)

HasActiveJob(h) == queue # <<>> /\ Head(queue).handle = h
InactiveJobs_Any(h) == {i \in 1..Len(queue) : queue[i].handle = h}
InactiveJobs(h) == {i \in 2..Len(queue) : queue[i].handle = h}
FirstInactive(h) == CHOOSE i \in InactiveJobs(h) : \A j \in InactiveJobs(h) : i <= j
WithoutInactive(h) ==
    IF InactiveJobs(h) = {} THEN queue ELSE RemoveAt(queue, FirstInactive(h))

\* Cancelling the queued job reports it finished at the current location.
CancelReloads(rec) ==
    /\ InactiveJobs(rec.handle) # {}
    /\ ReloadsAfterMove(rec, HasActiveJob(rec.handle))
Cancelled(rec) ==
    IF InactiveJobs(rec.handle) = {} THEN rec
    ELSE MoveRecorded(rec, rec.location, queue[FirstInactive(rec.handle)].context,
                      HasActiveJob(rec.handle))

\* A job that would move the files to where they are, or are going to be.
IsMeaningless(rec, newPath) ==
    IF HasActiveJob(rec.handle) THEN Head(queue).path = newPath ELSE rec.location = newPath

\* The torrent after moveStorage(newPath); f is its native object then.
MoveRequested(rec, newPath, f) ==
    LET kept == IF CancelReloads(rec) THEN Reloaded(Cancelled(rec), f) ELSE Cancelled(rec)
    IN  IF IsMeaningless(rec, newPath) THEN kept ELSE [kept EXCEPT !.moving = TRUE]

CancelNotifies(rec) ==
    /\ InactiveJobs(rec.handle) # {}
    /\ NotifiesAfterMove(rec, HasActiveJob(rec.handle))

\* The rest of the state after moveStorage(newPath).
EnqueueMove(rec, newPath, context, f) ==
    LET job == [handle |-> rec.handle, path |-> newPath, context |-> context]
        rest == WithoutInactive(rec.handle)
    IN  /\ native' = IF CancelReloads(rec) THEN NativeReloaded(native, Cancelled(rec), f)
                     ELSE native
        /\ IF IsMeaningless(rec, newPath)
           THEN queue' = rest /\ UNCHANGED <<ops, alerts>>
           ELSE /\ queue' = Append(rest, job)
                /\ IF rest = <<>>
                   THEN ops' = ops \cup StartedOps(job) /\ alerts' = alerts \o StartAlerts(job)
                   ELSE UNCHANGED <<ops, alerts>>

-----------------------------------------------------------------------------
(* Requests of the user and of the torrents themselves.                    *)

Running(t) == phase = "running" /\ t \in torrents /\ Len(queue) < MaxQueue

\* addTorrent, or the restoring of a saved torrent at startup, up to createTorrent.
\* libtorrent refuses a torrent it still has.
AddTorrent(t, layout, restored, h) ==
    /\ phase = "running"
    /\ t \notin torrents
    /\ h \in Unused
    /\ restored \/ (AllowAdd /\ numResume <= MaxRequests)
    /\ \A g \in Handle : native[g].owner = t
                         => ~restored /\ native[g].state # "alive"
    /\ torrents' = torrents \cup {t}
    /\ tor' = [tor EXCEPT ![t] = [Blank EXCEPT
                    !.handle = h, !.savePath = layout.savePath,
                    !.downloadPath = layout.downloadPath,
                    !.location = layout.location, !.paramsPath = layout.location,
                    !.finishedStorage = layout.location = layout.savePath]]
    /\ native' = [native EXCEPT ![h] =
                    [NewNative(t, layout.location, ~restored) EXCEPT
                        !.requests = IF restored THEN 0 ELSE 1]]
    /\ numResume' = IF restored THEN numResume ELSE numResume + 1
    /\ stored' = IF restored
                 THEN [stored EXCEPT ![t] = [savePath |-> layout.savePath,
                                             location |-> layout.location]]
                 ELSE stored
    /\ UNCHANGED <<queue, removing, pendingFinished, phase, ops, alerts>>

\* TorrentImpl::setSavePath
SetSavePath(t, path) ==
    LET rec == tor[t] IN
    /\ Running(t)
    /\ path # rec.savePath
    /\ IF ShouldUseDownloadPath(rec)
       THEN /\ tor' = [tor EXCEPT ![t] = [rec EXCEPT !.savePath = path, !.deferred = TRUE]]
            /\ UNCHANGED <<queue, pendingFinished, native, ops, alerts>>
       ELSE \E f \in HandlesFor(rec, CancelReloads(rec)) :
            /\ tor' = [tor EXCEPT ![t] = MoveRequested(rec, path, f)]
            /\ EnqueueMove(rec, path, "ChangeSavePath", f)
            /\ pendingFinished' = pendingFinished \cup {u \in {t} : CancelNotifies(rec)}
    /\ UNCHANGED <<torrents, removing, numResume, stored, phase>>

\* TorrentImpl::setDownloadPath
SetDownloadPath(t, path) ==
    LET rec == tor[t]
        target == IF path = NoPath THEN rec.savePath ELSE path
    IN
    /\ Running(t)
    /\ path # rec.downloadPath
    /\ IF ~ShouldUseDownloadPath(rec)
       THEN /\ tor' = [tor EXCEPT ![t] = [rec EXCEPT !.downloadPath = path, !.deferred = TRUE]]
            /\ UNCHANGED <<queue, pendingFinished, native, ops, alerts>>
       ELSE \E f \in HandlesFor(rec, CancelReloads(rec)) :
            /\ tor' = [tor EXCEPT ![t] = MoveRequested(rec, target, f)]
            /\ EnqueueMove(rec, target, "ChangeDownloadPath", f)
            /\ pendingFinished' = pendingFinished \cup {u \in {t} : CancelNotifies(rec)}
    /\ UNCHANGED <<torrents, removing, numResume, stored, phase>>

\* TorrentImpl::adjustStorageLocation: the torrent before its move, and the move.
Promoted(rec) ==
    IF rec.finished /\ ~rec.finishedStorage
    THEN [rec EXCEPT !.finishedStorage = TRUE, !.deferred = TRUE] ELSE rec
AdjustTarget_Unchecked(rec) == IF ~rec.finished THEN rec.downloadPath ELSE rec.savePath
AdjustTarget(rec) == IF ShouldUseDownloadPath(rec) THEN rec.downloadPath ELSE rec.savePath
NeedsAdjust(rec) == AdjustTarget(rec) # rec.location \/ rec.moving

Adjusted(rec, f) == IF NeedsAdjust(rec) THEN MoveRequested(rec, AdjustTarget(rec), f) ELSE rec
AdjustReloads(rec) == NeedsAdjust(rec) /\ CancelReloads(rec)
EnqueueAdjust(rec, f) ==
    IF NeedsAdjust(rec) THEN EnqueueMove(rec, AdjustTarget(rec), "AdjustCurrentLocation", f)
    ELSE UNCHANGED <<queue, native, ops, alerts>>

\* handleTorrentFinished of a torrent and its trigger: the files are moved out of
\* the download path, and the finish notice waits for the move.
TorrentFinished(t) ==
    LET rec == Promoted([tor[t] EXCEPT !.missing = FALSE, !.recovered = FALSE,
                                       !.finished = TRUE])
    IN
    /\ Running(t)
    /\ ~tor[t].finished
    /\ \E f \in HandlesFor(rec, AdjustReloads(rec)) :
        LET moved == [Adjusted(rec, f) EXCEPT !.deferred = TRUE] IN
        /\ tor' = [tor EXCEPT ![t] = [moved EXCEPT !.notify = moved.moving]]
        /\ EnqueueAdjust(rec, f)
    /\ pendingFinished' = {}       \* readAlerts ends with processPendingFinishedTorrents
    /\ UNCHANGED <<torrents, removing, numResume, stored, phase>>

\* handleTorrentChecked of a torrent and its trigger.
TorrentChecked(t, complete) ==
    LET rec == Promoted([tor[t] EXCEPT !.finished = complete])
        dirty == native[tor[t].handle].dirty     \* needSaveResumeData
    IN
    /\ Running(t)
    /\ IF tor[t].missing
       THEN /\ tor' = [tor EXCEPT ![t] = [tor[t] EXCEPT !.deferred = @ \/ dirty]]
            /\ UNCHANGED <<queue, native, ops, alerts>>
       ELSE \E f \in HandlesFor(rec, AdjustReloads(rec)) :
            /\ tor' = [tor EXCEPT ![t] = [Adjusted(rec, f) EXCEPT !.deferred = @ \/ dirty]]
            /\ EnqueueAdjust(rec, f)
    /\ pendingFinished' = {}
    /\ UNCHANGED <<torrents, removing, numResume, stored, phase>>

\* TorrentImpl::start of a torrent with missing files: its state was recovered,
\* or it is reloaded.
StartMissing(t) ==
    LET rec == [tor[t] EXCEPT !.missing = FALSE, !.recovered = FALSE]
        recovered == tor[t].recovered
    IN
    /\ Running(t)
    /\ tor[t].missing
    /\ \E f \in HandlesFor(rec, ~recovered) :
        IF recovered
        THEN /\ tor' = [tor EXCEPT ![t] = [rec EXCEPT !.deferred = TRUE]]
             /\ UNCHANGED native
        ELSE /\ tor' = [tor EXCEPT ![t] = Reloaded(rec, f)]
             /\ native' = NativeReloaded(native, rec, f)
    /\ UNCHANGED <<torrents, queue, removing, pendingFinished, numResume, stored, phase,
                   ops, alerts>>

HasJob(h) == \E i \in DOMAIN queue : queue[i].handle = h

\* SessionImpl::removeTorrent: a torrent whose content is kept stays in libtorrent
\* until its move jobs are done.
KeepsNative_Active(h, option) == option = "KeepContent" /\ HasActiveJob(h)
KeepsNative_Always(h, option) == option = "KeepContent"
KeepsNative(h, option) == option = "KeepContent" /\ HasJob(h)

RemoveTorrent(t, option) ==
    LET h == tor[t].handle IN
    /\ phase = "running"
    /\ t \in torrents
    /\ option \in RemoveOptions
    /\ removing' = [removing EXCEPT ![t] = [option |-> option, path |-> tor[t].location]]
    /\ queue' = IF option = "RemoveContent" THEN WithoutInactive(h) ELSE queue
    /\ native' = IF KeepsNative(h, option) THEN native ELSE Closed(native, h)
    /\ stored' = [stored EXCEPT ![t] = NotStored]
    /\ torrents' = torrents \ {t}
    /\ tor' = [tor EXCEPT ![t] = Blank]
    /\ UNCHANGED <<pendingFinished, numResume, phase, ops, alerts>>

\* The event posted by TorrentImpl::deferredRequestResumeData.
RunDeferredRequest(t) ==
    /\ phase = "running"
    /\ t \in torrents
    /\ tor[t].deferred
    /\ numResume < MaxRequests
    /\ tor' = [tor EXCEPT ![t].deferred = FALSE]
    /\ native' = [native EXCEPT ![tor[t].handle].requests = @ + 1]
    /\ numResume' = numResume + 1
    /\ UNCHANGED <<torrents, queue, removing, pendingFinished, stored, phase, ops, alerts>>

-----------------------------------------------------------------------------
(* SessionImpl's alert handlers.  Each alert is a batch of readAlerts.     *)

NextAlert(types) == phase # "stopped" /\ alerts # <<>> /\ Head(alerts).type \in types

\* readAlerts announces the finished torrents at the end; the exit loop does not.
Announced(new) == IF phase = "running" THEN {} ELSE pendingFinished \cup new

HasOutstanding_None(rest, h) == FALSE
HasOutstanding(rest, h) == \E i \in DOMAIN rest : rest[i].handle = h

\* handleStorageMovedAlert and handleStorageMovedFailedAlert up to
\* handleMoveTorrentStorageJobFinished(newPath), which starts the next job first:
\* when that throws, handleAlert has already lost the rest.
FinishHeadJob(newPath) ==
    LET job == Head(queue)
        rest == Tail(queue)
        id == OwnerOf(job.handle)
        outstanding == HasOutstanding(rest, job.handle)
        throws == rest # <<>> /\ StartThrows(Head(rest))
        registered == id \in torrents
        reloads == registered /\ ReloadsAfterMove(tor[id], outstanding)
        notifies == registered /\ NotifiesAfterMove(tor[id], outstanding)
        done == MoveRecorded(tor[id], newPath, job.context, outstanding)
    IN
    /\ queue' = rest
    /\ ops' = IF rest = <<>> THEN ops ELSE ops \cup StartedOps(Head(rest))
    /\ alerts' = Tail(alerts) \o (IF rest = <<>> THEN <<>> ELSE StartAlerts(Head(rest)))
    /\ IF throws
       THEN UNCHANGED <<tor, native, removing>> /\ pendingFinished' = Announced({})
       ELSE
       /\ pendingFinished' = Announced({u \in {id} : notifies})
       /\ IF registered
          THEN /\ \E f \in HandlesFor(tor[id], reloads) :
                    /\ tor' = [tor EXCEPT ![id] = IF reloads THEN Reloaded(done, f) ELSE done]
                    /\ native' = IF reloads THEN NativeReloaded(native, done, f) ELSE native
               /\ UNCHANGED removing
          ELSE /\ UNCHANGED tor
               /\ IF outstanding \/ id = NoTorrent
                  THEN UNCHANGED <<native, removing>>
                  ELSE \* operator[] creates the entry when there is none
                       LET entry == IF removing[id].option = "none"
                                    THEN [NotRemoving EXCEPT !.option = "KeepContent"]
                                    ELSE removing[id]
                       IN  /\ removing' = [removing EXCEPT ![id] = entry]
                           /\ native' = IF entry.option = "KeepContent"
                                        THEN Closed(native, job.handle) ELSE native

HandleMoved ==
    /\ NextAlert({"moved"})
    /\ FinishHeadJob(Head(alerts).path)
    /\ UNCHANGED <<torrents, numResume, stored, phase>>

\* The current location is asked of libtorrent when the torrent is not registered;
\* a dead object throws, and the job stays at the head.
FailedLocation_Target(h) == Head(queue).path
FailedLocation(h) ==
    IF OwnerOf(h) \in torrents THEN tor[OwnerOf(h)].location ELSE native[h].location

HandleMoveFailed_Removed ==
    LET h == Head(queue).handle IN
    /\ NextAlert({"move_failed"})
    /\ IF OwnerOf(h) \notin torrents
       THEN /\ alerts' = Tail(alerts)
            /\ pendingFinished' = Announced({})
            /\ UNCHANGED <<tor, queue, removing, native, ops>>
       ELSE FinishHeadJob(FailedLocation(h))
    /\ UNCHANGED <<torrents, numResume, stored, phase>>
HandleMoveFailed ==
    LET h == Head(queue).handle IN
    /\ NextAlert({"move_failed"})
    /\ IF OwnerOf(h) \notin torrents /\ native[Head(alerts).handle].state = "dead"
       THEN /\ alerts' = Tail(alerts)
            /\ pendingFinished' = Announced({})
            /\ UNCHANGED <<tor, queue, removing, native, ops>>
       ELSE FinishHeadJob(FailedLocation(h))
    /\ UNCHANGED <<torrents, numResume, stored, phase>>

\* handleTorrentDeletedAlert and handleTorrentDeleteFailedAlert: handleRemovedTorrent
HandleDeleted ==
    /\ NextAlert({"deleted"})
    /\ removing' = [removing EXCEPT ![native[Head(alerts).handle].owner] = NotRemoving]
    /\ alerts' = Tail(alerts)
    /\ pendingFinished' = Announced({})
    /\ UNCHANGED <<torrents, tor, queue, numResume, stored, phase, native, ops>>

HandleFastResumeRejected ==
    LET id == OwnerOf(Head(alerts).handle) IN
    /\ NextAlert({"rejected"})
    /\ \/ id \notin torrents /\ UNCHANGED <<tor, native>>
       \/ /\ id \in torrents
          /\ tor' = [tor EXCEPT ![id] = Rejected(tor[id])]
          /\ UNCHANGED native
       \/ /\ id \in torrents
          /\ \E f \in Unused :
                /\ tor' = [tor EXCEPT ![id] = Recovered(tor[id], f)]
                /\ native' = NativeRecovered(native, tor[id], f)
    /\ alerts' = Tail(alerts)
    /\ pendingFinished' = Announced({})
    /\ UNCHANGED <<torrents, queue, removing, numResume, stored, phase, ops>>

\* handleStateUpdateAlert: TorrentImpl::updateStatus discards obsolete handles.
HandleStateUpdate ==
    LET h == Head(alerts).handle
        id == OwnerOf(h)
    IN
    /\ NextAlert({"status"})
    /\ tor' = IF id \in torrents /\ tor[id].handle = h
              THEN [tor EXCEPT ![id].location = Head(alerts).path] ELSE tor
    /\ alerts' = Tail(alerts)
    /\ pendingFinished' = Announced({})
    /\ UNCHANGED <<torrents, queue, removing, numResume, stored, phase, native, ops>>

\* The answer counts whether the torrent still exists or not.
NumResumeAfter_Registered(id) == IF id \in torrents THEN numResume - 1 ELSE numResume
NumResumeAfter(id) == numResume - 1

\* handleSaveResumeDataAlert down to handleTorrentResumeDataReady, and
\* handleSaveResumeDataFailedAlert.
HandleSaveResumeData ==
    LET a == Head(alerts)
        id == OwnerOf(a.handle)
        ready == a.type = "resume" /\ id \in torrents
    IN
    /\ NextAlert({"resume", "resume_failed"})
    /\ numResume' = NumResumeAfter(id)
    /\ stored' = IF ready THEN [stored EXCEPT ![id] =
                                  [savePath |-> tor[id].savePath, location |-> a.path]]
                 ELSE stored
    /\ tor' = IF ready THEN [tor EXCEPT ![id].paramsPath = a.path] ELSE tor
    /\ alerts' = Tail(alerts)
    /\ pendingFinished' = Announced({})
    /\ UNCHANGED <<torrents, queue, removing, phase, native, ops>>

-----------------------------------------------------------------------------
(* ~SessionImpl and saveResumeData.  Events posted before the exit have    *)
(* run by then; none runs afterwards.                                      *)

BeginShutdown ==
    LET asked == {t \in torrents : native[tor[t].handle].state # "dead"} IN
    /\ phase = "running"
    /\ \A t \in torrents : ~tor[t].deferred
    /\ phase' = "draining"
    /\ queue' = IF Len(queue) > 1 THEN <<Head(queue)>> ELSE queue
    /\ numResume' = numResume + Cardinality(asked)
    /\ native' = [h \in Handle |->
                    [native[h] EXCEPT !.flush = \E t \in asked : tor[t].handle = h]]
    /\ UNCHANGED <<torrents, tor, removing, pendingFinished, stored, ops, alerts>>

\* The loop ends when nothing is outstanding, or when no wanted alert came in time.
EndShutdown ==
    /\ phase = "draining"
    /\ queue = <<>>
    /\ phase' = "stopped"
    /\ UNCHANGED <<torrents, tor, queue, removing, pendingFinished, numResume, stored,
                   native, ops, alerts>>

Stopped == phase = "stopped" /\ UNCHANGED vars

-----------------------------------------------------------------------------
(* libtorrent's threads.                                                   *)

Post(as) == alerts' = alerts \o as

\* A disk move ends, successfully or not.
DiskMoveEnds(o, success) ==
    /\ o \in ops
    /\ ops' = ops \ {o}
    /\ IF success
       THEN /\ native' = [native EXCEPT ![o.handle].location = o.path,
                                        ![o.handle].dirty = TRUE]
            /\ Post(<<Posted("moved", o.handle, o.path)>>)
       ELSE /\ UNCHANGED native
            /\ Post(<<Posted("move_failed", o.handle, NoPath)>>)
    /\ UNCHANGED sessionVars

\* The resume data of a torrent just added is rejected: files are missing.
RejectResumeData(h) ==
    /\ native[h].state = "alive"
    /\ native[h].unchecked
    /\ native' = [native EXCEPT ![h].unchecked = FALSE]
    /\ Post(<<Posted("rejected", h, NoPath)>>)
    /\ UNCHANGED <<torrents, tor, queue, removing, pendingFinished, numResume, stored,
                   phase, ops>>

\* A state update with the location as it is now (bound: MaxUpdates at a time).
PostStateUpdate(h) ==
    /\ native[h].state = "alive"
    /\ Cardinality({i \in DOMAIN alerts : alerts[i].type = "status"}) < MaxUpdates
    /\ Post(<<Posted("status", h, native[h].location)>>)
    /\ UNCHANGED <<torrents, tor, queue, removing, pendingFinished, numResume, stored,
                   phase, native, ops>>

\* save_resume_data: snapshots the location; a closing torrent may fail it.
SaveResumeData(h, success) ==
    LET flushing == native[h].requests = 0
        modified == ~flushing \/ native[h].dirty
    IN
    /\ native[h].state \in {"alive", "closing"}
    /\ native[h].requests > 0 \/ native[h].flush
    /\ success \in {TRUE, native[h].state = "alive"}
    /\ native' = [native EXCEPT
                    ![h].requests = IF flushing THEN 0 ELSE @ - 1,
                    ![h].flush = @ /\ ~flushing,
                    ![h].dirty = @ /\ ~success]
    /\ Post(<<IF success /\ modified THEN Posted("resume", h, native[h].location)
              ELSE Posted("resume_failed", h, NoPath)>>)
    /\ UNCHANGED <<torrents, tor, queue, removing, pendingFinished, numResume, stored,
                   phase, ops>>

\* The last reference to a removed torrent goes away.
CloseNative(h) ==
    /\ native[h].state = "closing"
    /\ \A o \in ops : o.handle # h
    /\ native[h].requests = 0 /\ ~native[h].flush
    /\ native' = [native EXCEPT ![h].state = "dead"]
    /\ Post(<<Posted("deleted", h, NoPath)>>)
    /\ UNCHANGED <<torrents, tor, queue, removing, pendingFinished, numResume, stored,
                   phase, ops>>

-----------------------------------------------------------------------------

HandleAlert ==
    \/ HandleMoved
    \/ HandleMoveFailed
    \/ HandleDeleted
    \/ HandleFastResumeRejected
    \/ HandleStateUpdate
    \/ HandleSaveResumeData

Library ==
    \/ \E o \in ops, success \in BOOLEAN : DiskMoveEnds(o, success)
    \/ \E h \in Handle : RejectResumeData(h)
    \/ \E h \in Handle : PostStateUpdate(h)
    \/ \E h \in Handle, success \in BOOLEAN : SaveResumeData(h, success)
    \/ \E h \in Handle : CloseNative(h)

Request ==
    \/ \E t \in Torrent, l \in Layouts, restored \in BOOLEAN, h \in Handle :
            AddTorrent(t, l, restored, h)
    \/ \E t \in Torrent, p \in Path : SetSavePath(t, p)
    \/ \E t \in Torrent, p \in MaybePath : SetDownloadPath(t, p)
    \/ \E t \in Torrent : TorrentFinished(t)
    \/ \E t \in Torrent, complete \in BOOLEAN : TorrentChecked(t, complete)
    \/ \E t \in Torrent : StartMissing(t)
    \/ \E t \in Torrent, option \in RemoveOptions : RemoveTorrent(t, option)

Next ==
    \/ Request
    \/ \E t \in Torrent : RunDeferredRequest(t)
    \/ HandleAlert
    \/ BeginShutdown
    \/ EndShutdown
    \/ Stopped
    \/ phase # "stopped" /\ Library

\* The event loop keeps running and libtorrent keeps answering; nothing obliges
\* the user.
Fairness ==
    /\ WF_vars(HandleAlert)
    /\ WF_vars(EndShutdown)
    /\ WF_vars(\E t \in Torrent : RunDeferredRequest(t))
    /\ WF_vars(phase # "stopped" /\ \E o \in ops, success \in BOOLEAN : DiskMoveEnds(o, success))
    /\ WF_vars(phase # "stopped" /\ \E h \in Handle, success \in BOOLEAN : SaveResumeData(h, success))
    /\ WF_vars(phase # "stopped" /\ \E h \in Handle : CloseNative(h))

Spec == Init /\ [][Next]_vars
FairSpec == Spec /\ Fairness

-----------------------------------------------------------------------------
(* Properties.                                                             *)

\* Every variable keeps to the values its C++ counterpart can hold; what is
\* registered, alive or reported to have moved is somewhere.
TypeOK ==
    /\ torrents \subseteq Torrent
    /\ tor \in [Torrent -> TorrentRec]
    /\ queue \in Seq(MoveStorageJob)
    /\ removing \in [Torrent -> RemovingRec]
    /\ pendingFinished \subseteq Torrent
    /\ numResume \in Int
    /\ stored \in [Torrent -> StoredRec]
    /\ phase \in {"running", "draining", "stopped"}
    /\ native \in [Handle -> NativeRec]
    /\ ops \subseteq [handle : Handle, path : Path]
    /\ alerts \in Seq(Alert)
    /\ \A t \in torrents : tor[t] \in RegisteredRec
    /\ \A h \in Handle : native[h].state # "unused" => native[h].location \in Path
    /\ \A i \in DOMAIN alerts :
            alerts[i].type \in {"moved", "status", "resume"} => alerts[i].path \in Path

MoveAlerts == {i \in DOMAIN alerts : alerts[i].type \in {"moved", "move_failed"}}

\* The queue serializes moves: at most one move is being executed or has an
\* answer waiting, it is the one at the head of the queue, and the answer
\* carries its destination - what the assertions of handleStorageMovedAlert and
\* handleStorageMovedFailedAlert take for granted.
OneMoveAtATime ==
    /\ \A o \in ops : /\ queue # <<>>
                      /\ Head(queue).handle = o.handle
                      /\ Head(queue).path = o.path
    /\ \A i \in MoveAlerts :
            /\ queue # <<>>
            /\ Head(queue).handle = alerts[i].handle
            /\ alerts[i].type = "moved" => Head(queue).path = alerts[i].path
    /\ ops # {} => MoveAlerts = {}
    /\ \A i, j \in MoveAlerts : i = j

\* The job at the head of the queue has been started and will be answered, so
\* the queue moves on ("except the current ongoing one", saveResumeData).
HeadJobIsOngoing == queue # <<>> => ops # {} \/ MoveAlerts # {}

\* TorrentImpl and SessionImpl agree on which torrents are being moved: a
\* torrent says so exactly while the queue holds a job for it.
MovingAgreesWithQueue ==
    phase = "running" => \A t \in torrents : tor[t].moving <=> HasJob(tor[t].handle)

\* A torrent without queued moves knows where its files are.
LocationIsKnown ==
    phase = "running" =>
        \A t \in torrents :
            ~HasJob(tor[t].handle) => tor[t].location = native[tor[t].handle].location

\* Each registered torrent owns a live libtorrent torrent, and no other does.
OwnsNative ==
    \A t \in torrents : /\ native[tor[t].handle].state = "alive"
                        /\ native[tor[t].handle].owner = t

\* Nothing is left behind in libtorrent: a live torrent there belongs to a
\* registered one, or waits for its queued moves to be removed (removeTorrent
\* with KeepContent).
NoOrphanedNative ==
    phase = "running" =>
        \A h \in Handle : native[h].state = "alive" =>
            \/ native[h].owner \in torrents /\ tor[native[h].owner].handle = h
            \/ HasJob(h)

\* The finish notice of a torrent is not lost: while it waits in
\* m_moveFinishedTriggers, SessionImpl has a job of the torrent that will end.
NoticeWaitsForMove ==
    phase = "running" =>
        \A t \in torrents : tor[t].notify => tor[t].moving /\ HasJob(tor[t].handle)

\* m_numResumeData counts the answers libtorrent still owes, so that the exit
\* loop waits for all of them and for nothing else.
ResumeAlerts == {i \in DOMAIN alerts : alerts[i].type \in {"resume", "resume_failed"}}
OwedAnswers ==
    UNION {{h} \X {k \in 0..native[h].requests : k > 0 \/ native[h].flush} : h \in Handle}
AnswersAreCounted == numResume = Cardinality(ResumeAlerts) + Cardinality(OwedAnswers)

\* Files are only removed once the torrent is closed in libtorrent ("files may
\* still be in use", handleTorrentRemovedAlert): the entry of a torrent removed
\* with its content goes with the end of its own native torrent.
ContentRemovedWhenClosed ==
    [][\A t \in Torrent :
            removing[t].option = "RemoveContent" /\ removing'[t].option = "none"
            => \A h \in Handle : native[h].owner = t => native[h].state # "closing"]_vars

\* After an orderly exit the stored resume data points at the files.
StoredLocationIsCurrent ==
    phase = "stopped" /\ numResume = 0 =>
        \A t \in torrents : stored[t].location = native[tor[t].handle].location

\* The torrents waiting to be announced are registered ones (the list holds
\* pointers to them).
PendingFinishedRegistered == pendingFinished \subseteq torrents

\* Cancelling a queued move only takes the job off the queue: the save path of a
\* torrent out of its download path changes when a job ends, not otherwise.
CancelKeepsSavePath ==
    [][\A t \in torrents \cap torrents' :
            tor'[t].savePath # tor[t].savePath
            => ShouldUseDownloadPath(tor[t]) \/ queue' = Tail(queue)]_vars

\* The exit loop ends ("only terminate when no storage is moving").
ShutdownEnds == phase = "draining" ~> phase = "stopped"

\* Every removed torrent is eventually gone from libtorrent as well.
RemovalEnds ==
    \A t \in Torrent : removing[t].option # "none" ~> (removing[t].option = "none" \/ phase # "running")
=============================================================================
