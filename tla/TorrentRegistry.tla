-------------------------- MODULE TorrentRegistry --------------------------
(***************************************************************************)
(* The torrents of a session under their IDs: additions, hidden downloads  *)
(* of metadata, removals, and the change of a torrent's ID when a hybrid   *)
(* torrent learns its second hash.                                         *)
(*                                                                         *)
(* SessionImpl and TorrentImpl run in the main thread.  libtorrent (the    *)
(* natives) does what it is told in the order it is told, so it is         *)
(* modelled as doing it at once; the session learns of it from alerts,     *)
(* which it handles one by one in the order they were posted.              *)
(***************************************************************************)
EXTENDS InfoHashes, Bags, Integers, Sequences

CONSTANTS
  Races,        \* what can happen at an unfortunate moment:
                \*   "share": metadata is asked for while the torrent is being added, or
                \*     by a hash that only libtorrent knows to be of a torrent of the session;
                \*   "remove": a torrent is removed after its ID has changed and before
                \*     its resume data is stored under the new one
  MaxRequests   \* bound: additions, downloads, cancellations and removals

ASSUME RegistryAssumption ==
  /\ Races \subseteq {"share", "remove"}
  /\ MaxRequests \in Nat

VARIABLES
  natives,      \* the native torrents in the order of their handles
  alerts,       \* alerts the session has not handled
  addHandlers,  \* m_addTorrentAlertHandlers
  torrents,     \* the TorrentImpl objects, each named by its first handle
  registry,     \* m_torrents
  altIndex,     \* m_hybridTorrentsByAltID
  downloaded,   \* m_downloadedMetadata
  changedIDs,   \* m_changedTorrentIDs
  rows,         \* the IDs under which resume data is stored
  pending,      \* calls queued for the main thread or for the async worker
  requests      \* the number of requests so far

session == <<addHandlers, torrents, registry, altIndex, changedIDs, rows>>
vars == <<natives, alerts, session, downloaded, pending, requests>>

\* A request brings one native torrent, its metadata another.
Handle == 1..2 * MaxRequests
None == 0
Requested == -1         \* metadata asked for, no handle yet

TorrentID(t) == ToTorrentID(torrents[t].hashes)

FindTorrent(hashes) ==
  LET id == ToTorrentID(hashes) IN
  IF registry[id] # None THEN registry[id]
  ELSE IF IsHybrid(hashes) THEN registry[V1(hashes)]
  ELSE altIndex[id]

IsKnown(hashes) ==
  \/ \E id \in hashes : downloaded[id] # None /\ (id = ToTorrentID(hashes) \/ IsHybrid(hashes))
  \/ FindTorrent(hashes) # None

-----------------------------------------------------------------------------
(* libtorrent *)

Alert(type, handle, hashes) ==
  [type |-> type, handle |-> handle, hashes |-> hashes, meta |-> FALSE, answers |-> "none"]
\* The alert that answers a call to add a torrent for someone.
Added(handle, hashes, who) == [Alert("add", handle, hashes) EXCEPT !.answers = who]

\* The native torrent that has one of the hashes, if any.
Owner(nat, hashes) ==
  LET owners == {h \in DOMAIN nat : nat[h].alive /\ nat[h].hashes \cap hashes # {}}
  IN IF owners = {} THEN None ELSE CHOOSE h \in owners : TRUE

NewNative(hashes, meta) ==
  [hashes |-> hashes, given |-> meta, meta |-> meta, alive |-> TRUE, stopped |-> FALSE]
Removed(nat, h) == [nat EXCEPT ![h].alive = FALSE]
SaveResumeData(nat, h) ==
  IF nat[h].alive
  THEN <<[Alert("resume", h, nat[h].hashes) EXCEPT !.meta = nat[h].meta]>>
  ELSE <<>>

\* A native torrent has its metadata, and with it all its hashes, unless one of
\* them belongs to another: then both stop and wait for the session.
GetMetadata(h) ==
  LET all == AllHashes(ContentOf(natives[h].hashes))
      others == {n \in DOMAIN natives : n # h /\ natives[n].alive /\ natives[n].hashes \cap all # {}}
  IN IF others # {}
     THEN /\ alerts' = Append(alerts, Alert("conflict", None, all))
          /\ natives' = [n \in DOMAIN natives |->
                           IF n \in others \cup {h} THEN [natives[n] EXCEPT !.stopped = TRUE] ELSE natives[n]]
     ELSE /\ natives' = [natives EXCEPT ![h].hashes = all, ![h].meta = TRUE]
          /\ alerts' = Append(alerts, Alert("metadata", h, all))

\* Peers send the metadata.
ReceiveMetadata(h) ==
  /\ h \in DOMAIN natives /\ natives[h].alive /\ ~natives[h].meta /\ ~natives[h].stopped
  /\ GetMetadata(h)
  /\ UNCHANGED <<session, downloaded, pending, requests>>

-----------------------------------------------------------------------------
(* Calls that wait for their turn *)

Call(name, torrent, hashes, meta) ==
  [call |-> name, torrent |-> torrent, hashes |-> hashes, meta |-> meta]
AddCall(hashes, meta) == Call("add", None, hashes, meta)
SetMetadataCall(h) == Call("setMetadata", h, {}, TRUE)
RequestCall(t) == Call("requestResumeData", t, {}, FALSE)
SearchCall(t) == Call("findFiles", t, {}, FALSE)

One(call) == SetToBag({call})
Without(calls) == [c \in DOMAIN pending \ calls |-> pending[c]]
\* Mutant: m_deferredRequestResumeDataInvoked is taken for set.
Deferred_Never(t) == EmptyBag

\* deferredRequestResumeData: once until it has run.
Deferred(t) == IF BagIn(RequestCall(t), pending) THEN EmptyBag ELSE One(RequestCall(t))

Request == requests < MaxRequests /\ requests' = requests + 1

-----------------------------------------------------------------------------
Init ==
  /\ natives = <<>> /\ alerts = <<>> /\ addHandlers = <<>>
  /\ torrents = <<>>
  /\ registry = [id \in ID |-> None]
  /\ altIndex = [id \in ID |-> None]
  /\ downloaded = [id \in ID |-> None]
  /\ changedIDs = <<>>
  /\ rows = {}
  /\ pending = EmptyBag
  /\ requests = 0

\* cancelDownloadMetadata, as a function of the two things it changes.
Hidden == [downloaded |-> downloaded, natives |-> natives]
Cancel(id, hidden) ==
  LET h == hidden.downloaded[id]
      ids == IF h > 0 /\ IsHybrid(hidden.natives[h].hashes)
             THEN {id, V1(hidden.natives[h].hashes)} ELSE {id}
  IN [downloaded |-> [i \in ID |-> IF h # None /\ i \in ids THEN None ELSE hidden.downloaded[i]],
      natives |-> IF h > 0 THEN Removed(hidden.natives, h) ELSE hidden.natives]

\* A magnet link has some of the hashes, a torrent file all of them.
Sources == {s \in InfoHash \X BOOLEAN : s[2] => s[1] = AllHashes(ContentOf(s[1]))}

\* addTorrent of a torrent the session has: its metadata may be useful.
AddDuplicate(hashes, meta) ==
  LET t == FindTorrent(hashes) IN
  /\ Request
  /\ t # None
  /\ meta /\ ~torrents[t].meta
  /\ pending' = pending (+) One(SetMetadataCall(torrents[t].handle))
  /\ UNCHANGED <<natives, alerts, session, downloaded>>

\* addTorrent of another one: a hidden download of its metadata is given up,
\* and its files are looked for, if it has any.
AddTorrent(hashes, meta) ==
  LET id == ToTorrentID(hashes)
      after == IF IsHybrid(hashes) THEN Cancel(V1(hashes), Cancel(id, Hidden)) ELSE Cancel(id, Hidden)
  IN
  /\ Request
  /\ FindTorrent(hashes) = None
  /\ downloaded' = after.downloaded
  /\ natives' = after.natives
  /\ pending' = pending (+) One(AddCall(hashes, meta))
  /\ UNCHANGED <<alerts, session>>

\* async_add_torrent, with duplicate_is_error.
PostAddition(call) ==
  /\ call.call = "add" /\ BagIn(call, pending)
  /\ pending' = pending (-) One(call)
  /\ IF Owner(natives, call.hashes) # None
     THEN /\ alerts' = Append(alerts, Added(None, call.hashes, "user"))
          /\ UNCHANGED natives
     ELSE /\ natives' = Append(natives, NewNative(call.hashes, call.meta))
          /\ alerts' = Append(alerts, Added(Len(natives) + 1, call.hashes, "user"))
  /\ addHandlers' = Append(addHandlers, "user")
  /\ UNCHANGED <<torrents, registry, altIndex, downloaded, changedIDs, rows, requests>>

\* An addition of this content is on its way.
BeingAdded(c) ==
  \/ \E call \in BagToSet(pending) : call.call = "add" /\ ContentOf(call.hashes) = c
  \/ \E i \in DOMAIN alerts :
        alerts[i].answers = "user" /\ ContentOf(alerts[i].hashes) = c

\* downloadMetadata: without duplicate_is_error libtorrent hands out the native
\* torrent it has.
DownloadMetadata(hashes) ==
  LET owner == Owner(natives, hashes) IN
  /\ Request
  /\ ~IsKnown(hashes)
  /\ \/ "share" \in Races
     \/ /\ ~BeingAdded(ContentOf(hashes))
        /\ owner \notin {torrents[t].handle : t \in DOMAIN torrents}
  /\ IF owner # None
     THEN /\ alerts' = Append(alerts, Added(owner, hashes, "hidden"))
          /\ UNCHANGED natives
     ELSE /\ natives' = Append(natives, NewNative(hashes, FALSE))
          /\ alerts' = Append(alerts, Added(Len(natives) + 1, hashes, "hidden"))
  /\ downloaded' = [downloaded EXCEPT ![ToTorrentID(hashes)] = Requested]
  /\ addHandlers' = Append(addHandlers, "hidden")
  /\ UNCHANGED <<torrents, registry, altIndex, changedIDs, rows, pending>>

CancelDownloadMetadata(id) ==
  /\ Request
  /\ downloaded[id] # None
  /\ downloaded' = Cancel(id, Hidden).downloaded
  /\ natives' = Cancel(id, Hidden).natives
  /\ UNCHANGED <<alerts, session, pending>>

\* Mutant: the entry by the alternative ID is forgotten.
Removal_KeepAlt(t) ==
  [registry |-> [registry EXCEPT ![TorrentID(t)] = None],
   altIndex |-> altIndex,
   torrents |-> [o \in DOMAIN torrents \ {t} |-> torrents[o]],
   rows     |-> rows \ {TorrentID(t)},
   natives  |-> Removed(natives, torrents[t].handle),
   pending  |-> Without({RequestCall(t), SearchCall(t)})]

\* removeTorrent, as a function of what it changes.  The object is deleted, and
\* the calls queued for it are gone with it.
Removal(t) ==
  [registry |-> [registry EXCEPT ![TorrentID(t)] = None],
   altIndex |-> IF IsHybrid(torrents[t].hashes)
                THEN [altIndex EXCEPT ![V1(torrents[t].hashes)] = None] ELSE altIndex,
   torrents |-> [o \in DOMAIN torrents \ {t} |-> torrents[o]],
   rows     |-> rows \ {TorrentID(t)},
   natives  |-> Removed(natives, torrents[t].handle),
   pending  |-> Without({RequestCall(t), SearchCall(t)})]

RemoveTorrent(id) ==
  LET t == registry[id] IN
  /\ Request
  /\ t # None
  /\ "remove" \in Races \/ id \notin DOMAIN changedIDs
  /\ registry' = Removal(t).registry /\ altIndex' = Removal(t).altIndex
  /\ torrents' = Removal(t).torrents /\ rows' = Removal(t).rows
  /\ natives' = Removal(t).natives /\ pending' = Removal(t).pending
  /\ UNCHANGED <<alerts, addHandlers, downloaded, changedIDs>>

-----------------------------------------------------------------------------
(* handleAlert *)

NextAlert(type) == alerts # <<>> /\ Head(alerts).type = type

\* getTorrent: by the hashes the native torrent has by now.
TorrentOf(h) == registry[ToTorrentID(natives[h].hashes)]

\* The handler of an addition: createTorrent, then the first resume data.
HandleAdded ==
  LET h == Head(alerts).handle
      hashes == natives[h].hashes
  IN
  /\ NextAlert("add") /\ Head(addHandlers) = "user"
  /\ addHandlers' = Tail(addHandlers)
  /\ IF h = None
     THEN alerts' = Tail(alerts) /\ UNCHANGED <<torrents, registry, altIndex>>
     ELSE /\ torrents' = [o \in DOMAIN torrents \cup {h} |->
               IF o = h THEN [hashes |-> hashes, handle |-> h, meta |-> natives[h].given,
                              job |-> FALSE, stored |-> FALSE]
               ELSE torrents[o]]
          /\ registry' = [registry EXCEPT ![ToTorrentID(hashes)] = h]
          /\ altIndex' = IF IsHybrid(hashes) THEN [altIndex EXCEPT ![V1(hashes)] = h] ELSE altIndex
          /\ alerts' = Tail(alerts) \o SaveResumeData(natives, h)
  /\ UNCHANGED <<natives, downloaded, changedIDs, rows, pending, requests>>

\* The handler of a download: the handle is noted, under both hashes.
HandleHidden ==
  LET alert == Head(alerts)
      h == alert.handle
      id == ToTorrentID(natives[h].hashes)
      ids == IF IsHybrid(natives[h].hashes) THEN {id, V1(natives[h].hashes)} ELSE {id}
  IN
  /\ NextAlert("add") /\ Head(addHandlers) = "hidden"
  /\ addHandlers' = Tail(addHandlers)
  /\ alerts' = Tail(alerts)
  /\ downloaded' = IF downloaded[id] # None
                   THEN [i \in ID |-> IF i \in ids THEN h ELSE downloaded[i]] ELSE downloaded
  /\ UNCHANGED <<natives, torrents, registry, altIndex, changedIDs, rows, pending, requests>>

\* A reloaded torrent's alert has an empty handler.
HandleReloaded ==
  /\ NextAlert("add") /\ Head(addHandlers) = "none"
  /\ addHandlers' = Tail(addHandlers)
  /\ alerts' = Tail(alerts)
  /\ UNCHANGED <<natives, torrents, registry, altIndex, downloaded, changedIDs, rows, pending, requests>>

\* Mutant: the ID that the resume data is stored under is not kept.
InfoHashChanged_NoPrevious(t, hashes) ==
  /\ altIndex' = [altIndex EXCEPT ![V1(hashes)] = t]
  /\ registry' = [registry EXCEPT ![TorrentID(t)] = None, ![ToTorrentID(hashes)] = t]
  /\ UNCHANGED changedIDs

\* handleTorrentInfoHashChanged
InfoHashChanged(t, hashes) ==
  LET prevID == TorrentID(t)
      currentID == ToTorrentID(hashes)
  IN
  /\ altIndex' = [altIndex EXCEPT ![V1(hashes)] = t]
  /\ IF currentID # prevID
     THEN /\ registry' = [registry EXCEPT ![prevID] = None, ![currentID] = t]
          /\ changedIDs' = [id \in DOMAIN changedIDs \cup {currentID} |->
                              IF id = currentID THEN prevID ELSE changedIDs[id]]
     ELSE UNCHANGED <<registry, changedIDs>>

\* The torrent that a metadata_received alert is about.
MetadataFor(h) ==
  IF TorrentOf(h) # None THEN TorrentOf(h)
  ELSE IF IsHybrid(natives[h].hashes) THEN registry[V1(natives[h].hashes)] ELSE None

\* handleMetadataReceived
HandleMetadata ==
  LET t == MetadataFor(Head(alerts).handle)
      hashes == natives[torrents[t].handle].hashes
  IN
  /\ NextAlert("metadata") /\ t # None
  /\ alerts' = Tail(alerts)
  /\ torrents' = [torrents EXCEPT ![t].hashes = hashes, ![t].job = TRUE]
  /\ IF torrents[t].hashes # hashes
     THEN InfoHashChanged(t, hashes)
     ELSE UNCHANGED <<registry, altIndex, changedIDs>>
  /\ pending' = pending (+) Deferred(t)
  /\ UNCHANGED <<natives, addHandlers, downloaded, rows, requests>>

\* Nobody's torrent: if it is a hidden one, it has served its purpose.
HandleHiddenMetadata ==
  LET h == Head(alerts).handle
      found == {id \in natives[h].hashes : downloaded[id] # None}
  IN
  /\ NextAlert("metadata") /\ MetadataFor(h) = None
  /\ alerts' = Tail(alerts)
  /\ downloaded' = [id \in ID |-> IF id \in found THEN None ELSE downloaded[id]]
  /\ natives' = IF found # {} THEN Removed(natives, h) ELSE natives
  /\ UNCHANGED <<session, pending, requests>>

\* handleTorrentResumeDataReady: stored under the new ID, removed from the old.
ResumeDataReady(t) ==
  LET id == TorrentID(t) IN
  IF id \in DOMAIN changedIDs
  THEN /\ rows' = (rows \cup {id}) \ {changedIDs[id]}
       /\ changedIDs' = [i \in DOMAIN changedIDs \ {id} |-> changedIDs[i]]
  ELSE rows' = rows \cup {id} /\ UNCHANGED changedIDs

\* handleSaveResumeData: with new metadata the files are looked for first.
HandleResumeData ==
  LET alert == Head(alerts)
      t == TorrentOf(alert.handle)
  IN
  /\ NextAlert("resume")
  /\ alerts' = Tail(alerts)
  /\ IF t = None THEN UNCHANGED <<torrents, rows, changedIDs, pending>>
     ELSE IF torrents[t].job /\ alert.meta
     THEN pending' = pending (+) One(SearchCall(t)) /\ UNCHANGED <<torrents, rows, changedIDs>>
     ELSE /\ torrents' = [torrents EXCEPT ![t].stored = TRUE]
          /\ ResumeDataReady(t)
          /\ UNCHANGED pending
  /\ UNCHANGED <<natives, addHandlers, registry, altIndex, downloaded, requests>>

\* handleTorrentConflictAlert: the torrent under the ID of version 2 gets the
\* metadata, if there is one; what is under the other ID goes.
HandleConflict ==
  LET hashes == Head(alerts).hashes
      t1 == registry[V1(hashes)]
      t2 == registry[V2(hashes)]
      hidden == IF t2 # None THEN Cancel(V1(hashes), Hidden)
                ELSE IF t1 # None THEN Cancel(V2(hashes), Hidden)
                ELSE Cancel(V2(hashes), Cancel(V1(hashes), Hidden))
  IN
  /\ NextAlert("conflict")
  /\ alerts' = Tail(alerts)
  /\ IF t1 # None /\ t2 # None
     THEN /\ registry' = Removal(t1).registry /\ altIndex' = Removal(t1).altIndex
          /\ torrents' = Removal(t1).torrents /\ rows' = Removal(t1).rows
          /\ natives' = Removal(t1).natives
          /\ pending' = Removal(t1).pending (+) One(SetMetadataCall(torrents[t2].handle))
          /\ UNCHANGED downloaded
     ELSE /\ downloaded' = hidden.downloaded
          /\ natives' = hidden.natives
          /\ pending' = IF t2 # None THEN pending (+) One(SetMetadataCall(torrents[t2].handle))
                        ELSE IF t1 # None THEN pending (+) One(SetMetadataCall(torrents[t1].handle))
                        ELSE pending
          /\ UNCHANGED <<registry, altIndex, torrents, rows>>
  /\ UNCHANGED <<addHandlers, changedIDs, requests>>

-----------------------------------------------------------------------------
(* The queued calls *)

RequestResumeData(t) ==
  /\ BagIn(RequestCall(t), pending)
  /\ pending' = pending (-) One(RequestCall(t))
  /\ alerts' = alerts \o SaveResumeData(natives, torrents[t].handle)
  /\ UNCHANGED <<natives, session, downloaded, requests>>

\* The async worker's set_metadata.
SetMetadata(h) ==
  /\ BagIn(SetMetadataCall(h), pending)
  /\ pending' = pending (-) One(SetMetadataCall(h))
  /\ IF natives[h].alive /\ ~natives[h].meta
     THEN GetMetadata(h) ELSE UNCHANGED <<natives, alerts>>
  /\ UNCHANGED <<session, downloaded, requests>>

\* Mutant: libtorrent's alert for the reloaded torrent is not thought of.
Reload_NoHandler == UNCHANGED addHandlers

\* reloadTorrent: an empty handler for the alert that comes of it.
ReloadHandler == addHandlers' = Append(addHandlers, "none")

\* Mutants: the handle is not replaced; it is another one.
Reloaded_OldHandle(t, h) == [torrents EXCEPT ![t].meta = TRUE, ![t].job = FALSE, ![t].stored = TRUE]
Reloaded_WrongHandle(t, h) ==
  [torrents EXCEPT ![t].handle = h + 1, ![t].meta = TRUE, ![t].job = FALSE, ![t].stored = TRUE]

\* The torrent as it goes on with its new handle.
Reloaded(t, h) ==
  [torrents EXCEPT ![t].handle = h, ![t].meta = TRUE, ![t].job = FALSE, ![t].stored = TRUE]

\* endReceivedMetadataHandling: the native torrent is replaced by a new one.
EndMetadata(t) ==
  /\ BagIn(SearchCall(t), pending)
  /\ pending' = pending (-) One(SearchCall(t))
  /\ IF torrents[t].job
     THEN LET all == AllHashes(ContentOf(torrents[t].hashes))
              h == Len(natives) + 1
          IN /\ natives' = Append(Removed(natives, torrents[t].handle), NewNative(all, TRUE))
             /\ alerts' = Append(alerts, Added(h, all, "none"))
             /\ ReloadHandler
             /\ torrents' = Reloaded(t, h)
             /\ ResumeDataReady(t)
     ELSE UNCHANGED <<natives, alerts, addHandlers, torrents, rows, changedIDs>>
  /\ UNCHANGED <<registry, altIndex, downloaded, requests>>

-----------------------------------------------------------------------------
HandleAlert ==
  \/ HandleAdded \/ HandleHidden \/ HandleReloaded
  \/ HandleMetadata \/ HandleHiddenMetadata
  \/ HandleResumeData \/ HandleConflict

RunCall ==
  \/ \E call \in BagToSet(pending) : PostAddition(call)
  \/ \E t \in Handle : RequestResumeData(t) \/ SetMetadata(t) \/ EndMetadata(t)

Next ==
  \/ \E source \in Sources : AddTorrent(source[1], source[2]) \/ AddDuplicate(source[1], source[2])
  \/ \E hashes \in InfoHash : DownloadMetadata(hashes)
  \/ \E id \in ID : CancelDownloadMetadata(id) \/ RemoveTorrent(id)
  \/ \E h \in Handle : ReceiveMetadata(h)
  \/ HandleAlert
  \/ RunCall

\* The event loop and the async worker run on.
Fairness == WF_vars(HandleAlert) /\ WF_vars(RunCall)

Spec == Init /\ [][Next]_vars
FairSpec == Spec /\ Fairness

-----------------------------------------------------------------------------
(* Properties. *)

(* Types of the variables. *)
TypeOK ==
  /\ \A h \in DOMAIN natives : h \in Handle /\ natives[h].hashes \in InfoHash
  /\ \A i \in DOMAIN alerts : alerts[i].type \in {"add", "metadata", "resume", "conflict"}
  /\ \A i \in DOMAIN addHandlers : addHandlers[i] \in {"user", "hidden", "none"}
  /\ DOMAIN torrents \subseteq Handle
  /\ \A t \in DOMAIN torrents : torrents[t].handle \in DOMAIN natives
  /\ registry \in [ID -> Handle \cup {None}] /\ altIndex \in [ID -> Handle \cup {None}]
  /\ downloaded \in [ID -> Handle \cup {None, Requested}]
  /\ DOMAIN changedIDs \subseteq ID /\ \A id \in DOMAIN changedIDs : changedIDs[id] \in ID
  /\ rows \subseteq ID
  /\ IsABag(pending)
  /\ requests \in 0..MaxRequests

(* handleAddTorrentAlert takes the first handler for the first alert: each
   alert meets the handler of the call it answers: the n-th addition among the
   alerts, the n-th handler. *)
Additions(queue, i) == {j \in 1..i : queue[j].type = "add"}
HandlersMatchAlerts ==
  /\ Len(addHandlers) = Cardinality(Additions(alerts, Len(alerts)))
  /\ \A i \in Additions(alerts, Len(alerts)) :
        addHandlers[Cardinality(Additions(alerts, i))] = alerts[i].answers

(* Every TorrentImpl is found in m_torrents by the ID it has now, a hybrid one
   in m_hybridTorrentsByAltID by its other ID, and nothing else is found:
   neither a change of ID nor an addition puts one torrent over another, and
   no entry dangles. *)
IndexIsExact ==
  \A id \in ID :
    /\ {t \in DOMAIN torrents : TorrentID(t) = id} = {registry[id]} \ {None}
    /\ {t \in DOMAIN torrents : IsHybrid(torrents[t].hashes) /\ V1(torrents[t].hashes) = id}
         = {altIndex[id]} \ {None}

(* A torrent of the session is in libtorrent: only removing the torrent
   removes what is behind its handle. *)
TorrentHasNative == \A t \in DOMAIN torrents : natives[torrents[t].handle].alive

(* A torrent whose resume data has been stored is stored under its ID, or
   under the ID it has changed from: wherever the program ends, the next start
   finds it. *)
StoredIsFound ==
  \A t \in DOMAIN torrents :
    torrents[t].stored =>
      \/ TorrentID(t) \in rows
      \/ TorrentID(t) \in DOMAIN changedIDs /\ changedIDs[TorrentID(t)] \in rows

(* "Remove it from torrent resume directory": what is stored belongs to a
   torrent of the session, or it would come back with the next start. *)
RemovedIsGone ==
  \A id \in rows : \E t \in DOMAIN torrents :
    \/ TorrentID(t) = id
    \/ TorrentID(t) \in DOMAIN changedIDs /\ changedIDs[TorrentID(t)] = id

(* A torrent that has received its metadata is loaded with it. *)
MetadataIsLoaded ==
  \A t \in Handle :
    (t \in DOMAIN torrents /\ torrents[t].job) ~> (t \notin DOMAIN torrents \/ ~torrents[t].job)

=============================================================================
