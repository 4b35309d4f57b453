---------------------------- MODULE SyncMaindata ----------------------------
(***************************************************************************)
(* SyncController, api/v2/sync/maindata: the web interface asks again and  *)
(* again for what has changed, naming the last response it has received;   *)
(* the server gathers the changes of all responses that are not            *)
(* acknowledged in one buffer.                                             *)
(*                                                                         *)
(* Categories go the way of torrents, and trackers and the state of the    *)
(* server are maps as well; a torrent has one field.  Tabs of one browser  *)
(* share the web session, and with it the controller.  A tab has one       *)
(* request at a time, so that request and response are one step.           *)
(***************************************************************************)
EXTENDS Integers

CONSTANTS
  Torrent,        \* the torrents
  Tag,            \* the tags
  Data,           \* the contents of a torrent's field
  Absent,         \* there is no such torrent
  Tab,            \* the pages that share a web session
  MaxResponseID,  \* response IDs cycle between 1 and this
  MaxLost,        \* bound: responses lost in a row
  MaxCopies       \* bound: copies of a tag in the snapshot

VARIABLES
  torrents,         \* the torrents of the session
  tags,             \* its tags
  updatedTorrents,  \* m_updatedTorrents
  removedTorrents,  \* m_removedTorrents
  addedTags,        \* m_addedTags
  removedTags,      \* m_removedTags
  snapshot,         \* m_maindataSnapshot: torrents, and how often each tag is in the list
  syncBuf,          \* m_maindataSyncBuf
  lastSentID,       \* m_maindataLastSentID
  acceptedID,       \* m_maindataAcceptedID
  tab,              \* what each tab shows, and the last response it has received
  lost              \* the responses lost in a row

sessionData == <<torrents, tags>>
changes == <<updatedTorrents, removedTorrents, addedTags, removedTags>>
maindata == <<snapshot, syncBuf, lastSentID, acceptedID>>
syncVars == <<sessionData, changes, maindata, tab, lost>>

ASSUME SyncAssumption ==
  /\ Absent \notin Data
  /\ MaxResponseID \in Nat /\ MaxLost \in Nat /\ MaxLost + 1 < MaxResponseID
  /\ MaxCopies \in Nat

NoTorrents == [t \in Torrent |-> Absent]
NoTags == [g \in Tag |-> 0]
NoRows == [t \in Torrent |-> 0]
NoBuf == [torrents |-> NoTorrents, removedTorrents |-> NoRows, tags |-> NoTags, removedTags |-> NoTags]
NewTab == [rid |-> 0, torrents |-> NoTorrents, tags |-> {}]

\* The lists are kept as the number of times that an element is in them.
Appended(list, S) == [x \in DOMAIN list |-> IF x \in S THEN list[x] + 1 ELSE list[x]]
RemoveOne(list, S) ==
  [x \in DOMAIN list |-> IF x \in S /\ list[x] > 0 THEN list[x] - 1 ELSE list[x]]

SyncInit ==
  /\ torrents = NoTorrents /\ tags = {}
  /\ updatedTorrents = {} /\ removedTorrents = {}
  /\ addedTags = {} /\ removedTags = {}
  /\ snapshot = [torrents |-> NoTorrents, tags |-> NoTags]
  /\ syncBuf = NoBuf
  /\ lastSentID = 0
  /\ acceptedID = -1
  /\ tab = [p \in Tab |-> NewTab]
  /\ lost = 0

-----------------------------------------------------------------------------
\* The signals of the session are connected by the first request.
Connected == acceptedID >= 0

Signal(updated, removed, addedTag, removedTag) ==
  /\ \/ /\ Connected
        /\ updatedTorrents' = (updatedTorrents \ removed) \cup updated
        /\ removedTorrents' = (removedTorrents \ updated) \cup removed
        /\ addedTags' = (addedTags \ removedTag) \cup addedTag
        /\ removedTags' = (removedTags \ addedTag) \cup removedTag
     \/ ~Connected /\ UNCHANGED changes
  /\ UNCHANGED <<maindata, tab, lost>>

\* onTorrentAdded, and every signal of an existing torrent.
ChangeTorrent(t, data) ==
  /\ torrents[t] # data
  /\ torrents' = [torrents EXCEPT ![t] = data]
  /\ Signal({t}, {}, {}, {})
  /\ UNCHANGED tags

\* onTorrentAboutToBeRemoved
RemoveTorrent(t) ==
  /\ torrents[t] # Absent
  /\ torrents' = [torrents EXCEPT ![t] = Absent]
  /\ Signal({}, {t}, {}, {})
  /\ UNCHANGED tags

\* onTorrentInfoHashChanged: the torrent goes on under another ID.
ChangeID(t, id) ==
  /\ torrents[t] # Absent /\ torrents[id] = Absent
  /\ torrents' = [torrents EXCEPT ![t] = Absent, ![id] = torrents[t]]
  /\ Signal({id}, {t}, {}, {})
  /\ UNCHANGED tags

\* onTagAdded, onTagRemoved
AddTag(g) ==
  /\ g \notin tags
  /\ snapshot.tags[g] < MaxCopies
  /\ tags' = tags \cup {g}
  /\ Signal({}, {}, {g}, {})
  /\ UNCHANGED torrents

RemoveTag(g) ==
  /\ g \in tags
  /\ tags' = tags \ {g}
  /\ Signal({}, {}, {}, {g})
  /\ UNCHANGED torrents

-----------------------------------------------------------------------------
\* processMap: the field is sent if it has changed since the snapshot, or has
\* been sent without having been acknowledged.
ProcessMap(previous, data, unacknowledged) ==
  IF previous # data THEN data ELSE unacknowledged

\* makeMaindataSnapshot, at the first request.
CurrentSnapshot ==
  IF Connected THEN snapshot
  ELSE [torrents |-> torrents, tags |-> [g \in Tag |-> IF g \in tags THEN 1 ELSE 0]]

\* Mutant: an added torrent stays in the list of the removed ones.
Gathered_KeepRemoved(buf, snap) ==
  [torrents        |-> [t \in Torrent |->
                          IF t \in removedTorrents THEN Absent
                          ELSE IF t \in updatedTorrents
                          THEN ProcessMap(snap.torrents[t], torrents[t], buf.torrents[t])
                          ELSE buf.torrents[t]],
   removedTorrents |-> Appended(buf.removedTorrents, removedTorrents),
   tags            |-> Appended(RemoveOne(buf.tags, removedTags), addedTags),
   removedTags     |-> Appended(RemoveOne(buf.removedTags, addedTags), removedTags)]

\* generateMaindataSyncData: the changes since the last request join those
\* that are not acknowledged, and take back what they contradict.
Gathered(buf, snap) ==
  [torrents        |-> [t \in Torrent |->
                          IF t \in removedTorrents THEN Absent
                          ELSE IF t \in updatedTorrents
                          THEN ProcessMap(snap.torrents[t], torrents[t], buf.torrents[t])
                          ELSE buf.torrents[t]],
   removedTorrents |-> Appended(RemoveOne(buf.removedTorrents, updatedTorrents), removedTorrents),
   tags            |-> Appended(RemoveOne(buf.tags, removedTags), addedTags),
   removedTags     |-> Appended(RemoveOne(buf.removedTags, addedTags), removedTags)]

\* The snapshot takes the same changes.
Updated(snap) ==
  [torrents |-> [t \in Torrent |->
                   IF t \in removedTorrents THEN Absent
                   ELSE IF t \in updatedTorrents THEN torrents[t] ELSE snap.torrents[t]],
   tags     |-> RemoveOne(Appended(snap.tags, addedTags), removedTags)]

\* A full update is the snapshot.
FullBuf(snap) == [torrents |-> snap.torrents, removedTorrents |-> NoRows,
                  tags |-> snap.tags, removedTags |-> NoTags]

\* syncMainData: a full update replaces what the page shows; what is removed
\* is processed after what has changed.
Shown(page, buf, full, id) ==
  LET rows == IF full THEN NoTorrents ELSE page.torrents
      list == IF full THEN {} ELSE page.tags
  IN [rid      |-> id,
      torrents |-> [t \in Torrent |->
                      IF buf.removedTorrents[t] > 0 THEN Absent
                      ELSE IF buf.torrents[t] # Absent THEN buf.torrents[t] ELSE rows[t]],
      tags     |-> {g \in Tag : (g \in list \/ buf.tags[g] > 0) /\ buf.removedTags[g] = 0}]

\* maindataAction, and the page with the response unless that is lost.
Maindata(p, delivered) ==
  LET acknowledged == tab[p].rid > 0 /\ lastSentID = tab[p].rid
      accepted == IF acknowledged THEN tab[p].rid ELSE IF Connected THEN acceptedID ELSE 0
      full == ~(tab[p].rid > 0 /\ lastSentID > 0 /\ accepted = tab[p].rid)
      snap == Updated(CurrentSnapshot)
      id == (lastSentID % MaxResponseID) + 1
  IN /\ acceptedID' = accepted
     /\ lastSentID' = id
     /\ snapshot' = snap
     /\ syncBuf' = IF full THEN FullBuf(snap)
                   ELSE Gathered(IF acknowledged THEN NoBuf ELSE syncBuf, CurrentSnapshot)
     /\ updatedTorrents' = {} /\ removedTorrents' = {} /\ addedTags' = {} /\ removedTags' = {}
     /\ \/ /\ delivered
           /\ tab' = [tab EXCEPT ![p] = Shown(tab[p], syncBuf', full, id)]
           /\ lost' = 0
        \/ /\ ~delivered
           /\ lost < MaxLost
           /\ lost' = lost + 1
           /\ UNCHANGED tab
     /\ UNCHANGED sessionData

\* The page is loaded again.
LoadPage(p) ==
  /\ tab[p] # NewTab
  /\ tab' = [tab EXCEPT ![p] = NewTab]
  /\ UNCHANGED <<sessionData, changes, maindata, lost>>

SyncNext ==
  \/ \E t \in Torrent : \/ \E data \in Data : ChangeTorrent(t, data)
                        \/ RemoveTorrent(t)
                        \/ \E id \in Torrent : ChangeID(t, id)
  \/ \E g \in Tag : AddTag(g) \/ RemoveTag(g)
  \/ \E p \in Tab : LoadPage(p) \/ \E delivered \in BOOLEAN : Maindata(p, delivered)

SyncSpec == SyncInit /\ [][SyncNext]_syncVars

-----------------------------------------------------------------------------
(* Properties. *)

Rows == [Torrent -> Data \cup {Absent}]
Counts(S) == [S -> 0..(MaxCopies + MaxLost + 1)]
Buffer == [torrents: Rows, removedTorrents: Counts(Torrent), tags: Counts(Tag), removedTags: Counts(Tag)]
Page == [rid: 0..MaxResponseID, torrents: Rows, tags: SUBSET Tag]

(* Types of the variables. *)
SyncTypeOK ==
  /\ torrents \in Rows /\ tags \subseteq Tag
  /\ updatedTorrents \subseteq Torrent /\ removedTorrents \subseteq Torrent
  /\ addedTags \subseteq Tag /\ removedTags \subseteq Tag
  /\ snapshot \in [torrents: Rows, tags: Counts(Tag)]
  /\ syncBuf \in Buffer
  /\ lastSentID \in 0..MaxResponseID /\ acceptedID \in -1..MaxResponseID
  /\ tab \in [Tab -> Page]
  /\ lost \in 0..MaxLost

\* The page has received the last response.
UpToDate(p) == tab[p].rid > 0 /\ tab[p].rid = lastSentID /\ lost = 0

(* "The function returns the changed data from the server to synchronize with
   the web client": a page that has received the last response shows every
   torrent as it is, except those whose change the next response will bring,
   and no tag is missing; and the torrents to be sent exist. *)
MaindataIsExact ==
  /\ updatedTorrents \subseteq {t \in Torrent : torrents[t] # Absent}
  /\ \A p \in Tab : UpToDate(p) =>
       /\ \A t \in Torrent \ (updatedTorrents \cup removedTorrents) :
            tab[p].torrents[t] = torrents[t]
       /\ tags \ addedTags \subseteq tab[p].tags

(* The same of the tags: none is shown that does not exist. *)
TagsAreExact ==
  \A p \in Tab : UpToDate(p) => tab[p].tags \ removedTags \subseteq tags

=============================================================================
