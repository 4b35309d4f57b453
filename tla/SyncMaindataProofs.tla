------------------------- MODULE SyncMaindataProofs -------------------------
(* Theorems about SyncMaindata, for every value of its constants with a      *)
(* single page in the web session, of which no two responses are lost in a   *)
(* row.                                                                      *)
EXTENDS SyncMaindata, TLAPS

\* What the session has changed since the snapshot was made: no torrent is both
\* changed and removed, and what is in neither list is as in the snapshot.
TorrentsInv ==
  /\ updatedTorrents \cap removedTorrents = {}
  /\ \A t \in updatedTorrents : torrents[t] # Absent
  /\ \A t \in removedTorrents : torrents[t] = Absent
  /\ Connected => \A t \in Torrent \ (updatedTorrents \cup removedTorrents) :
                    snapshot.torrents[t] = torrents[t]

\* The same of the tags; the list of the snapshot may hold a tag more than once.
TagsInv ==
  /\ addedTags \subseteq tags
  /\ removedTags \cap tags = {}
  /\ \A g \in Tag : snapshot.tags[g] \in 0..MaxCopies
  /\ \A g \in addedTags : snapshot.tags[g] < MaxCopies
  /\ IF Connected THEN \A g \in tags \ addedTags : snapshot.tags[g] > 0
     ELSE tags # {} => MaxCopies > 0

\* Nothing is gathered before the first request.
FirstInv ==
  ~Connected => /\ updatedTorrents = {} /\ removedTorrents = {}
                /\ addedTags = {} /\ removedTags = {}

\* The page is as the snapshot: it has received the last response.
Current(p) ==
  /\ tab[p].rid = lastSentID
  /\ tab[p].torrents = snapshot.torrents
  /\ tags \ addedTags \subseteq tab[p].tags

\* Applied to what the page shows, the buffer gives these torrents and at least
\* these tags.
Leads(buf, page, rows, list) ==
  /\ \A t \in Torrent : rows[t] = IF buf.removedTorrents[t] > 0 THEN Absent
                                 ELSE IF buf.torrents[t] # Absent THEN buf.torrents[t]
                                 ELSE page.torrents[t]
  /\ \A g \in list : (g \in page.tags \/ buf.tags[g] > 0) /\ buf.removedTags[g] = 0

\* The buffer holds each change once.
Once(buf) ==
  /\ \A t \in Torrent : buf.removedTorrents[t] \in 0..1
  /\ \A g \in Tag : buf.tags[g] \in 0..1 /\ buf.removedTags[g] \in 0..1

\* The last response is lost: the buffer leads from what the page shows to the
\* snapshot.
Behind(p) ==
  /\ acceptedID = tab[p].rid /\ lastSentID # tab[p].rid /\ lastSentID > 0
  /\ Once(syncBuf)
  /\ Leads(syncBuf, tab[p], snapshot.torrents, tags \ addedTags)

PageInv(p) ==
  tab[p].rid > 0 => /\ Connected
                    /\ (lost = 0 /\ Current(p)) \/ (lost = 1 /\ Behind(p))

SyncInv(p) == SyncTypeOK /\ TorrentsInv /\ TagsInv /\ FirstInv /\ PageInv(p)

-----------------------------------------------------------------------------
\* maindataAction: response IDs start again at 1 after the largest.
LEMMA NextResponseID ==
  ASSUME NEW id \in 0..MaxResponseID
  PROVE  (id % MaxResponseID) + 1 = IF id = MaxResponseID THEN 1 ELSE id + 1
<1> USE SyncAssumption
<1>1. CASE id < MaxResponseID
  <2>1. id % MaxResponseID = id BY <1>1, SMT
  <2> QED BY <1>1, <2>1
<1>2. CASE id = MaxResponseID
  <2>1. MaxResponseID % MaxResponseID = 0 BY SMT
  <2> QED BY <1>2, <2>1
<1> QED BY <1>1, <1>2

\* The first page has received nothing.
LEMMA SyncInitial == ASSUME NEW p \in Tab, SyncInit PROVE SyncInv(p)
<1> USE SyncAssumption DEF SyncInit
<1>1. NoTorrents \in Rows BY DEF NoTorrents, Rows
<1>2. NoTags \in Counts(Tag) /\ NoRows \in Counts(Torrent) BY DEF NoTags, NoRows, Counts
<1>3. NoBuf \in Buffer BY <1>1, <1>2 DEF NoBuf, Buffer
<1>4. NewTab \in Page BY <1>1 DEF NewTab, Page
<1>5. SyncTypeOK BY <1>1, <1>2, <1>3, <1>4 DEF SyncTypeOK
<1>6. TorrentsInv BY DEF TorrentsInv, Connected
<1>7. TagsInv BY DEF TagsInv, Connected, NoTags
<1>8. FirstInv BY DEF FirstInv
<1>9. PageInv(p) BY DEF PageInv, NewTab
<1> QED BY <1>5, <1>6, <1>7, <1>8, <1>9 DEF SyncInv

-----------------------------------------------------------------------------
(* The signals of the session. *)

\* A signal leaves what has been sent alone.
LEMMA SignalKeepsPage ==
  ASSUME NEW p \in Tab, SyncInv(p), UNCHANGED <<maindata, tab, lost>>,
         Connected => tags' \ addedTags' \subseteq tags \ addedTags
  PROVE  PageInv(p)'
BY DEF SyncInv, PageInv, Current, Behind, Once, Leads, maindata, Connected

\* Torrents change, in any number of lists as long as these agree with them.
LEMMA TorrentSignal ==
  ASSUME NEW p \in Tab, SyncInv(p),
         NEW updated \in SUBSET Torrent, NEW removed \in SUBSET Torrent,
         Signal(updated, removed, {}, {}), UNCHANGED tags,
         updated \cap removed = {},
         torrents' \in Rows,
         \A t \in updated : torrents'[t] # Absent,
         \A t \in removed : torrents'[t] = Absent,
         \A t \in Torrent \ (updated \cup removed) : torrents'[t] = torrents[t]
  PROVE  SyncInv(p)'
<1>1. UNCHANGED <<maindata, tab, lost>> BY DEF Signal
<1>2. SyncTypeOK' BY <1>1 DEF SyncInv, SyncTypeOK, Signal, maindata, changes
<1>3. addedTags' = addedTags /\ removedTags' = removedTags BY DEF Signal, changes
<1>4. TorrentsInv'
  <2>1. CASE Connected
    <3>1. /\ updatedTorrents' = (updatedTorrents \ removed) \cup updated
          /\ removedTorrents' = (removedTorrents \ updated) \cup removed
      BY <2>1 DEF Signal
    <3> QED BY <2>1, <3>1, <1>1 DEF SyncInv, SyncTypeOK, TorrentsInv, Connected, maindata
  <2>2. CASE ~Connected
    <3>1. updatedTorrents' = {} /\ removedTorrents' = {}
      BY <2>2 DEF Signal, changes, SyncInv, FirstInv
    <3> QED BY <2>2, <3>1, <1>1 DEF TorrentsInv, Connected, maindata
  <2> QED BY <2>1, <2>2
<1>5. TagsInv' BY <1>1, <1>3 DEF SyncInv, TagsInv, Connected, maindata
<1>6. FirstInv' BY <1>1 DEF SyncInv, FirstInv, Signal, changes, Connected, maindata
<1>7. PageInv(p)' BY <1>1, <1>3, SignalKeepsPage
<1> QED BY <1>2, <1>4, <1>5, <1>6, <1>7 DEF SyncInv

LEMMA TorrentsKeepInv ==
  ASSUME NEW p \in Tab, SyncInv(p), NEW t \in Torrent,
         \/ \E data \in Data : ChangeTorrent(t, data)
         \/ RemoveTorrent(t)
         \/ \E id \in Torrent : ChangeID(t, id)
  PROVE  SyncInv(p)'
<1>0. torrents \in Rows BY DEF SyncInv, SyncTypeOK
<1>1. CASE \E data \in Data : ChangeTorrent(t, data)
  <2>1. PICK data \in Data : ChangeTorrent(t, data) BY <1>1
  <2>2. data # Absent BY SyncAssumption
  <2>3. torrents' = [torrents EXCEPT ![t] = data] BY <2>1 DEF ChangeTorrent
  <2>4. torrents' \in Rows BY <1>0, <2>3 DEF Rows
  <2>5. Signal({t}, {}, {}, {}) /\ UNCHANGED tags BY <2>1 DEF ChangeTorrent
  <2>6. /\ \A u \in {t} : torrents'[u] # Absent
        /\ \A u \in Torrent \ ({t} \cup {}) : torrents'[u] = torrents[u]
    BY <1>0, <2>2, <2>3 DEF Rows
  <2> QED BY <2>4, <2>5, <2>6, TorrentSignal
<1>2. CASE RemoveTorrent(t)
  <2>1. torrents' = [torrents EXCEPT ![t] = Absent] BY <1>2 DEF RemoveTorrent
  <2>2. torrents' \in Rows BY <1>0, <2>1 DEF Rows
  <2>3. Signal({}, {t}, {}, {}) /\ UNCHANGED tags BY <1>2 DEF RemoveTorrent
  <2>4. /\ \A u \in {t} : torrents'[u] = Absent
        /\ \A u \in Torrent \ ({} \cup {t}) : torrents'[u] = torrents[u]
    BY <1>0, <2>1 DEF Rows
  <2> QED BY <2>2, <2>3, <2>4, TorrentSignal
<1>3. CASE \E id \in Torrent : ChangeID(t, id)
  <2>1. PICK id \in Torrent : ChangeID(t, id) BY <1>3
  <2>2. /\ torrents[t] # Absent /\ torrents[id] = Absent /\ id # t
        /\ torrents' = [torrents EXCEPT ![t] = Absent, ![id] = torrents[t]]
    BY <2>1 DEF ChangeID
  <2>3. torrents' \in Rows BY <1>0, <2>2 DEF Rows
  <2>4. Signal({id}, {t}, {}, {}) /\ UNCHANGED tags BY <2>1 DEF ChangeID
  <2>5. /\ \A u \in {id} : torrents'[u] # Absent
        /\ \A u \in {t} : torrents'[u] = Absent
        /\ \A u \in Torrent \ ({id} \cup {t}) : torrents'[u] = torrents[u]
    BY <1>0, <2>2 DEF Rows
  <2>6. {id} \cap {t} = {} BY <2>2
  <2>7. {id} \in SUBSET Torrent /\ {t} \in SUBSET Torrent OBVIOUS
  <2> QED BY <2>3, <2>4, <2>5, <2>6, <2>7, TorrentSignal
<1> QED BY <1>1, <1>2, <1>3

LEMMA TagsKeepInv ==
  ASSUME NEW p \in Tab, SyncInv(p), NEW g \in Tag, AddTag(g) \/ RemoveTag(g)
  PROVE  SyncInv(p)'
<1> USE SyncAssumption
<1>1. UNCHANGED <<maindata, tab, lost, torrents>> BY DEF AddTag, RemoveTag, Signal
<1>2. updatedTorrents' = updatedTorrents /\ removedTorrents' = removedTorrents
  BY DEF AddTag, RemoveTag, Signal, changes
<1>3. SyncTypeOK'
  BY <1>1 DEF SyncInv, SyncTypeOK, AddTag, RemoveTag, Signal, changes, maindata
<1>4. TorrentsInv' BY <1>1, <1>2 DEF SyncInv, TorrentsInv, Connected, maindata
<1>5. TagsInv' /\ (Connected => tags' \ addedTags' \subseteq tags \ addedTags)
  <2>1. CASE AddTag(g)
    BY <1>1, <2>1 DEF SyncInv, TagsInv, SyncTypeOK, AddTag, Signal, changes, Connected, maindata, FirstInv
  <2>2. CASE RemoveTag(g)
    BY <1>1, <2>2 DEF SyncInv, TagsInv, SyncTypeOK, RemoveTag, Signal, changes, Connected, maindata, FirstInv
  <2> QED BY <2>1, <2>2
<1>6. FirstInv'
  BY <1>1 DEF SyncInv, FirstInv, AddTag, RemoveTag, Signal, changes, Connected, maindata
<1>7. PageInv(p)' BY <1>1, <1>5, SignalKeepsPage
<1> QED BY <1>3, <1>4, <1>5, <1>6, <1>7 DEF SyncInv

-----------------------------------------------------------------------------
(* A request and its response. *)

\* The new snapshot is the session's torrents, and has all its tags.
LEMMA SnapshotIsCurrent ==
  ASSUME NEW p \in Tab, SyncInv(p)
  PROVE  LET snap == Updated(CurrentSnapshot)
         IN /\ snap \in [torrents: Rows, tags: [Tag -> 0..MaxCopies]]
            /\ snap.torrents = torrents
            /\ \A g \in tags : snap.tags[g] > 0
<1> USE SyncAssumption
<1> DEFINE old == CurrentSnapshot
           snap == Updated(old)
<1>1. SyncTypeOK /\ TorrentsInv /\ TagsInv /\ FirstInv BY DEF SyncInv
<1>2. /\ torrents \in Rows /\ snapshot.torrents \in Rows
      /\ snapshot.tags \in [Tag -> 0..MaxCopies]
      /\ tags \subseteq Tag /\ addedTags \subseteq Tag /\ removedTags \subseteq Tag
  BY <1>1 DEF SyncTypeOK, TagsInv, Counts
<1>3. /\ old.torrents \in Rows /\ old.tags \in [Tag -> 0..MaxCopies]
      /\ \A g \in addedTags : old.tags[g] < MaxCopies
      /\ \A g \in tags \ addedTags : old.tags[g] > 0
  <2>1. CASE Connected BY <1>1, <1>2, <2>1 DEF CurrentSnapshot, TagsInv
  <2>2. CASE ~Connected
    <3>1. addedTags = {} BY <1>1, <2>2 DEF FirstInv
    <3>2. old = [torrents |-> torrents, tags |-> [g \in Tag |-> IF g \in tags THEN 1 ELSE 0]]
      BY <2>2 DEF CurrentSnapshot
    <3>3. tags # {} => MaxCopies > 0 BY <1>1, <2>2 DEF TagsInv
    <3>4. \A g \in Tag : (IF g \in tags THEN 1 ELSE 0) \in 0..MaxCopies BY <3>3
    <3> QED BY <1>2, <3>1, <3>2, <3>4
  <2> QED BY <2>1, <2>2
<1>4. \A t \in Torrent \ (updatedTorrents \cup removedTorrents) : old.torrents[t] = torrents[t]
  BY <1>1 DEF CurrentSnapshot, TorrentsInv, FirstInv
<1> HIDE DEF old
<1>5. snap.torrents = torrents
  <2>1. \A t \in Torrent : snap.torrents[t] = torrents[t]
    BY <1>1, <1>4 DEF Updated, TorrentsInv
  <2>2. snap.torrents = [t \in Torrent |-> snap.torrents[t]] BY DEF Updated
  <2>3. torrents = [t \in Torrent |-> torrents[t]] BY <1>2 DEF Rows
  <2> QED BY <2>1, <2>2, <2>3
<1>6. /\ snap.tags \in [Tag -> 0..MaxCopies]
      /\ \A g \in tags : snap.tags[g] > 0
  <2> DEFINE more == Appended(old.tags, addedTags)
  <2>1. DOMAIN old.tags = Tag BY <1>3
  <2>2. more = [g \in Tag |-> IF g \in addedTags THEN old.tags[g] + 1 ELSE old.tags[g]]
    BY <2>1 DEF Appended
  <2>3. more \in [Tag -> 0..MaxCopies] /\ \A g \in tags : more[g] > 0
    BY <1>2, <1>3, <2>2
  <2>4. snap.tags = RemoveOne(more, removedTags) BY DEF Updated
  <2> HIDE DEF more, snap
  <2>5. DOMAIN more = Tag BY <2>3
  <2>6. snap.tags = [g \in Tag |-> IF g \in removedTags /\ more[g] > 0 THEN more[g] - 1 ELSE more[g]]
    BY <2>4, <2>5 DEF RemoveOne
  <2>7. removedTags \cap tags = {} BY <1>1 DEF TagsInv
  <2>8. \A g \in Tag : more[g] \in 0..MaxCopies BY <2>3
  <2>9. \A g \in Tag : snap.tags[g] \in 0..MaxCopies BY <2>6, <2>8
  <2>10. snap.tags \in [Tag -> 0..MaxCopies] BY <2>6, <2>9
  <2> QED BY <1>2, <2>3, <2>6, <2>7, <2>10
<1>7. snap = [torrents |-> snap.torrents, tags |-> snap.tags] BY DEF Updated
<1> QED BY <1>2, <1>5, <1>6, <1>7 DEF old

\* A full update shows the snapshot.
LEMMA FullShown ==
  ASSUME NEW snap \in [torrents: Rows, tags: [Tag -> 0..MaxCopies]], NEW page \in Page,
         NEW id \in 0..MaxResponseID
  PROVE  LET new == Shown(page, FullBuf(snap), TRUE, id)
         IN /\ FullBuf(snap) \in Buffer /\ new \in Page
            /\ new.rid = id /\ new.torrents = snap.torrents
            /\ \A g \in Tag : snap.tags[g] > 0 => g \in new.tags
<1> USE SyncAssumption
<1> DEFINE fullBuf == FullBuf(snap)
           new == Shown(page, fullBuf, TRUE, id)
<1>1. fullBuf = [torrents |-> snap.torrents, removedTorrents |-> NoRows,
                 tags |-> snap.tags, removedTags |-> NoTags]
  BY DEF FullBuf
<1>2. fullBuf \in Buffer
  <2>1. NoRows \in Counts(Torrent) /\ NoTags \in Counts(Tag) BY DEF NoRows, NoTags, Counts
  <2>2. snap.tags \in Counts(Tag) BY DEF Counts
  <2> QED BY <1>1, <2>1, <2>2 DEF Buffer
<1> HIDE DEF fullBuf
<1>3. /\ new.rid = id
      /\ new.torrents = [t \in Torrent |-> IF fullBuf.removedTorrents[t] > 0 THEN Absent
                                           ELSE IF fullBuf.torrents[t] # Absent THEN fullBuf.torrents[t]
                                           ELSE NoTorrents[t]]
      /\ new.tags = {g \in Tag : (g \in {} \/ fullBuf.tags[g] > 0) /\ fullBuf.removedTags[g] = 0}
      /\ new = [rid |-> new.rid, torrents |-> new.torrents, tags |-> new.tags]
  BY DEF Shown
<1> HIDE DEF new
<1>4. new.torrents = snap.torrents
  <2>1. ASSUME NEW t \in Torrent PROVE new.torrents[t] = snap.torrents[t]
    <3>1. fullBuf.removedTorrents[t] = 0 /\ NoTorrents[t] = Absent BY <1>1 DEF NoRows, NoTorrents
    <3>2. fullBuf.torrents = snap.torrents BY <1>1
    <3> QED BY <1>3, <3>1, <3>2
  <2>2. snap.torrents = [t \in Torrent |-> snap.torrents[t]] BY DEF Rows
  <2> QED BY <1>3, <2>1, <2>2
<1>5. \A g \in Tag : snap.tags[g] > 0 => g \in new.tags BY <1>1, <1>3 DEF NoTags
<1>6. new \in Page BY <1>3, <1>4 DEF Page
<1> QED BY <1>2, <1>3, <1>4, <1>5, <1>6 DEF fullBuf, new

\* What a buffer leads to, the page shows when it receives it.
LEMMA LedShown ==
  ASSUME NEW buf \in Buffer, NEW page \in Page, NEW rows \in Rows, NEW list, list \subseteq Tag,
         Leads(buf, page, rows, list), NEW id \in 0..MaxResponseID, NEW full, ~full
  PROVE  LET new == Shown(page, buf, full, id)
         IN /\ new \in Page
            /\ new.rid = id /\ new.torrents = rows /\ list \subseteq new.tags
<1> DEFINE new == Shown(page, buf, full, id)
<1>1. /\ new.rid = id
      /\ new.torrents = [t \in Torrent |-> IF buf.removedTorrents[t] > 0 THEN Absent
                                           ELSE IF buf.torrents[t] # Absent THEN buf.torrents[t]
                                           ELSE page.torrents[t]]
      /\ new.tags = {g \in Tag : (g \in page.tags \/ buf.tags[g] > 0) /\ buf.removedTags[g] = 0}
      /\ new = [rid |-> new.rid, torrents |-> new.torrents, tags |-> new.tags]
  BY DEF Shown
<1> HIDE DEF new
<1>2. new.torrents = rows
  <2>1. \A t \in Torrent : new.torrents[t] = rows[t] BY <1>1 DEF Leads
  <2>2. rows = [t \in Torrent |-> rows[t]] BY DEF Rows
  <2> QED BY <1>1, <2>1, <2>2
<1>3. list \subseteq new.tags BY <1>1 DEF Leads
<1>4. new \in Page BY <1>1, <1>2 DEF Page
<1> QED BY <1>1, <1>2, <1>3, <1>4 DEF new


\* Gathered, from a buffer that leads from the page to the snapshot, leads from
\* the page to what the session is now.
LEMMA GatheredLeads ==
  ASSUME NEW p \in Tab, SyncInv(p), Connected, NEW page \in Page,
         NEW buf \in Buffer, Once(buf),
         Leads(buf, page, snapshot.torrents, tags \ addedTags)
  PROVE  Leads(Gathered(buf, snapshot), page, torrents, tags)
<1> DEFINE new == Gathered(buf, snapshot)
<1>1. /\ updatedTorrents \subseteq Torrent /\ removedTorrents \subseteq Torrent
      /\ tags \subseteq Tag /\ addedTags \subseteq Tag /\ removedTags \subseteq Tag
      /\ removedTags \cap tags = {}
      /\ TorrentsInv
  BY DEF SyncInv, SyncTypeOK, TagsInv
<1>2. /\ DOMAIN buf.removedTorrents = Torrent
      /\ DOMAIN buf.tags = Tag /\ DOMAIN buf.removedTags = Tag
  BY DEF Buffer, Counts
<1>3. ASSUME NEW t \in Torrent
      PROVE  torrents[t] = IF new.removedTorrents[t] > 0 THEN Absent
                           ELSE IF new.torrents[t] # Absent THEN new.torrents[t]
                           ELSE page.torrents[t]
  <2>1. /\ buf.removedTorrents[t] \in 0..1
        /\ snapshot.torrents[t] = IF buf.removedTorrents[t] > 0 THEN Absent
                                  ELSE IF buf.torrents[t] # Absent THEN buf.torrents[t]
                                  ELSE page.torrents[t]
    BY DEF Once, Leads
  <2>2. new.removedTorrents[t] = IF t \in removedTorrents
                                 THEN (IF t \in updatedTorrents /\ buf.removedTorrents[t] > 0
                                       THEN buf.removedTorrents[t] - 1 ELSE buf.removedTorrents[t]) + 1
                                 ELSE (IF t \in updatedTorrents /\ buf.removedTorrents[t] > 0
                                       THEN buf.removedTorrents[t] - 1 ELSE buf.removedTorrents[t])
    BY <1>2 DEF Gathered, Appended, RemoveOne
  <2>3. new.torrents[t] = IF t \in removedTorrents THEN Absent
                          ELSE IF t \in updatedTorrents
                          THEN ProcessMap(snapshot.torrents[t], torrents[t], buf.torrents[t])
                          ELSE buf.torrents[t]
    BY DEF Gathered
  <2> HIDE DEF new
  <2>4. CASE t \in removedTorrents BY <1>1, <2>1, <2>2, <2>4 DEF TorrentsInv
  <2>5. CASE t \in updatedTorrents
    <3>1. t \notin removedTorrents /\ torrents[t] # Absent BY <1>1, <2>5 DEF TorrentsInv
    <3>2. new.removedTorrents[t] = 0 BY <2>1, <2>2, <2>5, <3>1
    <3>3. new.torrents[t] = IF snapshot.torrents[t] # torrents[t] THEN torrents[t] ELSE buf.torrents[t]
      BY <2>3, <2>5, <3>1 DEF ProcessMap
    <3> QED BY <2>1, <3>1, <3>2, <3>3
  <2>6. CASE t \notin updatedTorrents \cup removedTorrents
    <3>1. snapshot.torrents[t] = torrents[t] BY <1>1, <2>6 DEF TorrentsInv
    <3> QED BY <2>1, <2>2, <2>3, <2>6, <3>1
  <2> QED BY <2>4, <2>5, <2>6
<1>4. ASSUME NEW g \in tags
      PROVE  (g \in page.tags \/ new.tags[g] > 0) /\ new.removedTags[g] = 0
  <2>1. g \in Tag /\ g \notin removedTags BY <1>1
  <2>2. buf.tags[g] \in 0..1 /\ buf.removedTags[g] \in 0..1 BY <2>1 DEF Once
  <2>3. /\ new.tags[g] = IF g \in addedTags THEN buf.tags[g] + 1 ELSE buf.tags[g]
        /\ new.removedTags[g] = IF g \in addedTags /\ buf.removedTags[g] > 0
                                THEN buf.removedTags[g] - 1 ELSE buf.removedTags[g]
    BY <1>2, <2>1 DEF Gathered, Appended, RemoveOne
  <2>4. g \notin addedTags => (g \in page.tags \/ buf.tags[g] > 0) /\ buf.removedTags[g] = 0
    BY DEF Leads
  <2> HIDE DEF new
  <2> QED BY <2>2, <2>3, <2>4
<1> HIDE DEF new
<1>5. Leads(new, page, torrents, tags) BY <1>3, <1>4 DEF Leads
<1> QED BY <1>5 DEF new

\* It counts no change more than once more.
LEMMA GatheredCounts ==
  ASSUME NEW p \in Tab, SyncInv(p), NEW buf \in Buffer, NEW n \in Nat,
         \A t \in Torrent : buf.removedTorrents[t] \in 0..n,
         \A g \in Tag : buf.tags[g] \in 0..n /\ buf.removedTags[g] \in 0..n
  PROVE  LET new == Gathered(buf, snapshot)
         IN /\ new.torrents \in Rows
            /\ new.removedTorrents \in [Torrent -> 0..(n + 1)]
            /\ new.tags \in [Tag -> 0..(n + 1)] /\ new.removedTags \in [Tag -> 0..(n + 1)]
            /\ new = [torrents |-> new.torrents, removedTorrents |-> new.removedTorrents,
                      tags |-> new.tags, removedTags |-> new.removedTags]
<1> DEFINE new == Gathered(buf, snapshot)
<1>1. /\ DOMAIN buf.removedTorrents = Torrent
      /\ DOMAIN buf.tags = Tag /\ DOMAIN buf.removedTags = Tag
      /\ buf.torrents \in Rows /\ torrents \in Rows
  BY DEF Buffer, Counts, SyncInv, SyncTypeOK
<1>2. new.torrents \in Rows BY <1>1 DEF Gathered, ProcessMap, Rows
<1>3. /\ \A t \in Torrent : new.removedTorrents[t] \in 0..(n + 1)
      /\ new.removedTorrents = [t \in Torrent |-> new.removedTorrents[t]]
  BY <1>1 DEF Gathered, Appended, RemoveOne
<1>4. /\ \A g \in Tag : new.tags[g] \in 0..(n + 1)
      /\ new.tags = [g \in Tag |-> new.tags[g]]
  BY <1>1 DEF Gathered, Appended, RemoveOne
<1>5. /\ \A g \in Tag : new.removedTags[g] \in 0..(n + 1)
      /\ new.removedTags = [g \in Tag |-> new.removedTags[g]]
  BY <1>1 DEF Gathered, Appended, RemoveOne
<1>6. new = [torrents |-> new.torrents, removedTorrents |-> new.removedTorrents,
             tags |-> new.tags, removedTags |-> new.removedTags]
  BY DEF Gathered
<1> HIDE DEF new
<1>7. /\ new.removedTorrents \in [Torrent -> 0..(n + 1)]
      /\ new.tags \in [Tag -> 0..(n + 1)] /\ new.removedTags \in [Tag -> 0..(n + 1)]
  BY <1>3, <1>4, <1>5
<1> QED BY <1>2, <1>6, <1>7 DEF new

LEMMA MaindataKeepsInv ==
  ASSUME NEW p, Tab = {p}, MaxLost \in 0..1, SyncInv(p), NEW delivered \in BOOLEAN,
         Maindata(p, delivered)
  PROVE  SyncInv(p)'
<1> USE SyncAssumption
<1> DEFINE acknowledged == tab[p].rid > 0 /\ lastSentID = tab[p].rid
           accepted == IF acknowledged THEN tab[p].rid ELSE IF Connected THEN acceptedID ELSE 0
           full == ~(tab[p].rid > 0 /\ lastSentID > 0 /\ accepted = tab[p].rid)
           snap == Updated(CurrentSnapshot)
           id == (lastSentID % MaxResponseID) + 1
           base == IF acknowledged THEN NoBuf ELSE syncBuf
<1>0. p \in Tab OBVIOUS
<1>1. SyncTypeOK /\ TorrentsInv /\ TagsInv /\ FirstInv /\ PageInv(p) BY DEF SyncInv
<1>2. /\ tab \in [Tab -> Page] /\ tab[p] \in Page /\ syncBuf \in Buffer
      /\ torrents \in Rows /\ tags \in SUBSET Tag /\ addedTags \subseteq Tag
      /\ lastSentID \in 0..MaxResponseID /\ acceptedID \in -1..MaxResponseID
      /\ tab[p].rid \in 0..MaxResponseID /\ lost \in 0..MaxLost
  BY <1>0, <1>1 DEF SyncTypeOK, Page
<1>3. /\ acceptedID' = accepted /\ lastSentID' = id /\ snapshot' = snap
      /\ syncBuf' = IF full THEN FullBuf(snap) ELSE Gathered(base, CurrentSnapshot)
      /\ updatedTorrents' = {} /\ removedTorrents' = {} /\ addedTags' = {} /\ removedTags' = {}
      /\ torrents' = torrents /\ tags' = tags
  BY DEF Maindata, sessionData
<1>4. \/ /\ tab' = [tab EXCEPT ![p] = Shown(tab[p], syncBuf', full, id)]
         /\ lost' = 0
      \/ lost < MaxLost /\ lost' = lost + 1 /\ tab' = tab
  BY DEF Maindata
<1>5. /\ snap \in [torrents: Rows, tags: [Tag -> 0..MaxCopies]]
      /\ snap.torrents = torrents
      /\ \A g \in tags : snap.tags[g] > 0
  BY <1>0, SnapshotIsCurrent
<1>6. id \in 1..MaxResponseID /\ id # lastSentID
  <2>1. id = IF lastSentID = MaxResponseID THEN 1 ELSE lastSentID + 1 BY <1>2, NextResponseID
  <2> HIDE DEF id
  <2> QED BY <1>2, <2>1
<1>7. accepted \in 0..MaxResponseID BY <1>2 DEF Connected
<1>8. ASSUME tab[p].rid > 0
      PROVE  /\ ~full /\ accepted = tab[p].rid /\ Connected
             /\ base \in Buffer /\ Once(base)
             /\ Leads(base, tab[p], snapshot.torrents, tags \ addedTags)
             /\ acknowledged => base = NoBuf
             /\ ~acknowledged => lost = 1
  <2>1. CASE lost = 0 /\ Current(p)
    <3>1. acknowledged BY <1>8, <2>1 DEF Current
    <3>2. NoTorrents \in Rows /\ NoTags \in Counts(Tag) /\ NoRows \in Counts(Torrent)
      BY DEF NoTorrents, Rows, NoTags, NoRows, Counts
    <3>3. NoBuf \in Buffer BY <3>2 DEF NoBuf, Buffer
    <3>4. Once(NoBuf) BY DEF Once, NoBuf, NoRows, NoTags
    <3>5. Leads(NoBuf, tab[p], snapshot.torrents, tags \ addedTags)
      BY <1>2, <2>1 DEF Leads, Current, NoBuf, NoRows, NoTags, NoTorrents
    <3> QED BY <1>1, <1>8, <2>1, <3>1, <3>3, <3>4, <3>5 DEF Current, PageInv
  <2>2. CASE lost = 1 /\ Behind(p) BY <1>1, <1>2, <1>8, <2>2 DEF Behind, PageInv
  <2> QED BY <1>1, <1>8, <2>1, <2>2 DEF PageInv
<1> HIDE DEF snap, id, base, accepted, acknowledged
<1>9. /\ syncBuf' \in Buffer
      /\ Shown(tab[p], syncBuf', full, id) \in Page
      /\ Shown(tab[p], syncBuf', full, id).rid = id
      /\ Shown(tab[p], syncBuf', full, id).torrents = torrents
      /\ tags \subseteq Shown(tab[p], syncBuf', full, id).tags
      /\ tab[p].rid > 0 => Leads(syncBuf', tab[p], torrents, tags)
      /\ tab[p].rid > 0 /\ lost = 0 => Once(syncBuf')
  <2>1. CASE full
    <3>1. tab[p].rid = 0 BY <1>2, <1>8, <2>1
    <3>2. id \in 0..MaxResponseID BY <1>6
    <3>3. full = TRUE /\ syncBuf' = FullBuf(snap) BY <1>3, <2>1
    <3> HIDE DEF full
    <3>4. tab[p] \in Page BY <1>2
    <3>5. snap \in [torrents: Rows, tags: [Tag -> 0..MaxCopies]] BY <1>5
    <3>6. /\ FullBuf(snap) \in Buffer /\ Shown(tab[p], FullBuf(snap), TRUE, id) \in Page
          /\ Shown(tab[p], FullBuf(snap), TRUE, id).rid = id
          /\ Shown(tab[p], FullBuf(snap), TRUE, id).torrents = snap.torrents
          /\ \A g \in Tag : snap.tags[g] > 0 => g \in Shown(tab[p], FullBuf(snap), TRUE, id).tags
      BY <3>2, <3>4, <3>5, FullShown, Zenon
    <3>7. tags \subseteq Shown(tab[p], FullBuf(snap), TRUE, id).tags BY <1>2, <1>5, <3>6
    <3>8. Shown(tab[p], syncBuf', full, id) = Shown(tab[p], FullBuf(snap), TRUE, id) BY <3>3, Zenon
    <3>9. ~(tab[p].rid > 0) BY <3>1
    <3> QED BY <1>5, <3>3, <3>6, <3>7, <3>8, <3>9
  <2>2. CASE ~full
    <3>1. tab[p].rid > 0 BY <2>2
    <3>2. syncBuf' = Gathered(base, snapshot) BY <1>3, <1>8, <2>2, <3>1 DEF CurrentSnapshot
    <3>3. base \in Buffer /\ Once(base) BY <1>8, <3>1
    <3>4. Leads(syncBuf', tab[p], torrents, tags) BY <1>0, <1>2, <1>8, <3>1, <3>2, GatheredLeads
    <3>5. /\ syncBuf'.torrents \in Rows
          /\ syncBuf'.removedTorrents \in [Torrent -> 0..2]
          /\ syncBuf'.tags \in [Tag -> 0..2] /\ syncBuf'.removedTags \in [Tag -> 0..2]
          /\ syncBuf' = [torrents |-> syncBuf'.torrents, removedTorrents |-> syncBuf'.removedTorrents,
                         tags |-> syncBuf'.tags, removedTags |-> syncBuf'.removedTags]
      <4>1. 1 \in Nat /\ 1 + 1 = 2 OBVIOUS
      <4> QED BY <1>0, <3>2, <3>3, <4>1, GatheredCounts DEF Once
    <3>6. acknowledged => /\ syncBuf'.removedTorrents \in [Torrent -> 0..1]
                          /\ syncBuf'.tags \in [Tag -> 0..1] /\ syncBuf'.removedTags \in [Tag -> 0..1]
      <4> SUFFICES ASSUME acknowledged
                   PROVE  /\ syncBuf'.removedTorrents \in [Torrent -> 0..1]
                          /\ syncBuf'.tags \in [Tag -> 0..1] /\ syncBuf'.removedTags \in [Tag -> 0..1]
        OBVIOUS
      <4>1. base = NoBuf BY <1>8, <3>1
      <4>2. /\ \A t \in Torrent : base.removedTorrents[t] \in 0..0
            /\ \A g \in Tag : base.tags[g] \in 0..0 /\ base.removedTags[g] \in 0..0
        BY <4>1 DEF NoBuf, NoRows, NoTags
      <4>3. 0 \in Nat /\ 0 + 1 = 1 OBVIOUS
      <4> QED BY <1>0, <3>2, <3>3, <4>2, <4>3, GatheredCounts
    <3>7. MaxCopies + MaxLost + 1 >= IF acknowledged THEN 1 ELSE 2 BY <1>2, <1>8, <3>1
    <3>8. /\ syncBuf'.removedTorrents \in Counts(Torrent)
          /\ syncBuf'.tags \in Counts(Tag) /\ syncBuf'.removedTags \in Counts(Tag)
      <4>1. CASE acknowledged BY <3>6, <3>7, <4>1 DEF Counts
      <4>2. CASE ~acknowledged BY <3>5, <3>7, <4>2 DEF Counts
      <4> QED BY <4>1, <4>2
    <3>9. syncBuf' \in Buffer BY <3>5, <3>8 DEF Buffer
    <3>10. lost = 0 => acknowledged BY <1>8, <3>1
    <3>11. lost = 0 => Once(syncBuf') BY <3>6, <3>10 DEF Once
    <3> HIDE DEF full
    <3> DEFINE buf == Gathered(base, snapshot)
               new == Shown(tab[p], buf, full, id)
    <3>12. buf \in Buffer /\ Leads(buf, tab[p], torrents, tags) BY <3>2, <3>4, <3>9
    <3>13. tab[p] \in Page /\ torrents \in Rows /\ tags \subseteq Tag /\ id \in 0..MaxResponseID
      BY <1>2, <1>6
    <3> HIDE DEF buf
    <3>14. new \in Page /\ new.rid = id /\ new.torrents = torrents /\ tags \subseteq new.tags
      BY <2>2, <3>12, <3>13, LedShown
    <3>15. buf = syncBuf' BY <3>2 DEF buf
    <3> QED BY <3>4, <3>9, <3>11, <3>14, <3>15
  <2> QED BY <2>1, <2>2
<1>10. Connected' BY <1>3, <1>7 DEF Connected
<1>11. TorrentsInv' BY <1>3, <1>5 DEF TorrentsInv
<1>12. TagsInv' BY <1>2, <1>3, <1>5, <1>10 DEF TagsInv
<1>13. FirstInv' BY <1>3 DEF FirstInv
<1> DEFINE new == Shown(tab[p], syncBuf', full, id)
<1>14. CASE tab' = [tab EXCEPT ![p] = new] /\ lost' = 0
  <2>1. tab'[p] = new BY <1>0, <1>2, <1>14
  <2>2. PageInv(p)' BY <1>3, <1>5, <1>9, <1>10, <1>14, <2>1 DEF PageInv, Current
  <2> HIDE DEF new
  <2>3. tab' \in [Tab -> Page] BY <1>2, <1>9, <1>14 DEF new
  <2>4. SyncTypeOK'
    <3>1. snapshot' \in [torrents: Rows, tags: Counts(Tag)] BY <1>2, <1>3, <1>5 DEF Counts
    <3> QED BY <1>2, <1>3, <1>6, <1>7, <1>9, <1>14, <2>3, <3>1 DEF SyncTypeOK
  <2> QED BY <1>11, <1>12, <1>13, <2>2, <2>4 DEF SyncInv
<1>15. CASE lost < MaxLost /\ lost' = lost + 1 /\ tab' = tab
  <2>1. lost = 0 /\ lost' = 1 BY <1>2, <1>15
  <2>2. ASSUME tab[p].rid > 0 PROVE Behind(p)'
    <3>1. lastSentID = tab[p].rid BY <1>1, <2>1, <2>2 DEF PageInv, Current
    <3> QED BY <1>3, <1>5, <1>6, <1>8, <1>9, <1>15, <2>1, <2>2, <3>1 DEF Behind, Leads
  <2>3. PageInv(p)' BY <1>10, <1>15, <2>1, <2>2 DEF PageInv
  <2>4. SyncTypeOK'
    <3>1. snapshot' \in [torrents: Rows, tags: Counts(Tag)] BY <1>2, <1>3, <1>5 DEF Counts
    <3>2. lost' \in 0..MaxLost BY <1>2, <1>15
    <3> QED BY <1>2, <1>3, <1>6, <1>7, <1>9, <1>15, <3>1, <3>2 DEF SyncTypeOK
  <2> QED BY <1>11, <1>12, <1>13, <2>3, <2>4 DEF SyncInv
<1> QED BY <1>4, <1>14, <1>15

\* A page that is loaded again has received nothing.
LEMMA LoadPageKeepsInv ==
  ASSUME NEW p, Tab = {p}, SyncInv(p), LoadPage(p)
  PROVE  SyncInv(p)'
<1> USE SyncAssumption
<1>1. NewTab \in Page BY DEF NewTab, Page, NoTorrents, Rows
<1>2. tab' = [tab EXCEPT ![p] = NewTab] /\ tab \in [Tab -> Page] BY DEF LoadPage, SyncInv, SyncTypeOK
<1>3. tab' \in [Tab -> Page] /\ tab'[p].rid = 0 BY <1>1, <1>2 DEF NewTab
<1>4. UNCHANGED <<sessionData, changes, maindata, lost>> BY DEF LoadPage
<1> QED
  BY <1>3, <1>4
  DEF SyncInv, SyncTypeOK, TorrentsInv, TagsInv, FirstInv, PageInv, Connected, sessionData, changes, maindata

LEMMA SyncStep ==
  ASSUME NEW p, Tab = {p}, MaxLost \in 0..1, SyncInv(p), [SyncNext]_syncVars
  PROVE  SyncInv(p)'
<1>0. p \in Tab OBVIOUS
<1>1. CASE UNCHANGED syncVars
  BY <1>1 DEF syncVars, SyncInv, SyncTypeOK, TorrentsInv, TagsInv, FirstInv, PageInv, Current, Behind,
     Once, Leads, Connected, sessionData, changes, maindata
<1>2. ASSUME NEW t \in Torrent,
             \/ \E data \in Data : ChangeTorrent(t, data)
             \/ RemoveTorrent(t)
             \/ \E id \in Torrent : ChangeID(t, id)
      PROVE  SyncInv(p)'
  BY <1>0, <1>2, TorrentsKeepInv
<1>3. ASSUME NEW g \in Tag, AddTag(g) \/ RemoveTag(g) PROVE SyncInv(p)' BY <1>0, <1>3, TagsKeepInv
<1>4. CASE LoadPage(p) BY <1>4, LoadPageKeepsInv
<1>5. ASSUME NEW delivered \in BOOLEAN, Maindata(p, delivered) PROVE SyncInv(p)'
  BY <1>5, MaindataKeepsInv
<1> QED BY <1>1, <1>2, <1>3, <1>4, <1>5 DEF SyncNext

LEMMA SyncInductive ==
  ASSUME NEW CONSTANT p, Tab = {p}, MaxLost \in 0..1
  PROVE  SyncSpec => []SyncInv(p)
<1>1. SyncInit => SyncInv(p) BY SyncInitial
<1>2. SyncInv(p) /\ [SyncNext]_syncVars => SyncInv(p)' BY SyncStep
<1> QED BY <1>1, <1>2, PTL DEF SyncSpec

(* api/v2/sync/maindata: however torrents and tags come and go between the
   requests and whichever responses are lost, no two in a row, the only page of
   a web session shows the session's torrents and tags when it has received the
   last response, but for the changes that the next one will bring. *)
THEOREM MaindataExact ==
  ASSUME NEW CONSTANT p, Tab = {p}, MaxLost \in 0..1
  PROVE  SyncSpec => []MaindataIsExact
<1>1. SyncInv(p) => MaindataIsExact
  <2> SUFFICES ASSUME SyncInv(p) PROVE MaindataIsExact OBVIOUS
  <2>1. updatedTorrents \subseteq {t \in Torrent : torrents[t] # Absent}
    BY DEF SyncInv, SyncTypeOK, TorrentsInv
  <2>2. ASSUME UpToDate(p) PROVE Connected /\ Current(p)
    BY <2>2 DEF UpToDate, SyncInv, PageInv
  <2> QED BY <2>1, <2>2 DEF MaindataIsExact, SyncInv, TorrentsInv, Current
<1> QED BY <1>1, SyncInductive, PTL

(* The lists of tags that are sent never hold one more often than the session
   has added it, and the identifiers of the responses stay in their cycle. *)
THEOREM MaindataTyped ==
  ASSUME NEW CONSTANT p, Tab = {p}, MaxLost \in 0..1
  PROVE  SyncSpec => []SyncTypeOK
<1>1. SyncInv(p) => SyncTypeOK BY DEF SyncInv
<1> QED BY <1>1, SyncInductive, PTL

=============================================================================
