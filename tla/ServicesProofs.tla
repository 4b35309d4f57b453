--------------------------- MODULE ServicesProofs ---------------------------
(* Theorems about SettingsFile, SyncPeers, Downloads and WatchedFolders, for  *)
(* every value of their constants, and about all services together.          *)
EXTENDS MCServices, ResumeFilesProofs, SyncMaindataProofs, TLAPS

-----------------------------------------------------------------------------
(* The settings file. *)

Survivable == ~({"sync", "rename"} \subseteq disk.faults)

\* What SettingsNotLost rests on: a file is given up only for another one.
NotLostInv ==
  /\ Recoverable # NoKeys
  /\ storage # "off" => settings # NoKeys
  /\ storage \in {"restoring", "renaming", "written", "removed"} => newFile # NoKeys
  /\ storage \in {"running", "writing"} /\ "rename" \notin disk.faults => mainFile # NoKeys

\* What SettingsAtomic rests on: nothing is left in the second file when the
\* settings are written to it.
NothingLeftInv ==
  /\ storage \in {"running", "writing"} => newFile = NoKeys
  /\ storage \in {"restoring", "renaming"} => newFile # NoKeys
  /\ storage = "removed" => mainFile = NoKeys

SettingsInv ==
  /\ SettingsTypeOK
  /\ Survivable => NotLostInv
  /\ {"rename", "remove"} \cap disk.faults = {} => NothingLeftInv

\* Merging the settings with an empty file gives the settings.
LEMMA ContentsFacts ==
  ASSUME NEW f \in Contents, NEW g \in Contents
  PROVE  /\ NoKeys \in Contents
         /\ Merged(f, g) \in Contents
         /\ Merged(NoKeys, g) = g
         /\ g # NoKeys => Merged(f, g) # NoKeys
<1>1. NoKeys \in Contents BY DEF NoKeys, Contents
<1>2. Merged(f, g) \in Contents BY DEF Merged, Contents
<1>3. Merged(NoKeys, g) = g
  <2>1. \A k \in Key : Merged(NoKeys, g)[k] = g[k] BY DEF Merged, NoKeys, Contents
  <2> QED BY <2>1 DEF Merged, Contents
<1>4. ASSUME g # NoKeys PROVE Merged(f, g) # NoKeys
  <2>1. PICK k \in Key : g[k] # NoValue BY <1>4 DEF NoKeys, Contents
  <2>2. Merged(f, g)[k] # NoKeys[k] BY <2>1 DEF Merged, NoKeys
  <2> QED BY <2>2
<1> QED BY <1>1, <1>2, <1>3, <1>4

\* A profile in use before: one file, complete.
LEMMA SettingsInitial == SettingsInit => SettingsInv
<1> SUFFICES ASSUME SettingsInit PROVE SettingsInv OBVIOUS
<1> USE SettingsAssumption DEF SettingsInit
<1>1. NoKeys \in Contents BY DEF NoKeys, Contents
<1>2. SettingsTypeOK
  <2>1. failures \in 0..MaxFailures OBVIOUS
  <2> QED BY <1>1, <2>1 DEF SettingsTypeOK
<1>3. NotLostInv BY DEF NotLostInv, Recoverable
<1>4. NothingLeftInv BY DEF NothingLeftInv
<1> QED BY <1>2, <1>3, <1>4 DEF SettingsInv

\* Both files, and the settings in memory, stay what they can be.
LEMMA SettingsTyped ==
  ASSUME SettingsTypeOK, [SettingsNext]_settingsVars PROVE SettingsTypeOK'
<1> USE SettingsAssumption DEF SettingsTypeOK
<1>0. NoKeys \in Contents BY DEF NoKeys, Contents
<1>1. CASE ReadSettings BY <1>1 DEF ReadSettings, Recoverable, settingsFiles
<1>2. CASE RestoreRemove BY <1>0, <1>2 DEF RestoreRemove, Fail, Work
<1>3. CASE RestoreRename BY <1>0, <1>3 DEF RestoreRename, Fail, Work
<1>4. ASSUME NEW k \in Key, NEW value \in Value \cup {NoValue}, ChangeValue(k, value)
      PROVE  SettingsTypeOK'
  BY <1>4 DEF ChangeValue, settingsFiles, Contents
<1>5. CASE SaveTimeout BY <1>5 DEF SaveTimeout, StartSave, settingsFiles
<1>6. CASE Close BY <1>6 DEF Close, StartSave, settingsFiles
<1>7. CASE WriteNew
  <2>1. newFile' \in Contents BY <1>7, ContentsFacts DEF WriteNew
  <2> QED BY <1>7, <2>1 DEF WriteNew
<1>8. CASE WriteFails BY <1>0, <1>8 DEF WriteFails, SaveFailed, Fail
<1>9. CASE RemoveMain BY <1>0, <1>9 DEF RemoveMain, Fail, Work
<1>10. CASE RenameNew
  <2>1. failures' \in 0..MaxFailures BY <1>10 DEF RenameNew, Saved
  <2> QED BY <1>0, <1>10, <2>1 DEF RenameNew, Saved
<1>11. CASE RenameFails BY <1>11 DEF RenameFails, SaveFailed, Fail, Work
<1>12. CASE Closed \/ SettingsCrash
  BY <1>0, <1>12 DEF Closed, SettingsCrash, SettingsGone, settingsFiles
<1>13. CASE UNCHANGED settingsVars
  BY <1>13 DEF settingsVars, settingsMemory, settingsFiles
<1> QED
  BY <1>1, <1>2, <1>3, <1>4, <1>5, <1>6, <1>7, <1>8, <1>9, <1>10, <1>11, <1>12, <1>13
  DEF SettingsNext, SaveStep

\* removeFile takes a file only while the other one has settings.
LEMMA NotLostKept ==
  ASSUME SettingsTypeOK, Survivable, NotLostInv, [SettingsNext]_settingsVars
  PROVE  NotLostInv'
<1> USE DEF NotLostInv, Recoverable, Survivable
<1>1. CASE ReadSettings BY <1>1 DEF ReadSettings, settingsFiles
<1>2. CASE RestoreRemove BY <1>2 DEF RestoreRemove, Fail, Work
<1>3. CASE RestoreRename BY <1>3 DEF RestoreRename, Fail, Work
<1>4. ASSUME NEW k \in Key, NEW value \in Value \cup {NoValue}, ChangeValue(k, value)
      PROVE  NotLostInv'
  BY <1>4 DEF ChangeValue, settingsFiles
<1>5. CASE SaveTimeout BY <1>5 DEF SaveTimeout, StartSave, settingsFiles
<1>6. CASE Close BY <1>6 DEF Close, StartSave, settingsFiles
<1>7. CASE WriteNew
  <2>1. newFile' # NoKeys BY <1>7, ContentsFacts DEF WriteNew, SettingsTypeOK
  <2> QED BY <1>7, <2>1 DEF WriteNew
<1>8. CASE WriteFails
  <2>1. mainFile # NoKeys BY <1>8 DEF WriteFails, Fail
  <2> QED BY <1>8, <2>1 DEF WriteFails, SaveFailed
<1>9. CASE RemoveMain BY <1>9 DEF RemoveMain, Fail, Work
<1>10. CASE RenameNew BY <1>10 DEF RenameNew, Saved
<1>11. CASE RenameFails BY <1>11 DEF RenameFails, SaveFailed, Fail, Work
<1>12. CASE Closed \/ SettingsCrash
  BY <1>12 DEF Closed, SettingsCrash, SettingsGone, settingsFiles
<1>13. CASE UNCHANGED settingsVars
  BY <1>13 DEF settingsVars, settingsMemory, settingsFiles
<1> QED
  BY <1>1, <1>2, <1>3, <1>4, <1>5, <1>6, <1>7, <1>8, <1>9, <1>10, <1>11, <1>12, <1>13
  DEF SettingsNext, SaveStep

\* With working renames and removals the second file is empty before it is
\* written, and each step replaces the settings as a whole.
LEMMA NothingLeftKept ==
  ASSUME SettingsTypeOK, {"rename", "remove"} \cap disk.faults = {}, NothingLeftInv,
         NotLostInv, [SettingsNext]_settingsVars
  PROVE  NothingLeftInv' /\ (storage # "off" => Recoverable' \in {Recoverable, settings})
<1> DEFINE Kept == NothingLeftInv' /\ (storage # "off" => Recoverable' \in {Recoverable, settings})
<1> USE DEF NothingLeftInv, Recoverable
<1>1. CASE ReadSettings BY <1>1 DEF ReadSettings, settingsFiles
<1>2. CASE RestoreRemove BY <1>2 DEF RestoreRemove, Fail, Work
<1>3. CASE RestoreRename BY <1>3 DEF RestoreRename, Fail, Work
<1>4. ASSUME NEW k \in Key, NEW value \in Value \cup {NoValue}, ChangeValue(k, value)
      PROVE  Kept
  BY <1>4 DEF ChangeValue, settingsFiles
<1>5. CASE SaveTimeout BY <1>5 DEF SaveTimeout, StartSave, settingsFiles
<1>6. CASE Close BY <1>6 DEF Close, StartSave, settingsFiles
<1>7. CASE WriteNew
  <2>1. newFile' = settings BY <1>7, ContentsFacts DEF WriteNew, SettingsTypeOK
  <2> QED BY <1>7, <2>1 DEF WriteNew
<1>8. CASE WriteFails BY <1>8 DEF WriteFails, SaveFailed, Fail
<1>9. CASE RemoveMain BY <1>9 DEF RemoveMain, Fail, Work, NotLostInv
<1>10. CASE RenameNew BY <1>10 DEF RenameNew, Saved
<1>11. CASE RenameFails BY <1>11 DEF RenameFails, SaveFailed, Fail, Work
<1>12. CASE Closed \/ SettingsCrash
  BY <1>12 DEF Closed, SettingsCrash, SettingsGone, settingsFiles
<1>13. CASE UNCHANGED settingsVars
  BY <1>13 DEF settingsVars, settingsMemory, settingsFiles
<1> QED
  BY <1>1, <1>2, <1>3, <1>4, <1>5, <1>6, <1>7, <1>8, <1>9, <1>10, <1>11, <1>12, <1>13
  DEF SettingsNext, SaveStep

\* The invariant is inductive.
LEMMA SettingsStep ==
  ASSUME SettingsInv, [SettingsNext]_settingsVars
  PROVE  SettingsInv'
<1>1. disk' = disk
  BY DEF SettingsNext, SaveStep, ReadSettings, RestoreRemove, RestoreRename, ChangeValue,
         SaveTimeout, Close, WriteNew, WriteFails, RemoveMain, RenameNew, RenameFails,
         Closed, SettingsCrash, SettingsGone, settingsFiles, settingsVars
<1>2. SettingsTypeOK' BY SettingsTyped DEF SettingsInv
<1>3. Survivable' => NotLostInv' BY <1>1, NotLostKept DEF SettingsInv, Survivable
<1>4. ASSUME {"rename", "remove"} \cap disk.faults' = {} PROVE NothingLeftInv'
  <2>1. {"rename", "remove"} \cap disk.faults = {} BY <1>1, <1>4
  <2>2. Survivable BY <2>1 DEF Survivable
  <2> QED BY <2>1, <2>2, NothingLeftKept DEF SettingsInv
<1> QED BY <1>2, <1>3, <1>4 DEF SettingsInv

(* readNativeSettings finds settings wherever the program ended, unless
   failures both of writing and of renaming have hit it: removeFile takes the
   first file only when the second is complete, and the second only while
   there is the first. *)
THEOREM SettingsSurvive == SettingsSpec => []SettingsNotLost
<1>1. SettingsInv => SettingsNotLost
  BY DEF SettingsInv, NotLostInv, Survivable, SettingsNotLost
<1> QED BY <1>1, SettingsInitial, SettingsStep, PTL DEF SettingsSpec

(* writeNativeSettings replaces the settings as a whole: every step leaves to
   the next start what there was, or what is in memory. *)
THEOREM SettingsReplaced == SettingsSpec => SettingsAtomic
<1>1. ASSUME SettingsInv, [SettingsNext]_settingsVars
      PROVE  [ "rename" \notin disk.faults /\ "remove" \notin disk.faults /\ storage # "off" =>
                 Recoverable' \in {Recoverable, settings} ]_settingsVars
  <2>1. SUFFICES ASSUME "rename" \notin disk.faults, "remove" \notin disk.faults, storage # "off"
                 PROVE  Recoverable' \in {Recoverable, settings}
    OBVIOUS
  <2>2. Survivable BY <2>1 DEF Survivable
  <2> QED BY <1>1, <2>1, <2>2, NothingLeftKept DEF SettingsInv
<1> QED BY <1>1, SettingsInitial, SettingsStep, PTL DEF SettingsSpec, SettingsAtomic

-----------------------------------------------------------------------------
(* The list of peers. *)

\* The ID that comes n responses after id.
Later(id, n) == IF id + n <= MaxPeersID THEN id + n ELSE (id + n) - MaxPeersID

NoneAnswered(p) == \A q \in Fetch : ~Answered(p, q)

\* As long as responses are lost, the server compares with what the list shows;
\* the last response is never taken for the one the list has.
PaneBehind(p, n) == lastAcceptedPeers = pane[p] /\ lastPeers.rid = Later(pane[p].rid, n)
NothingToCome(p) ==
  pane[p].rid > 0 => \/ peersLost = 0 /\ lastPeers = pane[p]
                     \/ peersLost > 0 /\ PaneBehind(p, peersLost)

\* A request under way acknowledges what the list shows, and its answer makes
\* that what the server has sent last.
ToCome(p, q) ==
  /\ \A r \in Fetch : fetch[p][r].sent => r = q
  /\ ~Answered(p, q) => fetch[p][q].rid = pane[p].rid
  /\ Answered(p, q) => /\ PeersShown(pane[p].peers, fetch[p][q].answer) = lastPeers
                       /\ pane[p].rid > 0 => PaneBehind(p, peersLost + 1)

PaneInv(p) ==
  /\ \A q \in Fetch : ~fetch[p][q].sent => ~Answered(p, q)
  /\ undisturbed[p] => /\ NoneAnswered(p) => NothingToCome(p)
                       /\ \A q \in Fetch : fetch[p][q].sent => ToCome(p, q)

PeersInv(p) == PeersTypeOK /\ PaneInv(p)

\* generateSyncData: response IDs start again at 1 after the largest.
LEMMA NextID ==
  ASSUME NEW id \in 0..MaxPeersID
  PROVE  (id % MaxPeersID) + 1 = IF id = MaxPeersID THEN 1 ELSE id + 1
<1> USE PeersAssumption
<1>1. CASE id < MaxPeersID
  <2>1. id % MaxPeersID = id BY <1>1, SMT
  <2> QED BY <1>1, <2>1
<1>2. CASE id = MaxPeersID
  <2>1. MaxPeersID % MaxPeersID = 0 BY SMT
  <2> QED BY <1>2, <2>1
<1> QED BY <1>1, <1>2

Response == [rid: 0..MaxPeersID, peers: Peers]
Answer == [rid: 0..MaxPeersID, full: BOOLEAN, items: Peers, removedItems: SUBSET Peer]
Fetched == [sent: BOOLEAN, rid: 0..MaxPeersID, answer: Answer]

\* Nothing has been asked, sent or received.
LEMMA NothingTyped ==
  /\ NoPeers \in Peers /\ NoResponse \in Response /\ NoAnswer \in Answer
  /\ NoFetch \in Fetched /\ NoAnswer.rid = 0 /\ ~NoFetch.sent
<1> USE PeersAssumption
<1>1. NoPeers \in Peers BY DEF NoPeers, Peers
<1>2. NoResponse \in Response BY <1>1 DEF NoResponse, Response
<1>3. NoAnswer \in Answer BY <1>1 DEF NoAnswer, Answer
<1>4. NoFetch \in Fetched BY <1>3 DEF NoFetch, Fetched
<1> QED BY <1>1, <1>2, <1>3, <1>4 DEF NoAnswer, NoFetch

LEMMA PeersInitial == ASSUME NEW p \in Pane, PeersInit PROVE PeersInv(p)
<1>1. pane[p] = NoResponse /\ fetch[p] = [q \in Fetch |-> NoFetch] BY DEF PeersInit
<1>2. PeersTypeOK
  BY NothingTyped, PeersAssumption DEF PeersInit, PeersTypeOK, Response, Answer, Fetched
<1>3. \A q \in Fetch : ~fetch[p][q].sent /\ ~Answered(p, q)
  BY <1>1, NothingTyped DEF Answered, NoFetch
<1>4. NothingToCome(p) BY <1>1 DEF NothingToCome, NoResponse
<1> QED BY <1>2, <1>3, <1>4 DEF PeersInv, PaneInv

\* A difference that is applied to what it was made from gives the new list; a
\* full update does so whatever is shown.
LEMMA DifferenceApplied ==
  ASSUME NEW shown \in Peers, NEW data \in Peers, NEW full \in BOOLEAN, NEW id
  PROVE  LET previous == IF full THEN NoPeers ELSE shown
         IN PeersShown(shown, PeersDifference(previous, data, full, id)) = [rid |-> id, peers |-> data]
<1> DEFINE previous == IF full THEN NoPeers ELSE shown
           new == PeersShown(shown, PeersDifference(previous, data, full, id)).peers
<1>1. ASSUME NEW a \in Peer PROVE new[a] = data[a]
  BY <1>1 DEF PeersShown, PeersDifference, NoPeers, Peers
<1>2. new = [a \in Peer |-> new[a]] BY DEF PeersShown
<1>3. data = [a \in Peer |-> data[a]] BY DEF Peers
<1>4. new = data BY <1>1, <1>2, <1>3
<1> QED BY <1>4 DEF PeersShown, PeersDifference

LEMMA PeersTypes ==
  ASSUME NEW p \in Pane, PeersTypeOK
  PROVE  /\ peers \in Peers /\ pane[p] \in Response /\ pane \in [Pane -> Response]
         /\ lastPeers \in Response /\ lastAcceptedPeers \in Response
         /\ fetch \in [Pane -> [Fetch -> Fetched]] /\ \A q \in Fetch : fetch[p][q] \in Fetched
         /\ peersLost \in 0..MaxPeersLost /\ undisturbed \in [Pane -> BOOLEAN]
BY DEF PeersTypeOK, Response, Answer, Fetched

\* An ID that comes some responses later is another one.
LEMMA LaterDiffers ==
  ASSUME NEW id \in 1..MaxPeersID, NEW n \in 1..MaxPeersLost + 1
  PROVE  Later(id, n) # id /\ Later(id, n) > 0
BY PeersAssumption DEF Later

\* The server's answer to a request of an undisturbed list.
LEMMA TorrentPeersAnswers ==
  ASSUME NEW p \in Pane, NEW q \in Fetch, PeersInv(p), undisturbed[p], TorrentPeers(p, q)
  PROVE  /\ PeersShown(pane[p].peers, fetch'[p][q].answer) = lastPeers'
         /\ pane[p].rid > 0 => PaneBehind(p, peersLost + 1)'
<1> DEFINE lastResponseId == IF fetch[p][q].rid > 0 THEN lastPeers.rid ELSE 0
           accepted == Accepted(fetch[p][q].rid)
           full == ~(lastResponseId > 0 /\ accepted.rid = fetch[p][q].rid)
           previous == IF full THEN NoPeers ELSE accepted.peers
           id == (lastResponseId % MaxPeersID) + 1
<1> USE PeersAssumption
<1>1. /\ peers \in Peers /\ pane[p] \in Response
      /\ lastPeers \in Response /\ lastAcceptedPeers \in Response
      /\ peersLost \in 0..MaxPeersLost
      /\ fetch \in [Pane -> [Fetch -> Fetched]]
  BY PeersTypes DEF PeersInv
<1>2. /\ lastAcceptedPeers' = IF full THEN NoResponse ELSE accepted
      /\ lastPeers' = [rid |-> id, peers |-> peers]
      /\ fetch'[p][q].answer = PeersDifference(previous, peers, full, id)
      /\ UNCHANGED <<pane, peersLost>> /\ fetch[p][q].sent /\ ~Answered(p, q)
  BY <1>1 DEF TorrentPeers
<1>3. fetch[p][q].rid = pane[p].rid BY <1>2 DEF PeersInv, PaneInv, ToCome
<1>4. NothingToCome(p)
  <2>1. \A r \in Fetch : Answered(p, r) => r = q BY <1>2 DEF PeersInv, PaneInv, ToCome
  <2> QED BY <1>2, <2>1 DEF PeersInv, PaneInv, NoneAnswered
<1>5. ASSUME pane[p].rid > 0
      PROVE  /\ ~full /\ accepted = pane[p]
             /\ id = Later(pane[p].rid, peersLost + 1)
  <2>0. pane[p].rid \in 1..MaxPeersID BY <1>1, <1>5 DEF Response
  <2>1. CASE peersLost = 0 /\ lastPeers = pane[p]
    <3>1. ~full /\ accepted = pane[p] BY <1>3, <1>5, <2>1 DEF Accepted
    <3>2. id = IF pane[p].rid = MaxPeersID THEN 1 ELSE pane[p].rid + 1
      BY <1>3, <1>5, <2>0, <2>1, NextID
    <3> QED BY <2>0, <2>1, <3>1, <3>2 DEF Later
  <2>2. CASE peersLost > 0 /\ PaneBehind(p, peersLost)
    <3>1. lastPeers.rid = Later(pane[p].rid, peersLost) /\ lastAcceptedPeers = pane[p]
      BY <2>2 DEF PaneBehind
    <3>2. lastPeers.rid # pane[p].rid /\ lastPeers.rid > 0
      BY <1>1, <2>0, <2>2, <3>1, LaterDiffers
    <3>3. ~full /\ accepted = pane[p] BY <1>3, <1>5, <3>1, <3>2 DEF Accepted
    <3>4. lastPeers.rid \in 0..MaxPeersID BY <1>1 DEF Response
    <3>5. id = IF lastPeers.rid = MaxPeersID THEN 1 ELSE lastPeers.rid + 1
      BY <1>3, <1>5, <3>4, NextID
    <3> QED BY <1>1, <2>0, <2>2, <3>1, <3>3, <3>5 DEF Later
  <2> QED BY <1>4, <1>5, <2>1, <2>2 DEF NothingToCome
<1>6. PeersShown(pane[p].peers, fetch'[p][q].answer) = lastPeers'
  <2>1. previous = IF full THEN NoPeers ELSE pane[p].peers
    <3>1. CASE full BY <3>1
    <3>2. CASE ~full
      <4>1. pane[p].rid > 0 BY <1>1, <1>3, <3>2 DEF Response
      <4> QED BY <1>5, <3>2, <4>1
    <3> QED BY <3>1, <3>2
  <2>2. full \in BOOLEAN /\ pane[p].peers \in Peers BY <1>1 DEF Response
  <2> HIDE DEF full, id, previous
  <2> QED BY <1>1, <1>2, <2>1, <2>2, DifferenceApplied
<1>7. ASSUME pane[p].rid > 0 PROVE PaneBehind(p, peersLost + 1)'
  <2> HIDE DEF full, id, accepted
  <2> QED BY <1>2, <1>5, <1>7 DEF PaneBehind
<1> QED BY <1>6, <1>7

\* The types are kept by every step of the only list.
LEMMA PeersTyped ==
  ASSUME NEW p, Pane = {p}, PeersTypeOK, [PeersNext]_peersVars
  PROVE  PeersTypeOK'
<1> USE NothingTyped
<1>0. /\ peers \in Peers /\ pane \in [Pane -> Response] /\ pane[p] \in Response
      /\ lastPeers \in Response /\ lastAcceptedPeers \in Response
      /\ fetch \in [Pane -> [Fetch -> Fetched]] /\ \A q \in Fetch : fetch[p][q] \in Fetched
      /\ peersLost \in 0..MaxPeersLost /\ undisturbed \in [Pane -> BOOLEAN]
  BY PeersTypes
<1> DEFINE Typed == /\ peers \in Peers /\ pane \in [Pane -> Response]
                    /\ lastPeers \in Response /\ lastAcceptedPeers \in Response
                    /\ fetch \in [Pane -> [Fetch -> Fetched]]
                    /\ peersLost \in 0..MaxPeersLost /\ undisturbed \in [Pane -> BOOLEAN]
<1> SUFFICES Typed' BY DEF PeersTypeOK, Response, Answer, Fetched
<1>1. ASSUME NEW a \in Peer, NEW data \in PeerData \cup {NoPeer}, ChangePeers(a, data)
      PROVE  Typed'
  <2>1. peers' \in Peers BY <1>0, <1>1 DEF ChangePeers, Peers
  <2> QED BY <1>0, <1>1, <2>1 DEF ChangePeers
<1>2. CASE ClosePane(p)
  <2>1. pane' \in [Pane -> Response] BY <1>0, <1>2 DEF ClosePane
  <2>2. undisturbed' \in [Pane -> BOOLEAN] BY <1>0, <1>2 DEF ClosePane, NoneUnderWay
  <2> QED BY <1>0, <1>2, <2>1, <2>2 DEF ClosePane, peersServer
<1>3. CASE ClearPane(p)
  <2>1. pane' \in [Pane -> Response] BY <1>0, <1>3 DEF ClearPane, Response
  <2> QED BY <1>0, <1>3, <2>1 DEF ClearPane, peersServer
<1>4. ASSUME NEW q \in Fetch, LoadPeers(p, q) PROVE Typed'
  <2>1. [sent |-> TRUE, rid |-> pane[p].rid, answer |-> NoAnswer] \in Fetched
    BY <1>0 DEF Fetched, Response
  <2>2. fetch' \in [Pane -> [Fetch -> Fetched]] BY <1>0, <1>4, <2>1 DEF LoadPeers
  <2>3. undisturbed' \in [Pane -> BOOLEAN] BY <1>0, <1>4 DEF LoadPeers
  <2> QED BY <1>0, <1>4, <2>2, <2>3 DEF LoadPeers, peersServer
<1>5. ASSUME NEW q \in Fetch, TorrentPeers(p, q) PROVE Typed'
  <2> DEFINE lastResponseId == IF fetch[p][q].rid > 0 THEN lastPeers.rid ELSE 0
             accepted == Accepted(fetch[p][q].rid)
             full == ~(lastResponseId > 0 /\ accepted.rid = fetch[p][q].rid)
             previous == IF full THEN NoPeers ELSE accepted.peers
             id == (lastResponseId % MaxPeersID) + 1
             answer == PeersDifference(previous, peers, full, id)
  <2>1. accepted \in Response BY <1>0 DEF Accepted
  <2>2. lastResponseId \in 0..MaxPeersID BY <1>0, PeersAssumption DEF Response
  <2>3. id \in 0..MaxPeersID
    <3> HIDE DEF lastResponseId
    <3>1. MaxPeersID \in Nat /\ MaxPeersID > 0 BY PeersAssumption
    <3> QED BY <2>2, <3>1, NextID
  <2>4. previous \in Peers BY <1>0, <2>1 DEF Response
  <2>5. full \in BOOLEAN OBVIOUS
  <2>6. /\ lastAcceptedPeers' = IF full THEN NoResponse ELSE accepted
        /\ lastPeers' = [rid |-> id, peers |-> peers]
        /\ fetch' = [fetch EXCEPT ![p][q] = [sent |-> TRUE, rid |-> 0, answer |-> answer]]
        /\ UNCHANGED <<peers, pane, peersLost, undisturbed>>
    BY <1>5 DEF TorrentPeers
  <2> HIDE DEF id, full, previous, accepted
  <2>7. answer \in Answer
    <3>1. [a \in Peer |-> IF peers[a] # previous[a] THEN peers[a] ELSE NoPeer] \in Peers
      BY <1>0 DEF Peers
    <3>2. {a \in Peer : previous[a] # NoPeer /\ peers[a] = NoPeer} \in SUBSET Peer OBVIOUS
    <3> QED BY <2>3, <2>5, <3>1, <3>2 DEF PeersDifference, Answer
  <2> HIDE DEF answer
  <2>8. [sent |-> TRUE, rid |-> 0, answer |-> answer] \in Fetched
    BY <2>7, PeersAssumption DEF Fetched
  <2>9. fetch' \in [Pane -> [Fetch -> Fetched]] BY <1>0, <2>6, <2>8
  <2>10. lastPeers' \in Response /\ lastAcceptedPeers' \in Response
    BY <1>0, <2>1, <2>3, <2>6 DEF Response
  <2> QED BY <1>0, <2>6, <2>9, <2>10
<1>6. ASSUME NEW q \in Fetch, ReceivePeers(p, q) PROVE Typed'
  <2>1. fetch[p][q].answer \in Answer BY <1>0 DEF Fetched
  <2>2. PeersShown(pane[p].peers, fetch[p][q].answer) \in Response
    BY <1>0, <2>1, Zenon DEF PeersShown, Response, Answer, Peers
  <2>3. pane' \in [Pane -> Response] BY <1>0, <1>6, <2>2 DEF ReceivePeers
  <2>4. fetch' \in [Pane -> [Fetch -> Fetched]] BY <1>0, <1>6 DEF ReceivePeers
  <2>5. peersLost' \in 0..MaxPeersLost BY <1>6, PeersAssumption DEF ReceivePeers
  <2> QED BY <1>0, <1>6, <2>3, <2>4, <2>5 DEF ReceivePeers, peersServer
<1>7. ASSUME NEW q \in Fetch, LosePeers(p, q) PROVE Typed'
  <2>1. fetch' \in [Pane -> [Fetch -> Fetched]] BY <1>0, <1>7 DEF LosePeers
  <2>2. peersLost' \in 0..MaxPeersLost BY <1>0, <1>7, PeersAssumption DEF LosePeers
  <2> QED BY <1>0, <1>7, <2>1, <2>2 DEF LosePeers, peersServer
<1>8. CASE UNCHANGED peersVars BY <1>0, <1>8 DEF peersVars
<1> QED BY <1>1, <1>2, <1>3, <1>4, <1>5, <1>6, <1>7, <1>8 DEF PeersNext

\* The invariant is inductive for a single list.
LEMMA PeersStep ==
  ASSUME NEW p, Pane = {p}, PeersInv(p), [PeersNext]_peersVars
  PROVE  PeersInv(p)'
<1>0. /\ pane \in [Pane -> Response] /\ pane[p] \in Response
      /\ fetch \in [Pane -> [Fetch -> Fetched]] /\ \A r \in Fetch : fetch[p][r] \in Fetched
      /\ peersLost \in 0..MaxPeersLost /\ undisturbed \in [Pane -> BOOLEAN]
      /\ p \in Pane
  BY PeersTypes DEF PeersInv
<1>00. PeersTypeOK' BY PeersTyped DEF PeersInv
<1> SUFFICES PaneInv(p)' BY <1>00 DEF PeersInv
<1> USE DEF PaneInv, NoneAnswered, Answered
<1>1. ASSUME NEW a \in Peer, NEW data \in PeerData \cup {NoPeer}, ChangePeers(a, data)
      PROVE  PaneInv(p)'
  BY <1>1 DEF ChangePeers, PeersInv, ToCome, NothingToCome, PaneBehind
<1>2. CASE ClosePane(p)
  <2>1. pane'[p] = NoResponse /\ fetch' = fetch /\ undisturbed'[p] = NoneUnderWay(p)
    BY <1>0, <1>2 DEF ClosePane
  <2>2. NothingToCome(p)' BY <2>1 DEF NothingToCome, NoResponse
  <2> QED BY <2>1, <2>2 DEF PeersInv, NoneUnderWay
<1>3. CASE ClearPane(p)
  <2>1. ~undisturbed'[p] /\ fetch' = fetch BY <1>0, <1>3 DEF ClearPane
  <2> QED BY <2>1 DEF PeersInv
<1>4. ASSUME NEW q \in Fetch, LoadPeers(p, q) PROVE PaneInv(p)'
  <2>1. /\ \A r \in Fetch : fetch'[p][r] = IF r = q
                                            THEN [sent |-> TRUE, rid |-> pane[p].rid, answer |-> NoAnswer]
                                            ELSE fetch[p][r]
        /\ UNCHANGED <<lastPeers, lastAcceptedPeers, pane, peersLost>>
        /\ undisturbed'[p] = (NoneUnderWay(p) /\ (undisturbed[p] \/ pane[p].rid = 0))
    BY <1>0, <1>4 DEF LoadPeers, peersServer
  <2>2. \A r \in Fetch : ~fetch'[p][r].sent => ~Answered(p, r)' BY <2>1 DEF PeersInv
  <2>3. ASSUME undisturbed'[p] PROVE NothingToCome(p)'
    <3>1. CASE pane[p].rid = 0 BY <2>1, <3>1 DEF NothingToCome
    <3>2. CASE undisturbed[p]
      <4>1. NothingToCome(p) BY <2>1, <2>3, <3>2 DEF PeersInv, NoneUnderWay
      <4> QED BY <2>1, <4>1 DEF NothingToCome, PaneBehind
    <3> QED BY <2>1, <2>3, <3>1, <3>2
  <2>4. ASSUME undisturbed'[p], NEW r \in Fetch, fetch'[p][r].sent PROVE ToCome(p, r)'
    <3>1. r = q /\ \A u \in Fetch : fetch'[p][u].sent => u = q BY <2>1, <2>4 DEF NoneUnderWay
    <3> QED BY <2>1, <3>1, NothingTyped DEF ToCome
  <2> QED BY <2>2, <2>3, <2>4
<1>5. ASSUME NEW q \in Fetch, TorrentPeers(p, q) PROVE PaneInv(p)'
  <2>1. /\ \A r \in Fetch : r # q => fetch'[p][r] = fetch[p][r]
        /\ fetch'[p][q].sent /\ fetch[p][q].sent /\ fetch'[p][q].rid = 0
        /\ UNCHANGED <<pane, peersLost, undisturbed>>
    BY <1>0, <1>5 DEF TorrentPeers
  <2>2. fetch'[p][q].answer.rid > 0
    <3> DEFINE last == IF fetch[p][q].rid > 0 THEN lastPeers.rid ELSE 0
    <3>1. last \in 0..MaxPeersID BY PeersTypes, PeersAssumption DEF PeersInv, Response
    <3>2. fetch'[p][q].answer.rid = (last % MaxPeersID) + 1
      BY <1>0, <1>5 DEF TorrentPeers, PeersDifference
    <3> HIDE DEF last
    <3> QED BY <3>1, <3>2, NextID
  <2>3. \A r \in Fetch : ~fetch'[p][r].sent => ~Answered(p, r)' BY <2>1 DEF PeersInv
  <2>4. ASSUME undisturbed'[p], NEW r \in Fetch, fetch'[p][r].sent PROVE ToCome(p, r)'
    <3>1. undisturbed[p] BY <2>1, <2>4
    <3>2. \A u \in Fetch : fetch'[p][u].sent => u = q BY <2>1, <3>1 DEF PeersInv, ToCome
    <3>3. r = q BY <2>4, <3>2
    <3>4. /\ PeersShown(pane[p].peers, fetch'[p][q].answer) = lastPeers'
          /\ pane[p].rid > 0 => PaneBehind(p, peersLost + 1)'
      BY <1>0, <1>5, <3>1, TorrentPeersAnswers
    <3> QED BY <2>1, <2>2, <3>2, <3>3, <3>4 DEF ToCome
  <2>5. ~NoneAnswered(p)' BY <2>2
  <2> QED BY <2>3, <2>4, <2>5
<1>6. ASSUME NEW q \in Fetch, ReceivePeers(p, q) PROVE PaneInv(p)'
  <2>1. /\ \A r \in Fetch : fetch'[p][r] = IF r = q THEN NoFetch ELSE fetch[p][r]
        /\ UNCHANGED <<lastPeers, undisturbed>> /\ peersLost' = 0
        /\ pane'[p] = PeersShown(pane[p].peers, fetch[p][q].answer)
        /\ Answered(p, q)
    BY <1>0, <1>6 DEF ReceivePeers, peersServer
  <2>2. fetch[p][q].sent BY <2>1 DEF PeersInv
  <2>3. \A r \in Fetch : ~fetch'[p][r].sent => ~Answered(p, r)'
    BY <2>1, NothingTyped DEF PeersInv, NoFetch
  <2>4. ASSUME undisturbed'[p] PROVE NothingToCome(p)' /\ \A r \in Fetch : ~fetch'[p][r].sent
    <3>1. ToCome(p, q) BY <2>1, <2>2, <2>4 DEF PeersInv
    <3> QED BY <2>1, <3>1, NothingTyped DEF ToCome, NothingToCome
  <2> QED BY <2>3, <2>4
<1>7. ASSUME NEW q \in Fetch, LosePeers(p, q) PROVE PaneInv(p)'
  <2>1. /\ \A r \in Fetch : fetch'[p][r] = IF r = q THEN NoFetch ELSE fetch[p][r]
        /\ UNCHANGED <<lastPeers, lastAcceptedPeers, pane, undisturbed>>
        /\ peersLost' = IF Answered(p, q) THEN peersLost + 1 ELSE peersLost
        /\ fetch[p][q].sent
    BY <1>0, <1>7 DEF LosePeers, peersServer
  <2>2. \A r \in Fetch : ~fetch'[p][r].sent => ~Answered(p, r)'
    BY <2>1, NothingTyped DEF PeersInv, NoFetch
  <2>3. ASSUME undisturbed'[p] PROVE NothingToCome(p)' /\ \A r \in Fetch : ~fetch'[p][r].sent
    <3>1. ToCome(p, q) BY <2>1, <2>3 DEF PeersInv
    <3>2. \A r \in Fetch : ~fetch'[p][r].sent BY <2>1, <3>1, NothingTyped DEF ToCome
    <3>3. ASSUME Answered(p, q) PROVE NothingToCome(p)'
      <4>1. peersLost' = peersLost + 1 /\ peersLost' > 0 BY <1>0, <2>1, <3>3, PeersAssumption
      <4>2. pane[p].rid > 0 => PaneBehind(p, peersLost + 1) BY <3>1, <3>3 DEF ToCome
      <4> QED BY <2>1, <4>1, <4>2 DEF NothingToCome, PaneBehind
    <3>4. ASSUME ~Answered(p, q) PROVE NothingToCome(p)'
      <4>1. NoneAnswered(p) BY <3>1, <3>4 DEF ToCome, PeersInv
      <4>2. NothingToCome(p) BY <2>1, <2>3, <4>1 DEF PeersInv
      <4>3. peersLost' = peersLost BY <2>1, <3>4
      <4> QED BY <2>1, <4>2, <4>3 DEF NothingToCome, PaneBehind
    <3> QED BY <3>2, <3>3, <3>4
  <2> QED BY <2>2, <2>3
<1>8. CASE UNCHANGED peersVars
  BY <1>8 DEF peersVars, PeersInv, ToCome, NothingToCome, PaneBehind
<1> QED BY <1>1, <1>2, <1>3, <1>4, <1>5, <1>6, <1>7, <1>8 DEF PeersNext

(* api/v2/sync/torrentPeers: the list of a page that is the only one of its
   web session, and whose requests since it asked for everything have not
   overlapped, shows exactly the peers of the last response once it has received
   it, as long as fewer responses are lost in a row than there are response IDs. *)
THEOREM PaneExact ==
  ASSUME NEW CONSTANT p, Pane = {p}
  PROVE  PeersSpec => []PeersAreExact
<1>1. PeersInit => PeersInv(p) BY PeersInitial
<1>2. PeersInv(p) /\ [PeersNext]_peersVars => PeersInv(p)' BY PeersStep
<1>3. PeersInv(p) => PeersAreExact
  <2> SUFFICES ASSUME PeersInv(p), undisturbed[p], HasLastPeers(p)
               PROVE  pane[p].peers = lastPeers.peers
    BY DEF PeersAreExact
  <2>1. /\ pane[p].rid \in 1..MaxPeersID /\ peersLost \in 0..MaxPeersLost
        /\ pane[p].rid = lastPeers.rid
    BY PeersTypes DEF PeersInv, Response, HasLastPeers
  <2>2. NoneAnswered(p)
    <3> SUFFICES ASSUME NEW q \in Fetch, Answered(p, q) PROVE FALSE BY DEF NoneAnswered
    <3>1. ToCome(p, q) BY DEF PeersInv, PaneInv
    <3>2. lastPeers.rid = Later(pane[p].rid, peersLost + 1) BY <2>1, <3>1 DEF ToCome, PaneBehind
    <3>3. peersLost + 1 \in 1..MaxPeersLost + 1 BY <2>1, PeersAssumption
    <3> QED BY <2>1, <3>2, <3>3, LaterDiffers
  <2>3. NothingToCome(p) BY <2>2 DEF PeersInv, PaneInv
  <2>4. CASE peersLost > 0 /\ PaneBehind(p, peersLost)
    <3>1. peersLost \in 1..MaxPeersLost + 1 BY <2>1, <2>4, PeersAssumption
    <3> QED BY <2>1, <2>4, <3>1, LaterDiffers DEF PaneBehind
  <2> QED BY <2>1, <2>3, <2>4 DEF NothingToCome
<1> QED BY <1>1, <1>2, <1>3, PTL DEF PeersSpec

-----------------------------------------------------------------------------
(* The download manager. *)

\* No download is in a queue twice, so none is left in one that it leaves.
NotTwice(queue) == \A i, j \in DOMAIN queue : queue[i] = queue[j] => i = j

DownloadInv ==
  /\ DownloadTypeOK
  /\ \A s \in Service : NotTwice(waitingJobs[s])
  /\ \A d \in Download : Waiting(d) \/ Running(d) => download[d].service \in Service

\* What a queue holds after a download has entered it.
LEMMA Entered ==
  ASSUME NEW S, NEW queue \in Seq(S), NEW d \in S
  PROVE  LET new == Append(queue, d)
         IN /\ new \in Seq(S) /\ Range(new) = Range(queue) \cup {d}
            /\ NotTwice(queue) /\ d \notin Range(queue) => NotTwice(new)
<1> DEFINE n == Len(queue)
           new == Append(queue, d)
<1>1. n \in Nat /\ DOMAIN queue = 1..n BY LenProperties
<1>2. /\ new \in Seq(S) /\ DOMAIN new = 1..n + 1
      /\ \A i \in 1..n : new[i] = queue[i]
      /\ new[n + 1] = d
  BY AppendProperties, <1>1
<1>3. 1..n + 1 = (1..n) \cup {n + 1} BY <1>1
<1> HIDE DEF n, new
<1>4. Range(new) = Range(queue) \cup {d} BY <1>1, <1>2, <1>3 DEF Range
<1>5. ASSUME NotTwice(queue), d \notin Range(queue) PROVE NotTwice(new)
  BY <1>1, <1>2, <1>3, <1>5 DEF NotTwice, Range
<1> QED BY <1>2, <1>4, <1>5 DEF new

\* The download at the head of a queue leaves it ...
LEMMA HeadLeft ==
  ASSUME NEW S, NEW queue \in Seq(S), queue # <<>>, NotTwice(queue)
  PROVE  /\ Head(queue) \in S /\ Head(queue) \in Range(queue) /\ Tail(queue) \in Seq(S)
         /\ Range(Tail(queue)) = Range(queue) \ {Head(queue)}
         /\ NotTwice(Tail(queue))
<1> DEFINE n == Len(queue)
           new == Tail(queue)
<1>1. n \in Nat /\ n > 0 /\ DOMAIN queue = 1..n /\ \A i \in 1..n : queue[i] \in S
  BY LenProperties, ElementOfSeq, EmptySeq
<1>2. Head(queue) = queue[1] BY HeadTailProperties
<1>3. new \in Seq(S) /\ DOMAIN new = 1..n - 1 /\ \A i \in 1..n - 1 : new[i] = queue[i + 1]
  BY HeadTailProperties, <1>1
<1> HIDE DEF n, new
<1>4. \A i \in 1..n - 1 : i + 1 \in 1..n /\ i + 1 # 1 BY <1>1
<1>5. \A i \in 1..n : i # 1 => i - 1 \in 1..n - 1 /\ (i - 1) + 1 = i BY <1>1
<1>6. ASSUME NEW x PROVE x \in Range(new) <=> x \in Range(queue) \ {queue[1]}
  <2>1. ASSUME x \in Range(new) PROVE x \in Range(queue) /\ x # queue[1]
    <3>1. PICK i \in 1..n - 1 : x = new[i] BY <1>3, <2>1 DEF Range
    <3>2. x = queue[i + 1] /\ i + 1 \in 1..n /\ i + 1 # 1 /\ 1 \in 1..n BY <1>1, <1>3, <1>4, <3>1
    <3> QED BY <1>1, <3>2 DEF Range, NotTwice
  <2>2. ASSUME x \in Range(queue), x # queue[1] PROVE x \in Range(new)
    <3>1. PICK i \in 1..n : x = queue[i] BY <1>1, <2>2 DEF Range
    <3>2. i - 1 \in 1..n - 1 /\ new[i - 1] = x BY <1>3, <1>5, <2>2, <3>1
    <3> QED BY <1>3, <3>2 DEF Range
  <2> QED BY <2>1, <2>2
<1>7. ASSUME NEW i \in 1..n - 1, NEW j \in 1..n - 1, new[i] = new[j] PROVE i = j
  <2>1. i + 1 = j + 1 BY <1>1, <1>3, <1>4, <1>7 DEF NotTwice
  <2> QED BY <2>1, <1>1
<1>8. 1 \in 1..n BY <1>1
<1>9. Head(queue) \in S /\ Head(queue) \in Range(queue) BY <1>1, <1>2, <1>8 DEF Range
<1>10. Range(new) = Range(queue) \ {Head(queue)} BY <1>2, <1>6
<1>11. NotTwice(new) BY <1>3, <1>7 DEF NotTwice
<1> QED BY <1>3, <1>9, <1>10, <1>11 DEF new

\* ... or another one.
LEMMA OneLeft ==
  ASSUME NEW S, NEW queue \in Seq(S), NEW d \in Range(queue), NotTwice(queue)
  PROVE  /\ RemoveFirst(queue, d) \in Seq(S)
         /\ Range(RemoveFirst(queue, d)) = Range(queue) \ {d}
         /\ NotTwice(RemoveFirst(queue, d))
<1> DEFINE n == Len(queue)
           I == {i \in 1..n : queue[i] = d}
           k == Min(I)
<1>1. n \in Nat /\ DOMAIN queue = 1..n BY LenProperties
<1>2. PICK at \in 1..n : queue[at] = d BY <1>1 DEF Range
<1>3. I = {at} BY <1>1, <1>2 DEF NotTwice
<1>4. k = at BY <1>3 DEF Min
<1> DEFINE front == SubSeq(queue, 1, at - 1)
           back == SubSeq(queue, at + 1, n)
           new == front \o back
<1>5. RemoveFirst(queue, d) = new
  <2>1. SelectInSeq(queue, LAMBDA v : v = d) = at BY <1>3, <1>4 DEF SelectInSeq
  <2> QED BY <1>2, <2>1 DEF RemoveFirst, RemoveAt
<1>6. \A i \in 1..n : queue[i] \in S BY <1>1, ElementOfSeq
<1>7. front \in Seq(S) /\ Len(front) = at - 1 /\ \A i \in 1..at - 1 : front[i] = queue[i]
  BY <1>1, <1>6, SubSeqProperties
<1>8. back \in Seq(S) /\ Len(back) = n - at /\ \A i \in 1..n - at : back[i] = queue[at + i]
  <2>0. \A i \in at + 1..n : i \in 1..n /\ queue[i] \in S BY <1>1, <1>6
  <2>1. CASE at + 1 <= n BY <1>1, <2>0, <2>1, SubSeqProperties
  <2>2. CASE ~(at + 1 <= n)
    <3>1. at + 1 \in Int /\ n \in Int /\ n - at = 0
      <4> HIDE DEF n, front, back
      <4>1. at \in Int /\ at <= n /\ n \in Int BY <1>1
      <4>2. n - at = 0 BY <2>2, <4>1
      <4> QED BY <4>1, <4>2
    <3>2. \A i \in at + 1..n : queue[i] \in S BY <2>0
    <3>3. Len(back) = 0 /\ back \in Seq(S) BY <1>1, <2>2, <3>1, <3>2, SubSeqProperties
    <3> QED BY <3>1, <3>3
  <2> QED BY <2>1, <2>2
<1> HIDE DEF front, back
<1>9. /\ new \in Seq(S) /\ Len(new) = n - 1
      /\ \A i \in 1..n - 1 : new[i] = IF i < at THEN queue[i] ELSE queue[i + 1]
  <2>1. (at - 1) + (n - at) = n - 1 /\ n - 1 \in Nat BY <1>1
  <2>2. /\ new \in Seq(S) /\ Len(new) = n - 1
        /\ \A i \in 1..n - 1 : new[i] = IF i <= at - 1 THEN front[i] ELSE back[i - (at - 1)]
    BY <1>7, <1>8, <2>1, ConcatProperties
  <2> HIDE DEF new
  <2>3. ASSUME NEW i \in 1..n - 1 PROVE new[i] = IF i < at THEN queue[i] ELSE queue[i + 1]
    <3>1. CASE i < at
      <4>1. i \in 1..at - 1 /\ i <= at - 1 BY <1>1, <3>1
      <4> QED BY <1>7, <2>2, <3>1, <4>1
    <3>2. CASE ~(i < at)
      <4>1. i - (at - 1) \in 1..n - at /\ at + (i - (at - 1)) = i + 1 /\ ~(i <= at - 1) BY <1>1, <3>2
      <4> QED BY <1>8, <2>2, <3>2, <4>1
    <3> QED BY <3>1, <3>2
  <2> QED BY <2>2, <2>3
<1> HIDE DEF new
<1>10. DOMAIN new = 1..n - 1 BY <1>9, LenProperties
<1>11. \A i \in 1..n - 1 : /\ i < at => i \in 1..n /\ i # at
                           /\ ~(i < at) => i + 1 \in 1..n /\ i + 1 # at
  BY <1>1
<1>12. ASSUME NEW x PROVE x \in Range(new) <=> x \in Range(queue) \ {d}
  <2>1. ASSUME x \in Range(new) PROVE x \in Range(queue) \ {d}
    <3>1. PICK i \in 1..n - 1 : x = new[i] BY <1>10, <2>1 DEF Range
    <3>2. PICK j \in 1..n : j # at /\ x = queue[j] BY <1>9, <1>11, <3>1
    <3> QED BY <1>1, <1>2, <3>2 DEF Range, NotTwice
  <2>2. ASSUME x \in Range(queue), x # d PROVE x \in Range(new)
    <3>1. PICK j \in 1..n : x = queue[j] /\ j # at BY <1>1, <1>2, <2>2 DEF Range
    <3>2. CASE j < at
      <4>1. j \in 1..n - 1 BY <1>1, <3>2
      <4> QED BY <1>9, <1>10, <3>1, <3>2, <4>1 DEF Range
    <3>3. CASE ~(j < at)
      <4>1. j - 1 \in 1..n - 1 /\ ~(j - 1 < at) /\ (j - 1) + 1 = j BY <1>1, <3>1, <3>3
      <4>2. new[j - 1] = x BY <1>9, <3>1, <4>1
      <4> QED BY <1>10, <4>1, <4>2 DEF Range
    <3> QED BY <3>2, <3>3
  <2> QED BY <2>1, <2>2
<1>13. ASSUME NEW i \in 1..n - 1, NEW j \in 1..n - 1, new[i] = new[j] PROVE i = j
  <2> DEFINE old(m) == IF m < at THEN m ELSE m + 1
  <2>1. old(i) \in 1..n /\ old(j) \in 1..n BY <1>11
  <2>2. new[i] = queue[old(i)] /\ new[j] = queue[old(j)] BY <1>9
  <2> HIDE DEF old
  <2>3. old(i) = old(j) BY <1>1, <1>13, <2>1, <2>2 DEF NotTwice
  <2> QED BY <1>1, <2>3 DEF old
<1> QED BY <1>5, <1>9, <1>10, <1>12, <1>13 DEF NotTwice

LEMMA DownloadInitial == DownloadInit => DownloadInv
<1> SUFFICES ASSUME DownloadInit PROVE DownloadInv OBVIOUS
<1> USE DownloadAssumption DEF DownloadInit
<1>1. NoDownload \in [state: {"none", "waiting", "running"}, service: Service \cup {NoService},
                      redirections: 0..MaxRedirections]
  BY DEF NoDownload
<1>2. \A s \in Service : waitingJobs[s] = <<>> OBVIOUS
<1>3. \A d \in Download : ~Waiting(d) /\ ~Running(d) BY DEF Waiting, Running, NoDownload
<1>4. \A s \in Service : waitingJobs[s] \in Seq(Download) /\ DOMAIN waitingJobs[s] = {}
  BY <1>2, EmptySeq
<1>5. \A s \in Service :
        Range(waitingJobs[s]) = {d \in Download : Waiting(d) /\ download[d].service = s}
  BY <1>3, <1>4 DEF Range
<1> QED BY <1>1, <1>3, <1>4, <1>5 DEF DownloadInv, DownloadTypeOK, NotTwice

\* A download that does not wait is requested at a service, or waits for it.
LEMMA EnqueueKeepsInv ==
  ASSUME DownloadInv, NEW d \in Download, ~Waiting(d), NEW s \in Service,
         NEW n \in 0..MaxRedirections, Enqueue(d, s, n), nextJob' \in [Service -> Nat]
  PROVE  DownloadInv'
<1> DEFINE waits == s \in sequential /\ s \in busy
           entry == [state |-> IF waits THEN "waiting" ELSE "running", service |-> s, redirections |-> n]
           Entries == [state: {"none", "waiting", "running"}, service: Service \cup {NoService},
                       redirections: 0..MaxRedirections]
           Those(r) == {e \in Download : Waiting(e) /\ download[e].service = r}
<1>1. /\ download \in [Download -> Entries]
      /\ sequential \subseteq Service /\ busy \subseteq sequential
      /\ waitingJobs \in [Service -> Seq(Download)]
      /\ \A r \in Service : Range(waitingJobs[r]) = Those(r) /\ NotTwice(waitingJobs[r])
  BY DEF DownloadInv, DownloadTypeOK
<1>2. download' = [download EXCEPT ![d] = entry]
  <2>1. CASE waits BY <1>1, <2>1 DEF Enqueue, Request
  <2>2. CASE ~waits BY <1>1, <2>2 DEF Enqueue, Request
  <2> QED BY <2>1, <2>2
<1>3. /\ sequential' = sequential /\ busy' \subseteq sequential
      /\ waitingJobs' = IF waits THEN [waitingJobs EXCEPT ![s] = Append(@, d)] ELSE waitingJobs
  BY <1>1 DEF Enqueue
<1>4. entry \in Entries OBVIOUS
<1>5. \A e \in Download : download'[e] = IF e = d THEN entry ELSE download[e] BY <1>1, <1>2
<1>6. download' \in [Download -> Entries] BY <1>1, <1>2, <1>4
<1>7. ASSUME NEW r \in Service
      PROVE  Those(r)' = IF waits /\ r = s THEN Those(r) \cup {d} ELSE Those(r)
  <2>1. Waiting(d)' <=> waits BY <1>5 DEF Waiting
  <2>2. download'[d].service = s BY <1>5
  <2>3. \A e \in Download : e # d => (Waiting(e)' <=> Waiting(e)) /\ download'[e].service = download[e].service
    BY <1>5 DEF Waiting
  <2> HIDE DEF waits
  <2> QED BY <2>1, <2>2, <2>3
<1>8. d \notin Those(s) OBVIOUS
<1>11. ASSUME NEW e \in Download, Waiting(e)' \/ Running(e)' PROVE download'[e].service \in Service
  BY <1>5, <1>11 DEF Waiting, Running, DownloadInv
<1> HIDE DEF waits, Those
<1>9. ASSUME NEW r \in Service
      PROVE  /\ waitingJobs'[r] \in Seq(Download)
             /\ Range(waitingJobs'[r]) = Those(r)'
             /\ NotTwice(waitingJobs'[r])
  <2>1. CASE waits /\ r = s
    <3>1. waitingJobs'[r] = Append(waitingJobs[r], d) BY <1>1, <1>3, <2>1
    <3>2. waitingJobs[r] \in Seq(Download) /\ NotTwice(waitingJobs[r]) /\ Range(waitingJobs[r]) = Those(r)
      BY <1>1
    <3>3. /\ Append(waitingJobs[r], d) \in Seq(Download)
          /\ Range(Append(waitingJobs[r], d)) = Those(r) \cup {d}
          /\ NotTwice(Append(waitingJobs[r], d))
      BY <1>8, <2>1, <3>2, Entered
    <3> QED BY <1>7, <2>1, <3>1, <3>3
  <2>2. CASE ~(waits /\ r = s) BY <1>1, <1>3, <1>7, <2>2
  <2> QED BY <2>1, <2>2
<1>10. waitingJobs' \in [Service -> Seq(Download)] BY <1>1, <1>3, <1>9
<1> QED BY <1>1, <1>3, <1>6, <1>9, <1>10, <1>11 DEF DownloadInv, DownloadTypeOK, Those

\* A download that does not wait is over.
LEMMA FinishKeepsInv ==
  ASSUME DownloadInv, NEW d \in Download, NEW over \in BOOLEAN, Finish(d, over)
  PROVE  DownloadInv'
<1> DEFINE Entries == [state: {"none", "waiting", "running"}, service: Service \cup {NoService},
                       redirections: 0..MaxRedirections]
<1>1. download \in [Download -> Entries] /\ nextJob \in [Service -> Nat]
  BY DEF DownloadInv, DownloadTypeOK
<1>2. NoDownload \in Entries BY DownloadAssumption DEF NoDownload
<1>3. download' = [download EXCEPT ![d] = NoDownload] BY DEF Finish, Finished
<1>4. download' \in [Download -> Entries] BY <1>1, <1>2, <1>3
<1>5. nextJob' \in [Service -> Nat]
  <2>1. download[d].service \in Service BY DEF Finish, DownloadInv
  <2> QED BY <1>1, <2>1 DEF Finish, ReplyFinished
<1>6. ~Waiting(d) /\ ~Waiting(d)' /\ ~Running(d)' BY <1>1, <1>3 DEF Finish, Running, Waiting, NoDownload
<1>7. \A e \in Download : e # d => download'[e] = download[e] BY <1>1, <1>3
<1>8. \A s \in Service : {e \in Download : Waiting(e) /\ download[e].service = s}'
                       = {e \in Download : Waiting(e) /\ download[e].service = s}
  BY <1>6, <1>7 DEF Waiting
<1>9. \A e \in Download : Waiting(e)' \/ Running(e)' => download'[e].service \in Service
  BY <1>6, <1>7 DEF Waiting, Running, DownloadInv
<1> QED BY <1>4, <1>5, <1>8, <1>9 DEF DownloadInv, DownloadTypeOK, Finish

\* A download leaves its queue: it is cancelled, or started.
LEMMA LeftKeepsInv ==
  ASSUME DownloadInv, NEW d \in Download, Waiting(d), NEW s \in Service, download[d].service = s,
         NEW entry \in [state: {"none", "running"}, service: Service \cup {NoService},
                        redirections: 0..MaxRedirections],
         entry.state = "running" => entry.service \in Service,
         download' = [download EXCEPT ![d] = entry],
         NEW queue \in Seq(Download), Range(queue) = Range(waitingJobs[s]) \ {d}, NotTwice(queue),
         waitingJobs' = [waitingJobs EXCEPT ![s] = queue],
         UNCHANGED <<sequential, busy>>, nextJob' \in [Service -> Nat]
  PROVE  DownloadInv'
<1> DEFINE Entries == [state: {"none", "waiting", "running"}, service: Service \cup {NoService},
                       redirections: 0..MaxRedirections]
           Those(r) == {e \in Download : Waiting(e) /\ download[e].service = r}
<1>1. /\ download \in [Download -> Entries] /\ waitingJobs \in [Service -> Seq(Download)]
      /\ \A r \in Service : Range(waitingJobs[r]) = Those(r) /\ NotTwice(waitingJobs[r])
  BY DEF DownloadInv, DownloadTypeOK
<1>2. entry \in Entries OBVIOUS
<1>3. download' \in [Download -> Entries] BY <1>1, <1>2
<1>4. \A e \in Download : download'[e] = IF e = d THEN entry ELSE download[e] BY <1>1
<1>5. ~Waiting(d)' BY <1>4 DEF Waiting
<1>6. ASSUME NEW r \in Service PROVE Those(r)' = IF r = s THEN Those(r) \ {d} ELSE Those(r)
  <2>1. \A e \in Download : e # d => (Waiting(e)' <=> Waiting(e)) /\ download'[e].service = download[e].service
    BY <1>4 DEF Waiting
  <2> QED BY <1>5, <2>1
<1>9. ASSUME NEW e \in Download, Waiting(e)' \/ Running(e)' PROVE download'[e].service \in Service
  BY <1>4, <1>9 DEF Waiting, Running, DownloadInv
<1> HIDE DEF Those
<1>7. ASSUME NEW r \in Service
      PROVE  Range(waitingJobs'[r]) = Those(r)' /\ NotTwice(waitingJobs'[r])
  <2>1. CASE r = s
    <3>1. waitingJobs'[r] = queue BY <1>1, <2>1
    <3> QED BY <1>1, <1>6, <2>1, <3>1
  <2>2. CASE r # s
    <3>1. waitingJobs'[r] = waitingJobs[r] BY <1>1, <2>2
    <3> QED BY <1>1, <1>6, <2>2, <3>1
  <2> QED BY <2>1, <2>2
<1>8. waitingJobs' \in [Service -> Seq(Download)] BY <1>1
<1> QED BY <1>3, <1>7, <1>8, <1>9 DEF DownloadInv, DownloadTypeOK, Those

LEMMA DownloadStep ==
  ASSUME DownloadInv, [DownloadNext]_downloadVars PROVE DownloadInv'
<1> DEFINE Entries == [state: {"none", "waiting", "running"}, service: Service \cup {NoService},
                       redirections: 0..MaxRedirections]
           Those(r) == {e \in Download : Waiting(e) /\ download[e].service = r}
<1>1. /\ download \in [Download -> Entries] /\ nextJob \in [Service -> Nat]
      /\ waitingJobs \in [Service -> Seq(Download)]
      /\ sequential \subseteq Service /\ busy \subseteq sequential
      /\ \A r \in Service : Range(waitingJobs[r]) = Those(r) /\ NotTwice(waitingJobs[r])
  BY DEF DownloadInv, DownloadTypeOK
<1>2. \A d \in Download, s \in Service : d \in Range(waitingJobs[s]) => Waiting(d) /\ download[d].service = s
  BY <1>1
<1>3. \A d \in Download : Waiting(d) => /\ download[d].service \in Service
                                        /\ d \in Range(waitingJobs[download[d].service])
  BY <1>1 DEF DownloadInv
<1> HIDE DEF Those
<1>4. ASSUME NEW s \in Service, Register(s) PROVE DownloadInv'
  BY <1>4 DEF Register, DownloadInv, DownloadTypeOK, Waiting, Running
<1>5. ASSUME NEW s \in Service, StartDownload(s) PROVE DownloadInv'
  <2> DEFINE d == CHOOSE d \in Download : download[d] = NoDownload
  <2>1. d \in Download /\ download[d] = NoDownload BY <1>5 DEF StartDownload
  <2>2. Enqueue(d, s, 0) /\ nextJob' \in [Service -> Nat] BY <1>1, <1>5 DEF StartDownload
  <2> HIDE DEF d
  <2>3. ~Waiting(d) BY <2>1 DEF Waiting, NoDownload
  <2>4. 0 \in 0..MaxRedirections BY DownloadAssumption
  <2> QED BY <2>1, <2>2, <2>3, <2>4, EnqueueKeepsInv
<1>6. ASSUME NEW d \in Download, NEW s \in Service, Redirect(d, s) PROVE DownloadInv'
  <2>1. ~Waiting(d) BY <1>6 DEF Redirect, Running, Waiting
  <2>2. download[d].redirections + 1 \in 0..MaxRedirections
    BY <1>1, <1>6, DownloadAssumption DEF Redirect
  <2>3. nextJob' \in [Service -> Nat]
    <3>1. download[d].service \in Service BY <1>6 DEF Redirect, DownloadInv
    <3> QED BY <1>1, <1>6, <3>1 DEF Redirect, ReplyFinished
  <2>4. Enqueue(d, s, download[d].redirections + 1) BY <1>6 DEF Redirect
  <2> QED BY <2>1, <2>2, <2>3, <2>4, EnqueueKeepsInv
<1>7. ASSUME NEW d \in Download, NEW over \in BOOLEAN, Finish(d, over) PROVE DownloadInv'
  BY <1>7, FinishKeepsInv
<1>8. ASSUME NEW d \in Download, Waiting(d), Leave(d), Finished(d),
             UNCHANGED <<sequential, busy, nextJob>>
      PROVE  DownloadInv'
  <2> DEFINE s == download[d].service
  <2>1. s \in Service /\ d \in Range(waitingJobs[s]) BY <1>3, <1>8
  <2>2. NoDownload \in [state: {"none", "running"}, service: Service \cup {NoService},
                        redirections: 0..MaxRedirections]
    BY DownloadAssumption DEF NoDownload
  <2>3. download' = [download EXCEPT ![d] = NoDownload] BY <1>8 DEF Finished
  <2>4. NoDownload.state # "running" BY DEF NoDownload
  <2> DEFINE queue == RemoveFirst(waitingJobs[s], d)
  <2>5. waitingJobs[s] \in Seq(Download) /\ NotTwice(waitingJobs[s]) BY <1>1, <2>1
  <2>6. queue \in Seq(Download) /\ Range(queue) = Range(waitingJobs[s]) \ {d} /\ NotTwice(queue)
    BY <2>1, <2>5, OneLeft
  <2>7. waitingJobs' = [waitingJobs EXCEPT ![s] = queue] BY <1>8 DEF Leave
  <2>8. nextJob' \in [Service -> Nat] /\ UNCHANGED <<sequential, busy>> BY <1>1, <1>8
  <2> HIDE DEF queue
  <2> QED BY <1>8, <2>1, <2>2, <2>3, <2>4, <2>6, <2>7, <2>8, LeftKeepsInv
<1>9. ASSUME NEW s \in Service, ProcessWaitingJobs(s) PROVE DownloadInv'
  <2>1. nextJob' \in [Service -> Nat] BY <1>1, <1>9 DEF ProcessWaitingJobs
  <2>2. CASE waitingJobs[s] = <<>>
    <3>1. busy' \subseteq sequential /\ UNCHANGED <<download, waitingJobs, sequential>>
      BY <1>1, <1>9, <2>2 DEF ProcessWaitingJobs
    <3> QED BY <2>1, <3>1 DEF DownloadInv, DownloadTypeOK, Waiting, Running
  <2>3. CASE waitingJobs[s] # <<>>
    <3> DEFINE d == Head(waitingJobs[s])
               queue == Tail(waitingJobs[s])
               entry == [download[d] EXCEPT !.state = "running"]
    <3>1. waitingJobs[s] \in Seq(Download) /\ NotTwice(waitingJobs[s]) BY <1>1
    <3>2. /\ d \in Download /\ d \in Range(waitingJobs[s]) /\ queue \in Seq(Download)
          /\ Range(queue) = Range(waitingJobs[s]) \ {d} /\ NotTwice(queue)
      BY <2>3, <3>1, HeadLeft
    <3>3. Waiting(d) /\ download[d].service = s BY <1>2, <3>2
    <3>4. /\ download' = [download EXCEPT ![d] = entry]
          /\ waitingJobs' = [waitingJobs EXCEPT ![s] = queue]
          /\ UNCHANGED <<sequential, busy>>
      BY <1>9, <2>3 DEF ProcessWaitingJobs
    <3>5. entry \in [state: {"none", "running"}, service: Service \cup {NoService},
                     redirections: 0..MaxRedirections]
      BY <1>1, <3>2
    <3>6. entry.service \in Service BY <1>1, <3>2, <3>3
    <3> HIDE DEF d, queue, entry
    <3> QED BY <2>1, <3>2, <3>6, <3>3, <3>4, <3>5, LeftKeepsInv
  <2> QED BY <2>2, <2>3
<1>10. CASE UNCHANGED downloadVars
  BY <1>10 DEF downloadVars, DownloadInv, DownloadTypeOK, Waiting, Running
<1> QED BY <1>4, <1>5, <1>6, <1>7, <1>8, <1>9, <1>10 DEF DownloadNext, Cancel

-----------------------------------------------------------------------------
(* The watched folder. *)

LEMMA WatchedInitial == WatchedInit => WatchedTypeOK
<1> SUFFICES ASSUME WatchedInit PROVE WatchedTypeOK OBVIOUS
<1> USE WatchedAssumption DEF WatchedInit
<1>1. folder \in Mode /\ watched \in Mode BY DEF Mode
<1>2. folderCalls \in Seq(Mode) BY EmptySeq
<1>3. failed \in [File -> -1..MaxRetries] BY DEF NoFailed
<1>4. reported = (watched = "plain") /\ retryTimer = (failed # NoFailed) OBVIOUS
<1>5. scheduled \in 0..MaxScheduled OBVIOUS
<1>6. file \in [File -> InFolder \cup {"absent", "taken", "cut", "rejected"}] /\ rejected \subseteq File
  OBVIOUS
<1> QED BY <1>1, <1>2, <1>3, <1>4, <1>5, <1>6 DEF WatchedTypeOK

\* More looks than the bound count as one.
LEMMA MoreTyped == ASSUME NEW n \in 0..MaxScheduled PROVE More(n) \in 0..MaxScheduled
BY WatchedAssumption DEF More

\* The types are inductive by themselves: the last retry of a file forgets it.
LEMMA WatchedStep ==
  ASSUME WatchedTypeOK, [WatchedNext]_folderVars PROVE WatchedTypeOK'
<1> DEFINE State == InFolder \cup {"absent", "taken", "cut", "rejected"}
<1> USE WatchedAssumption DEF InFolder
<1>0. /\ folder \in Mode /\ watched \in Mode /\ folderCalls \in Seq(Mode)
      /\ reported = (watched = "plain") /\ scheduled \in 0..MaxScheduled
      /\ failed \in [File -> -1..MaxRetries] /\ retryTimer = (failed # NoFailed)
      /\ file \in [File -> State] /\ rejected \subseteq File
  BY DEF WatchedTypeOK
<1>1. ASSUME NEW mode \in Mode, SetFolder(mode) PROVE WatchedTypeOK'
  <2>1. folderCalls' \in Seq(Mode) BY <1>0, <1>1, AppendProperties DEF SetFolder
  <2> QED BY <1>0, <1>1, <2>1 DEF SetFolder, WatchedTypeOK, workerState
<1>2. ASSUME file' \in [File -> State], rejected' \subseteq File, Changed,
             UNCHANGED <<folder, folderCalls, watched, reported, failed, retryTimer>>
      PROVE  WatchedTypeOK'
  <2>1. scheduled' \in 0..MaxScheduled BY <1>0, <1>2, MoreTyped DEF Changed
  <2> QED BY <1>0, <1>2, <2>1 DEF WatchedTypeOK
<1>3. ASSUME NEW f \in File, Complete(f) PROVE WatchedTypeOK'
  <2>1. file' \in [File -> State] BY <1>0, <1>3 DEF Complete
  <2> QED BY <1>0, <1>3, <2>1 DEF Complete, WatchedTypeOK, workerState
<1>4. CASE PerformCall
  <2>1. Head(folderCalls) \in Mode /\ folderCalls' \in Seq(Mode)
    BY <1>0, <1>4, HeadTailProperties DEF PerformCall
  <2>2. UNCHANGED <<folder, file, rejected>> BY <1>4 DEF PerformCall
  <2>3. CASE Watch(Head(folderCalls))
    <3>1. scheduled' \in 0..MaxScheduled BY <1>0, <2>3, MoreTyped DEF Watch
    <3> QED BY <1>0, <2>1, <2>2, <2>3, <3>1 DEF Watch, WatchedTypeOK
  <2>4. CASE Unwatch
    <3>1. "none" \in Mode BY DEF Mode
    <3>2. failed' = NoFailed /\ NoFailed \in [File -> -1..MaxRetries] BY <2>4 DEF Unwatch, NoFailed
    <3> QED BY <1>0, <2>1, <2>2, <2>4, <3>1, <3>2 DEF Unwatch, WatchedTypeOK, NoFailed
  <2> QED BY <1>4, <2>3, <2>4 DEF PerformCall
<1>5. ASSUME ProcessFolder
      PROVE  file' \in [File -> State] /\ failed' \in [File -> -1..MaxRetries] /\ rejected' = rejected
  <2>1. \A f \in File : Loaded(f) \in State BY DEF Loaded
  <2>2. file' = [f \in File |-> IF Loadable(f) THEN Loaded(f) ELSE file[f]] BY <1>5 DEF ProcessFolder
  <2>3. file' \in [File -> State] BY <1>0, <2>1, <2>2
  <2>4. failed' \in [File -> -1..MaxRetries] BY <1>0, <1>5 DEF ProcessFolder
  <2> QED BY <1>5, <2>3, <2>4 DEF ProcessFolder
<1>6. ASSUME ProcessFolder, StartRetry PROVE retryTimer' = (failed' # NoFailed)
  <2>1. ASSUME failed # NoFailed PROVE failed' # NoFailed
    <3>1. PICK f \in File : failed[f] # -1 BY <1>0, <2>1 DEF NoFailed
    <3>2. failed'[f] = failed[f] BY <1>6, <3>1 DEF ProcessFolder
    <3> QED BY <3>1, <3>2 DEF NoFailed
  <2>2. CASE failed # NoFailed
    <3>1. retryTimer = TRUE BY <1>0, <2>2
    <3> QED BY <1>6, <2>1, <2>2, <3>1 DEF StartRetry
  <2>3. CASE failed = NoFailed
    <3>1. retryTimer = FALSE BY <1>0, <2>3
    <3> QED BY <1>6, <3>1 DEF StartRetry
  <2> QED BY <2>2, <2>3
<1>7. ASSUME NEW pending \in 0..MaxScheduled PROVE Reported(pending) \in 0..MaxScheduled
  BY <1>7, MoreTyped DEF Reported
<1>8. CASE ProcessScheduled
  <2>1. scheduled - 1 \in 0..MaxScheduled BY <1>0, <1>8 DEF ProcessScheduled
  <2>2. scheduled' \in 0..MaxScheduled BY <1>7, <1>8, <2>1 DEF ProcessScheduled
  <2>3. ProcessFolder /\ StartRetry /\ UNCHANGED <<folder, folderCalls, watched, reported>>
    BY <1>8 DEF ProcessScheduled
  <2> QED BY <1>0, <1>5, <1>6, <2>2, <2>3 DEF WatchedTypeOK
<1>9. CASE WatchTimeout
  <2>1. ProcessFolder /\ StartRetry /\ UNCHANGED <<folder, folderCalls, watched, reported, scheduled>>
    BY <1>9 DEF WatchTimeout
  <2> QED BY <1>0, <1>5, <1>6, <2>1 DEF WatchedTypeOK
<1>10. CASE RetryTimeout
  <2>1. scheduled' \in 0..MaxScheduled BY <1>0, <1>7, <1>10 DEF RetryTimeout
  <2>2. file' \in [File -> State] /\ rejected' \subseteq File BY <1>0, <1>10 DEF RetryTimeout
  <2>3. ASSUME NEW f \in File, file[f] = "partial", ~Overdue(f)
        PROVE  failed[f] + 1 \in -1..MaxRetries
    <3>1. failed[f] < MaxRetries BY <1>0, <2>3 DEF Overdue
    <3> QED BY <1>0, <3>1
  <2>4. failed' \in [File -> -1..MaxRetries] BY <1>0, <1>10, <2>3 DEF RetryTimeout
  <2>5. retryTimer' = (failed' # NoFailed) /\ UNCHANGED <<folder, folderCalls, watched, reported>>
    BY <1>10 DEF RetryTimeout
  <2> QED BY <1>0, <2>1, <2>2, <2>4, <2>5 DEF WatchedTypeOK
<1>11. CASE UNCHANGED folderVars
  BY <1>0, <1>11 DEF folderVars, workerState, WatchedTypeOK
<1>12. ASSUME NEW f \in File, NEW state \in Arriving(f), Arrive(f, state) PROVE WatchedTypeOK'
  <2>1. state \in State BY DEF Arriving
  <2>2. file' \in [File -> State] BY <1>0, <1>12, <2>1 DEF Arrive
  <2> QED BY <1>0, <1>2, <1>12, <2>2 DEF Arrive
<1>13. ASSUME NEW f \in File, Delete(f) PROVE WatchedTypeOK'
  <2>1. file' \in [File -> State] BY <1>0, <1>13 DEF Delete
  <2> QED BY <1>0, <1>2, <1>13, <2>1 DEF Delete
<1>14. ASSUME NEW f \in File, DeleteRejected(f) PROVE WatchedTypeOK'
  <2>1. rejected' \subseteq File BY <1>0, <1>14 DEF DeleteRejected
  <2> QED BY <1>0, <1>2, <1>14, <2>1 DEF DeleteRejected
<1> QED
  BY <1>1, <1>3, <1>4, <1>8, <1>9, <1>10, <1>11, <1>12, <1>13, <1>14 DEF WatchedNext

-----------------------------------------------------------------------------
(* All services. *)

\* Each service keeps its invariant, whichever of them runs.
ServicesInv(p, q) ==
  SettingsInv /\ DownloadInv /\ SyncInv(p) /\ PeersInv(q) /\ FilesTypeOK /\ WatchedTypeOK

\* A step of one service is a step, or none, of each.
LEMMA OneRuns ==
  ASSUME [ServicesNext]_servicesVars
  PROVE  /\ [SettingsNext]_settingsVars /\ [DownloadNext]_downloadVars
         /\ [SyncNext]_syncVars /\ [PeersNext]_peersVars
         /\ [FilesNext]_fileVars /\ [WatchedNext]_folderVars
BY DEF ServicesNext, servicesVars

LEMMA ServicesInductive ==
  ASSUME NEW CONSTANT p, Tab = {p}, NEW CONSTANT q, Pane = {q}, MaxLost \in 0..1
  PROVE  ServicesSpec => []ServicesInv(p, q)
<1>1. ServicesInit => ServicesInv(p, q)
  <2> SUFFICES ASSUME ServicesInit PROVE ServicesInv(p, q) OBVIOUS
  <2>1. SettingsInit /\ DownloadInit /\ SyncInit /\ PeersInit /\ FilesInit /\ WatchedInit
    BY DEF ServicesInit
  <2>2. SyncInv(p) /\ PeersInv(q) BY <2>1, SyncInitial, PeersInitial
  <2>3. FilesTypeOK BY <2>1, FilesInitial DEF FilesInv
  <2> QED BY <2>1, <2>2, <2>3, SettingsInitial, DownloadInitial, WatchedInitial DEF ServicesInv
<1>2. ServicesInv(p, q) /\ [ServicesNext]_servicesVars => ServicesInv(p, q)'
  <2> SUFFICES ASSUME ServicesInv(p, q), [ServicesNext]_servicesVars PROVE ServicesInv(p, q)' OBVIOUS
  <2>1. SettingsInv /\ DownloadInv /\ SyncInv(p) /\ PeersInv(q) /\ FilesTypeOK /\ WatchedTypeOK
    BY DEF ServicesInv
  <2>2. SettingsInv' BY <2>1, OneRuns, SettingsStep
  <2>3. DownloadInv' BY <2>1, OneRuns, DownloadStep
  <2>4. SyncInv(p)' BY <2>1, OneRuns, SyncStep
  <2>5. PeersInv(q)' BY <2>1, OneRuns, PeersStep
  <2>6. FilesTypeOK' BY <2>1, OneRuns, FilesTyped
  <2>7. WatchedTypeOK' BY <2>1, OneRuns, WatchedStep
  <2> QED BY <2>2, <2>3, <2>4, <2>5, <2>6, <2>7 DEF ServicesInv
<1> QED BY <1>1, <1>2, PTL DEF ServicesSpec

(* The types of all services, among them: m_waitingJobs holds, for each service,
   exactly the downloads that wait for it ("so it's still in the queue", says
   DownloadManager::download of one that is cancelled); and the timer that
   retries watched files is active exactly as long as m_failedTorrents has any,
   none of them with more retries than are allowed. *)
THEOREM ServicesTyped ==
  ASSUME NEW CONSTANT p, Tab = {p}, NEW CONSTANT q, Pane = {q}, MaxLost \in 0..1
  PROVE  ServicesSpec => []ServicesTypeOK
<1>1. ServicesInv(p, q) => ServicesTypeOK
  BY DEF ServicesInv, ServicesTypeOK, SettingsInv, DownloadInv, SyncInv, PeersInv
<1> QED BY <1>1, ServicesInductive, PTL

=============================================================================
