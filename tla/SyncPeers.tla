----------------------------- MODULE SyncPeers ------------------------------
(***************************************************************************)
(* SyncController, api/v2/sync/torrentPeers: the list of peers is made     *)
(* anew at every request and compared with the list of the response that   *)
(* the page has acknowledged.                                              *)
(*                                                                         *)
(* A peer has one field.  Selecting another torrent is a change of peers.  *)
(* A page asks by a timer and whenever updateData is called, whether or    *)
(* not it has a request under way, so that requests overlap and responses  *)
(* are lost or received in any order.                                      *)
(***************************************************************************)
EXTENDS Naturals

CONSTANTS
  Peer,           \* the peers of a torrent
  PeerData,       \* the contents of a peer's field
  NoPeer,         \* there is no such peer
  Pane,           \* the lists of peers that share a web session
  Fetch,          \* the requests that a list may have under way (bound)
  MaxPeersID,     \* response IDs cycle between 1 and this
  MaxPeersLost    \* bound: responses lost in a row

VARIABLES
  peers,              \* the peers of the torrent
  lastPeers,          \* m_lastPeersResponse, ID 0 for none
  lastAcceptedPeers,  \* m_lastAcceptedPeersResponse
  pane,               \* what each list shows, and syncTorrentPeersLastResponseId
  fetch,              \* the requests under way, with their answers
  peersLost,          \* the responses lost in a row
  undisturbed         \* history: since its last request for everything a list has
                      \* had one request at a time and has not been cleared

peersServer == <<peers, lastPeers, lastAcceptedPeers>>
peersVars == <<peers, lastPeers, lastAcceptedPeers, pane, fetch, peersLost, undisturbed>>

ASSUME PeersAssumption ==
  /\ NoPeer \notin PeerData
  /\ MaxPeersID \in Nat /\ MaxPeersLost \in Nat /\ MaxPeersLost + 1 < MaxPeersID

Peers == [Peer -> PeerData \cup {NoPeer}]
NoPeers == [a \in Peer |-> NoPeer]
NoResponse == [rid |-> 0, peers |-> NoPeers]
NoAnswer == [rid |-> 0, full |-> FALSE, items |-> NoPeers, removedItems |-> {}]
NoFetch == [sent |-> FALSE, rid |-> 0, answer |-> NoAnswer]

PeersInit ==
  /\ peers = NoPeers
  /\ lastPeers = NoResponse
  /\ lastAcceptedPeers = NoResponse
  /\ pane = [p \in Pane |-> NoResponse]
  /\ fetch = [p \in Pane |-> [q \in Fetch |-> NoFetch]]
  /\ peersLost = 0
  /\ undisturbed = [p \in Pane |-> TRUE]

Answered(p, q) == fetch[p][q].answer.rid > 0
NoneUnderWay(p) == \A q \in Fetch : ~fetch[p][q].sent

\* fetchPeerInfo returns something else.
ChangePeers(a, data) ==
  /\ peers[a] # data
  /\ peers' = [peers EXCEPT ![a] = data]
  /\ UNCHANGED <<lastPeers, lastAcceptedPeers, pane, fetch, peersLost, undisturbed>>

\* loadTorrentPeersData, by its timer or by updateData.
LoadPeers(p, q) ==
  /\ ~fetch[p][q].sent
  /\ fetch' = [fetch EXCEPT ![p][q] = [sent |-> TRUE, rid |-> pane[p].rid, answer |-> NoAnswer]]
  /\ undisturbed' = [undisturbed EXCEPT ![p] = NoneUnderWay(p) /\ (@ \/ pane[p].rid = 0)]
  /\ UNCHANGED <<peersServer, pane, peersLost>>

\* processHash: new and changed peers, and those that are gone.
PeersDifference(previous, data, full, id) ==
  [rid          |-> id,
   full         |-> full,
   items        |-> [a \in Peer |-> IF data[a] # previous[a] THEN data[a] ELSE NoPeer],
   removedItems |-> {a \in Peer : previous[a] # NoPeer /\ data[a] = NoPeer}]

\* Mutant: any acknowledgement is taken for one of the last response.
Accepted_Unchecked(acceptedResponseId) ==
  IF acceptedResponseId > 0
  THEN [lastPeers EXCEPT !.rid = acceptedResponseId] ELSE lastAcceptedPeers

\* The response that differences are made from ...
Accepted(acceptedResponseId) ==
  IF acceptedResponseId > 0 /\ lastPeers.rid = acceptedResponseId
  THEN lastPeers ELSE lastAcceptedPeers

\* ... unless the request acknowledges another one.
TorrentPeers(p, q) ==
  LET acceptedResponseId == fetch[p][q].rid
      lastResponseId == IF acceptedResponseId > 0 THEN lastPeers.rid ELSE 0
      accepted == Accepted(acceptedResponseId)
      full == ~(lastResponseId > 0 /\ accepted.rid = acceptedResponseId)
      previous == IF full THEN NoPeers ELSE accepted.peers
      id == (lastResponseId % MaxPeersID) + 1
  IN /\ fetch[p][q].sent /\ ~Answered(p, q)
     /\ lastAcceptedPeers' = IF full THEN NoResponse ELSE accepted
     /\ lastPeers' = [rid |-> id, peers |-> peers]
     /\ fetch' = [fetch EXCEPT ![p][q] =
                    [sent |-> TRUE, rid |-> 0,   \* of no use from now on
                     answer |-> PeersDifference(previous, peers, full, id)]]
     /\ UNCHANGED <<peers, pane, peersLost, undisturbed>>

\* What a list shows after a response: a full update replaces what it has shown.
PeersShown(shown, answer) ==
  [rid   |-> answer.rid,
   peers |-> [a \in Peer |-> IF a \in answer.removedItems THEN NoPeer
                             ELSE IF answer.items[a] # NoPeer THEN answer.items[a]
                             ELSE IF answer.full THEN NoPeer ELSE shown[a]]]

\* The response is applied to what the list shows when it comes.
ReceivePeers(p, q) ==
  /\ Answered(p, q)
  /\ pane' = [pane EXCEPT ![p] = PeersShown(@.peers, fetch[p][q].answer)]
  /\ fetch' = [fetch EXCEPT ![p][q] = NoFetch]
  /\ peersLost' = 0
  /\ UNCHANGED <<peersServer, undisturbed>>

\* The request fails, before the server has handled it or after.
LosePeers(p, q) ==
  /\ fetch[p][q].sent
  /\ IF Answered(p, q) THEN peersLost < MaxPeersLost /\ peersLost' = peersLost + 1
     ELSE UNCHANGED peersLost
  /\ fetch' = [fetch EXCEPT ![p][q] = NoFetch]
  /\ UNCHANGED <<peersServer, pane, undisturbed>>

\* The list is hidden, or no torrent is selected: the next request acknowledges
\* nothing.  Responses that are still to come are applied all the same.
ClosePane(p) ==
  /\ pane[p] # NoResponse
  /\ pane' = [pane EXCEPT ![p] = NoResponse]
  /\ undisturbed' = [undisturbed EXCEPT ![p] = NoneUnderWay(p)]
  /\ UNCHANGED <<peersServer, fetch, peersLost>>

\* clear: the list is emptied, but keeps its response ID.
ClearPane(p) ==
  /\ pane[p].peers # NoPeers
  /\ pane' = [pane EXCEPT ![p].peers = NoPeers]
  /\ undisturbed' = [undisturbed EXCEPT ![p] = FALSE]
  /\ UNCHANGED <<peersServer, fetch, peersLost>>

PeersNext ==
  \/ \E a \in Peer, data \in PeerData \cup {NoPeer} : ChangePeers(a, data)
  \/ \E p \in Pane : \/ ClosePane(p) \/ ClearPane(p)
                     \/ \E q \in Fetch : \/ LoadPeers(p, q) \/ TorrentPeers(p, q)
                                         \/ ReceivePeers(p, q) \/ LosePeers(p, q)

PeersSpec == PeersInit /\ [][PeersNext]_peersVars

-----------------------------------------------------------------------------
(* Properties. *)

(* Types of the variables. *)
PeersTypeOK ==
  LET Response == [rid: 0..MaxPeersID, peers: Peers]
      Answer == [rid: 0..MaxPeersID, full: BOOLEAN, items: Peers, removedItems: SUBSET Peer]
  IN /\ peers \in Peers
     /\ lastPeers \in Response /\ lastAcceptedPeers \in Response
     /\ pane \in [Pane -> Response]
     /\ fetch \in [Pane -> [Fetch -> [sent: BOOLEAN, rid: 0..MaxPeersID, answer: Answer]]]
     /\ peersLost \in 0..MaxPeersLost
     /\ undisturbed \in [Pane -> BOOLEAN]

\* It has received the response that the server has made last.
HasLastPeers(p) == pane[p].rid > 0 /\ pane[p].rid = lastPeers.rid

(* generateSyncData compares with what the list shows: a list that has received
   the last response shows the peers as they were when it was made, over lost
   requests and responses, as long as its requests do not overlap and it keeps
   what it shows.  Asking for everything with one request repairs it. *)
PeersAreExact ==
  \A p \in Pane : undisturbed[p] /\ HasLastPeers(p) => pane[p].peers = lastPeers.peers

(* A list that has received the last response, and waits for no other, shows no
   peer that was gone when it was made.  Overlapping requests leave some: the
   second difference is made from what the list showed before the first was
   applied to it. *)
GonePeersVanish ==
  \A p \in Pane : HasLastPeers(p) /\ NoneUnderWay(p) =>
    \A a \in Peer : pane[p].peers[a] # NoPeer => lastPeers.peers[a] # NoPeer

=============================================================================
