\* With Pane = {p1, p2}, PeersAreExact is violated as well: the two lists
\* acknowledge responses in turn.
SPECIFICATION PeersSpec
CONSTANTS
  Peer = {a1, a2}
  PeerData = {1}
  NoPeer = NoPeer
  Pane = {p1}
  Fetch = {q1, q2}
  MaxPeersID = 4
  MaxPeersLost = 0
INVARIANT GonePeersVanish
CHECK_DEADLOCK FALSE
