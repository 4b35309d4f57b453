\* Services share no state, so that they can share names: fewer permutations.
SPECIFICATION ServicesSpec
CONSTANTS
  Key = {k1, k2}
  Value = {1, 2}
  NoValue = NoValue
  DiskFaults = {{"sync"}, {"sync", "remove"}, {"remove", "rename"}, {"sync", "rename"}}
  MaxFailures = 3
  Download = {d1, d2, d3}
  Service = {s1, s2}
  NoService = NoService
  MaxRedirections = 1
  MaxTimers = 1
  Torrent = {x1, x2}
  Tag = {g1}
  Data = {y1, y2}
  Absent = Absent
  Tab = {p1}
  MaxResponseID = 3
  MaxLost = 1
  MaxCopies = 2
  Peer = {a1}
  PeerData = {y1, y2}
  NoPeer = NoPeer
  Pane = {p1}
  Fetch = {x1, x2}
  MaxPeersID = 3
  MaxPeersLost = 1
  ID = {1}
  QueueID = {1, 2, 3, 4}
  FileFaults = {{"write"}, {"remove"}}
  MaxCalls = 2
  File = {f1, f2}
  MagnetFile = {f2}
  MaxRetries = 2
  MaxScheduled = 2
  MaxFolderCalls = 2
INVARIANTS
  ServicesTypeOK
  SettingsNotLost
  MaindataIsExact
  PeersAreExact
  MetadataIsThere
  QueueIsRestored
PROPERTY SettingsAtomic
PROPERTY ChangesAreSaved
PROPERTY WaitingIsStarted
PROPERTY FilesAreTaken
SYMMETRY ServicesSymmetry
CHECK_DEADLOCK FALSE
