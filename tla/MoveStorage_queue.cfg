SPECIFICATION Spec
CONSTANTS
  Torrent = {t1, t2}
  Handle = {h1, h2}
  Path = {p1, p2}
  p1 = p1
  p2 = p2
  NoTorrent = NoTorrent
  NoHandle = NoHandle
  NoPath = NoPath
  Layouts <- Downloading
  MissingFiles = {}
  RemoveOptions = {"KeepContent"}
  AllowAdd = FALSE
  MaxQueue = 3
  MaxUpdates = 0
  MaxRequests = 0
SYMMETRY Symmetry
INVARIANTS
  TypeOK
  OneMoveAtATime
  HeadJobIsOngoing
  MovingAgreesWithQueue
  LocationIsKnown
  NoOrphanedNative
  NoticeWaitsForMove
