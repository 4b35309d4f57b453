SPECIFICATION FairSpec
CONSTANTS
  Torrent = {t1}
  Handle = {h1}
  Path = {p1, p2}
  p1 = p1
  p2 = p2
  NoTorrent = NoTorrent
  NoHandle = NoHandle
  NoPath = NoPath
  Layouts <- Downloading
  MissingFiles = {}
  RemoveOptions = {"KeepContent"}
  AllowAdd = TRUE
  MaxQueue = 2
  MaxUpdates = 1
  MaxRequests = 1
INVARIANTS
  AnswersAreCounted
  LocationIsKnown
PROPERTIES
  ShutdownEnds
  RemovalEnds
