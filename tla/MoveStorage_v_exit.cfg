SPECIFICATION Spec
CONSTANTS
  Torrent = {t1}
  Handle = {h1}
  Path = {p1, p2}
  p1 = p1
  p2 = p2
  NoTorrent = NoTorrent
  NoHandle = NoHandle
  NoPath = NoPath
  Layouts <- Downloading
  MissingFiles = {}
  RemoveOptions = {}
  AllowAdd = FALSE
  MaxQueue = 3
  MaxUpdates = 0
  MaxRequests = 2
INVARIANT StoredLocationIsCurrent
