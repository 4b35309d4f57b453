SPECIFICATION Spec
CONSTANTS
  Torrent = {t1, t2}
  Handle = {h1, h2, h3}
  Path = {p1, p2}
  p1 = p1
  p2 = p2
  NoTorrent = NoTorrent
  NoHandle = NoHandle
  NoPath = NoPath
  Layouts <- Downloading
  MissingFiles = {t2}
  RemoveOptions = {}
  AllowAdd = FALSE
  MaxQueue = 3
  MaxUpdates = 0
  MaxRequests = 0
INVARIANT HeadJobIsOngoing
