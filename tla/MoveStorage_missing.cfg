SPECIFICATION Spec
CONSTANTS
  Torrent = {t1}
  Handle = {h1, h2, h3}
  Path = {p1, p2}
  p1 = p1
  p2 = p2
  NoTorrent = NoTorrent
  NoHandle = NoHandle
  NoPath = NoPath
  Layouts <- Seeding
  MissingFiles = {t1}
  RemoveOptions = {"KeepContent", "RemoveContent"}
  AllowAdd = FALSE
  MaxQueue = 2
  MaxUpdates = 0
  MaxRequests = 0
SYMMETRY Symmetry
INVARIANT OwnsNative
CHECK_DEADLOCK FALSE
