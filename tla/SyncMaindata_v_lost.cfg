SPECIFICATION SyncSpec
CONSTANTS
  Torrent = {t1, t2}
  Tag = {g1}
  Data = {1, 2}
  Absent = Absent
  Tab = {p1}
  MaxResponseID = 4
  MaxLost = 2
  MaxCopies = 2
INVARIANT MaindataIsExact
CHECK_DEADLOCK FALSE
