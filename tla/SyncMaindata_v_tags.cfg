SPECIFICATION SyncSpec
CONSTANTS
  Torrent = {t1, t2}
  Tag = {g1}
  Data = {1, 2}
  Absent = Absent
  Tab = {p1}
  MaxResponseID = 3
  MaxLost = 1
  MaxCopies = 2
INVARIANT TagsAreExact
CHECK_DEADLOCK FALSE
