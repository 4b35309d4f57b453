SPECIFICATION FairSpec
CONSTANTS
  Torrent = {t1, t2}
  Data = {v1, v2}
  t1 = t1
  t2 = t2
  v1 = v1
  v2 = v2
  NoData = NoData
  NoRow = NoRow
  Jobs <- RowsOnly
  Failures = FALSE
  EarlyJobs = FALSE
  MaxPending = 3
PROPERTY
  EventuallyDurable
INVARIANT
  LoadIsConsistent
