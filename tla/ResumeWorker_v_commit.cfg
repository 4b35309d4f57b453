SPECIFICATION Spec
CONSTANTS
  Torrent = {t1, t2}
  Data = {v1, v2}
  t1 = t1
  t2 = t2
  v1 = v1
  v2 = v2
  NoData = NoData
  NoRow = NoRow
  Jobs <- OneStore
  Failures = TRUE
  EarlyJobs = FALSE
  MaxPending = 2
PROPERTY
  CommittedAsLogged
